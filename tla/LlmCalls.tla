------------------------------ MODULE LlmCalls ------------------------------
(***************************************************************************)
(* Calls of the models (core/llm/provider.py) and the event each of them   *)
(* leaves in llm_calls.jsonl.  A call is cancelled by a wait_for of its    *)
(* caller or with the request; the streaming call is an async generator,   *)
(* which is suspended at a yield while the piece is sent to the client.    *)
(***************************************************************************)
EXTENDS Integers, Sequences, FiniteSets

CONSTANTS
    Call,       \* calls
    Kinds,      \* subset of {"text", "grounding", "structured", "stream"}:
                \* "text" stands for call_main, call_rewrite, call_with_model
    MaxPieces,  \* pieces of a streamed answer
    None

ASSUME KindAssumption == Kinds \subseteq {"text", "grounding", "structured", "stream"}
ASSUME PieceAssumption == MaxPieces \in Nat
ASSUME NoneAssumption == None \notin {"text", "grounding", "structured", "stream"}

VARIABLES
    kind,    \* the function that was called
    at,      \* where the call is
    billed,  \* tokens the provider has reported: input and output (of a stream,
             \* those of message_start and of message_delta)
    usage,   \* tokens the function has noted for the event
    pieces,  \* pieces yielded
    given,   \* what the caller has got from it
    events   \* the events of the call in llm_calls

vars == <<kind, at, billed, usage, pieces, given, events>>

Tokens == [input : BOOLEAN, output : BOOLEAN]
NoTokens == [input |-> FALSE, output |-> FALSE]
AllTokens == [input |-> TRUE, output |-> TRUE]
Error == {"http", "other", "json", "cancelled"}
Event == [error : Error \cup {None}, parse_ok : BOOLEAN, usage : Tokens]
Pending == {"requested", "streaming", "yielded", "abandoned"}

TypeOK ==
    /\ kind \in [Call -> Kinds \cup {None}]
    /\ at \in [Call -> {"new", "over"} \cup Pending]
    /\ billed \in [Call -> Tokens] /\ usage \in [Call -> Tokens]
    /\ pieces \in [Call -> 0..MaxPieces]
    /\ given \in [Call -> {None, "value", "empty", "exception", "cancellation"}]
    /\ \A c \in Call : \A k \in DOMAIN events[c] : events[c][k] \in Event
    /\ \A c \in Call : at[c] = "over" <=> given[c] # None

Init ==
    /\ kind = [c \in Call |-> None]
    /\ at = [c \in Call |-> "new"]
    /\ billed = [c \in Call |-> NoTokens] /\ usage = [c \in Call |-> NoTokens]
    /\ pieces = [c \in Call |-> 0]
    /\ given = [c \in Call |-> None]
    /\ events = [c \in Call |-> <<>>]

-----------------------------------------------------------------------------
\* Beginning and end of a call.

\* The model's prefix is known, and the request is sent.
Request(c) ==
    /\ at[c] = "new"
    /\ \E k \in Kinds : kind' = [kind EXCEPT ![c] = k]
    /\ at' = [at EXCEPT ![c] = "requested"]
    /\ UNCHANGED <<billed, usage, pieces, given, events>>

\* An unknown prefix raises before anything is measured.
UnknownModel(c) ==
    /\ at[c] = "new"
    /\ at' = [at EXCEPT ![c] = "over"]
    /\ given' = [given EXCEPT ![c] = "exception"]
    /\ UNCHANGED <<kind, billed, usage, pieces, events>>

\* finally: _record_llm_call.
Recorded(c, error, parse_ok, tokens) ==
    [events EXCEPT ![c] = Append(@, [error |-> error, parse_ok |-> parse_ok,
                                     usage |-> tokens])]

\* The call ends: what the caller gets, and the event.
Finish(c, gets, error, parse_ok, tokens) ==
    /\ at' = [at EXCEPT ![c] = "over"]
    /\ given' = [given EXCEPT ![c] = gets]
    /\ usage' = [usage EXCEPT ![c] = tokens]
    /\ events' = Recorded(c, error, parse_ok, tokens)

-----------------------------------------------------------------------------
\* Calls that return at once.

\* The response has text, and JSON where JSON is asked for.
Respond(c) ==
    /\ at[c] = "requested" /\ kind[c] # "stream"
    /\ billed' = [billed EXCEPT ![c] = AllTokens]
    /\ Finish(c, "value", None, TRUE, AllTokens)
    /\ UNCHANGED <<kind, pieces>>

\* Variant: the tokens are read after the JSON.
TokensOfProseLate == NoTokens

\* The tokens are read before the JSON is.
TokensOfProse == AllTokens

\* Text that is not JSON: the caller of call_grounding gets {}.
GroundingProse(c) ==
    /\ at[c] = "requested" /\ kind[c] = "grounding"
    /\ billed' = [billed EXCEPT ![c] = AllTokens]
    /\ Finish(c, "empty", None, FALSE, TokensOfProse)
    /\ UNCHANGED <<kind, pieces>>

\* Text that is not JSON: call_structured raises.
StructuredProse(c) ==
    /\ at[c] = "requested" /\ kind[c] = "structured"
    /\ billed' = [billed EXCEPT ![c] = AllTokens]
    /\ Finish(c, "exception", "json", FALSE, TokensOfProse)
    /\ UNCHANGED <<kind, pieces>>

\* _parse_response raises on the place of the text, or of a number, before the
\* function notes any token: what the response reports is lost to the event.
\* Gemini's response may have any shape.
Misshapen(c) ==
    /\ at[c] = "requested" /\ kind[c] # "stream"
    /\ \E reported \in Tokens : billed' = [billed EXCEPT ![c] = reported]
    /\ Finish(c, "exception", "other", TRUE, NoTokens)
    /\ UNCHANGED <<kind, pieces>>

\* The text is there and null: its strip raises, after the tokens are noted.
NullText(c) ==
    /\ at[c] = "requested" /\ kind[c] # "stream"
    /\ billed' = [billed EXCEPT ![c] = AllTokens]
    /\ Finish(c, "exception", "other", TRUE, AllTokens)
    /\ UNCHANGED <<kind, pieces>>

\* A status other than 2xx, a timeout or a broken connection, a body that is no
\* JSON or a line of a stream that is no object: nothing more is reported.
Fails(c) ==
    /\ at[c] \in {"requested", "streaming"}
    /\ \E error \in {"http", "other"} \cup IF kind[c] # "stream" THEN {"json"} ELSE {} :
         Finish(c, "exception", error, TRUE, usage[c])
    /\ UNCHANGED <<kind, billed, pieces>>

-----------------------------------------------------------------------------
\* call_main_stream.

\* Lines before the first piece: the status and message_start, if it comes.
StreamOpens(c) ==
    /\ at[c] = "requested" /\ kind[c] = "stream"
    /\ at' = [at EXCEPT ![c] = "streaming"]
    /\ \E input \in BOOLEAN :
         /\ billed' = [billed EXCEPT ![c].input = input]
         /\ usage' = [usage EXCEPT ![c].input = input]
    /\ UNCHANGED <<kind, pieces, given, events>>

\* A text_delta is yielded, and the consumer sends it.
Yield(c) ==
    /\ at[c] = "streaming"
    /\ pieces[c] < MaxPieces
    /\ pieces' = [pieces EXCEPT ![c] = @ + 1]
    /\ at' = [at EXCEPT ![c] = "yielded"]
    /\ UNCHANGED <<kind, billed, usage, given, events>>

\* The piece is sent, and the consumer asks for the next one.
Resume(c) ==
    /\ at[c] = "yielded"
    /\ at' = [at EXCEPT ![c] = "streaming"]
    /\ UNCHANGED <<kind, billed, usage, pieces, given, events>>

\* message_delta has the output tokens.
StreamReports(c) ==
    /\ at[c] = "streaming" /\ ~usage[c].output
    /\ billed' = [billed EXCEPT ![c].output = TRUE]
    /\ usage' = [usage EXCEPT ![c].output = TRUE]
    /\ UNCHANGED <<kind, at, pieces, given, events>>

\* The lines end, with or without message_delta: the usage is yielded.
StreamEnds(c) ==
    /\ at[c] = "streaming"
    /\ Finish(c, "value", None, TRUE, usage[c])
    /\ UNCHANGED <<kind, billed, pieces>>

-----------------------------------------------------------------------------
\* Cancellation.

ErrorOfCancellation == "cancelled"

\* The call is cancelled while it waits for the provider.
Cancel(c) ==
    /\ at[c] \in {"requested", "streaming"}
    /\ Finish(c, "cancellation", ErrorOfCancellation, TRUE, usage[c])
    /\ UNCHANGED <<kind, billed, pieces>>

\* The consumer is cancelled while it sends a piece: the generator stays where
\* it is.
Abandon(c) ==
    /\ at[c] = "yielded"
    /\ at' = [at EXCEPT ![c] = "abandoned"]
    /\ UNCHANGED <<kind, billed, usage, pieces, given, events>>

\* The event loop closes the generator: GeneratorExit meets no except clause.
Close(c) ==
    /\ at[c] = "abandoned"
    /\ Finish(c, "cancellation", None, TRUE, usage[c])
    /\ UNCHANGED <<kind, billed, pieces>>

Step(c) ==
    \/ Respond(c) \/ GroundingProse(c) \/ StructuredProse(c)
    \/ Misshapen(c) \/ NullText(c) \/ Fails(c)
    \/ StreamOpens(c) \/ Yield(c) \/ Resume(c) \/ StreamReports(c) \/ StreamEnds(c)
    \/ Close(c)

Next ==
    \E c \in Call : Request(c) \/ UnknownModel(c) \/ Step(c) \/ Cancel(c) \/ Abandon(c)

Spec == Init /\ [][Next]_vars

-----------------------------------------------------------------------------
\* Properties.

\* An event e of a call of kind k has the tokens t, but for a response that is
\* read at once and has another shape: its event has an error and no token.
Noted(e, k, t) ==
    e.usage = t \/ (k # "stream" /\ e.error = "other" /\ e.usage = NoTokens)

\* Every request leaves exactly one event, however it ends: an answer, an error,
\* a cancellation while it waits, or a generator nobody asks again.  The event
\* has the tokens the provider has reported, also when the text is not the JSON
\* asked for, or when the stream breaks after its first or its last report; only
\* a response that _parse_response cannot read loses them, all of them, and its
\* event says that it failed.
RecordedOnce ==
    \A c \in Call :
        IF at[c] = "over" /\ kind[c] # None
        THEN Len(events[c]) = 1 /\ Noted(events[c][1], kind[c], billed[c])
        ELSE events[c] = <<>>
=============================================================================
