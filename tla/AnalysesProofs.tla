---------------------------- MODULE AnalysesProofs ----------------------------
(***************************************************************************)
(* Proofs about LlmCalls and Analyses: every request of a provider leaves  *)
(* one event with its tokens, the answers of the analyses agree with the   *)
(* events, and the rules are of one mind about a missing file, for any     *)
(* number of calls.                                                        *)
(***************************************************************************)
EXTENDS Analyses, TLAPS

Position == {"new", "over"} \cup Pending

\* The functions are functions of the calls.
Shape ==
    /\ kind \in [Call -> Kinds \cup {None}]
    /\ at \in [Call -> Position]
    /\ billed \in [Call -> Tokens] /\ usage \in [Call -> Tokens]
    /\ events \in [Call -> Seq(Event)]
    /\ DOMAIN work = Call /\ DOMAIN answer = Call
    /\ work = [c \in Call |-> work[c]] /\ answer = [c \in Call |-> answer[c]]

\* A call that is not over has left nothing, and what is noted is what was billed.
Unrecorded(c) ==
    at[c] # "over" => events[c] = <<>> /\ answer[c] = None /\ usage[c] = billed[c]

\* A request is known by its kind, and only a request leaves its one event.
Recorded1(c) ==
    /\ at[c] = "new" => kind[c] = None /\ work[c] = None
    /\ at[c] \in Pending => kind[c] # None
    /\ at[c] = "over" =>
         IF kind[c] # None THEN Len(events[c]) = 1 /\ Noted(events[c][1], kind[c], billed[c])
         ELSE events[c] = <<>>

\* An analysis waits for the model only if it was to be asked.
Attempted(c) ==
    (work[c] # None /\ at[c] \in Pending) =>
        /\ work[c] \in Work /\ mode.key /\ mode.known
        /\ work[c].of = "commit" => Counted(work[c])

\* AnswersAttributed, of one call.
Attributed(c) ==
    answer[c] # None =>
        LET a == answer[c]
            commit == work[c].of = "commit"
            asked == IF commit THEN Counted(work[c]) ELSE a.mode # "fallback" /\ mode.key
        IN
        /\ ~commit => (a.model = "main" <=> a.mode = "llm")
        /\ events[c] # <<>> <=> asked /\ mode.known
        /\ a.model = "main" =>
             Len(events[c]) = 1 /\ events[c][1].error = None /\ events[c][1].parse_ok
        /\ \A k \in DOMAIN events[c] :
             events[c][k].error # None =>
                 a.model = "rules" /\ (~commit => a.mode = "llm_fallback")

\* MissingIsUrgent, of one call.
Urgent(c) ==
    (answer[c] # None /\ work[c].of = "document" /\ answer[c].model = "rules") =>
        /\ answer[c].summary = "not found" <=> answer[c].next = "check the path"
        /\ answer[c].summary = "not found" => answer[c].risk = "HIGH"

\* What an answer says.
Agreed(c) == Attributed(c) /\ Urgent(c)

CallInv(c) == Unrecorded(c) /\ Recorded1(c) /\ Attempted(c) /\ Agreed(c)

IInv == Shape /\ \A c \in Call : CallInv(c)

-----------------------------------------------------------------------------
\* What the rules and the model answer.

LEMMA RulesAnswer ==
    ASSUME NEW w \in Work, NEW preview, NEW name
    PROVE  /\ ByRules(w, preview, name).model = "rules"
           /\ w.of # "commit" => ByRules(w, preview, name).mode = name
<1>1. CASE w.of = "document"
  BY <1>1 DEF ByRules, DocumentByRules
<1>2. CASE w.of = "commit"
  BY <1>2 DEF ByRules, CommitByRules
<1>3. CASE w.of = "summary"
  BY <1>3 DEF ByRules, SummaryByRules
<1> QED
  BY <1>1, <1>2, <1>3 DEF Work

LEMMA ModelAnswer ==
    ASSUME NEW w \in Work, NEW summary, NEW words
    PROVE  /\ ByModel(w, summary, words).model = "main"
           /\ w.of # "commit" => ByModel(w, summary, words).mode = "llm"
<1>1. CASE w.of = "document"
  BY <1>1 DEF ByModel, DocumentByModel
<1>2. CASE w.of = "commit"
  BY <1>2 DEF ByModel, CommitByModel
<1>3. CASE w.of = "summary"
  BY <1>3 DEF ByModel, SummaryByModel
<1> QED
  BY <1>1, <1>2, <1>3 DEF Work

\* Of a document that is not found, the rules say so three times.
LEMMA RulesAreUrgent ==
    ASSUME NEW w \in Work, NEW preview, NEW name, w.of = "document"
    PROVE  LET a == ByRules(w, preview, name)
           IN  /\ a.summary = "not found" <=> a.next = "check the path"
               /\ a.summary = "not found" => a.risk = "HIGH"
<1> DEFINE risk == Risk(w.title, preview)
<1>1. w.title \in Level /\ w.task \in BOOLEAN
  BY DEF Work
<1>2. risk \in Level
  BY <1>1 DEF Risk, Worse, Level
<1>3. SaysMissing(preview) => risk = "HIGH"
  BY DEF Risk, SaysMissing, Level
<1>4. Summary(preview) = "not found" <=> SaysMissing(preview)
  BY DEF Summary, SaysMissing
<1>5. NextAction(w.task, preview, risk) = "check the path" <=> SaysMissing(preview)
  BY <1>1, <1>2 DEF NextAction, Level
<1> DEFINE a == ByRules(w, preview, name)
<1>6. a = [mode |-> name, model |-> "rules", summary |-> Summary(preview), risk |-> risk,
           next |-> NextAction(w.task, preview, risk)]
  BY DEF ByRules, DocumentByRules
<1>7. /\ a.summary = Summary(preview) /\ a.risk = risk
      /\ a.next = NextAction(w.task, preview, risk)
  <2> HIDE DEF a, risk
  <2> QED
    BY <1>6
<1> HIDE DEF a, risk
<1>8. /\ a.summary = "not found" <=> a.next = "check the path"
      /\ a.summary = "not found" => a.risk = "HIGH"
  BY <1>3, <1>4, <1>5, <1>7
<1> QED
  BY <1>8 DEF a

\* A step of one call leaves the others alone.
Elsewhere(c) ==
    \A d \in Call \ {c} :
        /\ kind'[d] = kind[d] /\ at'[d] = at[d]
        /\ billed'[d] = billed[d] /\ usage'[d] = usage[d]
        /\ events'[d] = events[d] /\ work'[d] = work[d] /\ answer'[d] = answer[d]

LEMMA OneCall ==
    ASSUME IInv, NEW c \in Call, Shape', mode' = mode, Elsewhere(c), CallInv(c)'
    PROVE  IInv'
<1>1. ASSUME NEW d \in Call \ {c} PROVE CallInv(d)'
  <2>1. CallInv(d)
    BY <1>1 DEF IInv
  <2>2. /\ kind'[d] = kind[d] /\ at'[d] = at[d] /\ billed'[d] = billed[d]
        /\ usage'[d] = usage[d] /\ events'[d] = events[d]
        /\ work'[d] = work[d] /\ answer'[d] = answer[d]
    BY <1>1 DEF Elsewhere
  <2>3. Unrecorded(d)' /\ Recorded1(d)' /\ Attempted(d)'
    BY <2>1, <2>2 DEF CallInv, Unrecorded, Recorded1, Attempted, Counted
  <2>4. Attributed(d)'
    BY <2>1, <2>2 DEF CallInv, Agreed, Attributed, Counted
  <2>5. Urgent(d)'
    BY <2>1, <2>2 DEF CallInv, Agreed, Urgent
  <2> QED
    BY <2>3, <2>4, <2>5 DEF CallInv, Agreed
<1> QED
  BY <1>1 DEF IInv

-----------------------------------------------------------------------------
\* The calls.

\* What a call of LlmCalls does to its own state, and to nothing else.
Moves(c) ==
    \/ /\ at[c] = "new" /\ at'[c] = "requested" /\ kind'[c] # None
       /\ billed'[c] = billed[c] /\ usage'[c] = usage[c] /\ events'[c] = events[c]
    \/ /\ at[c] = "new" /\ at'[c] = "over" /\ kind'[c] = kind[c]
       /\ billed'[c] = billed[c] /\ usage'[c] = usage[c] /\ events'[c] = events[c]
    \/ /\ at[c] \in Pending /\ at'[c] \in Pending /\ kind'[c] = kind[c]
       /\ (usage[c] = billed[c] => usage'[c] = billed'[c]) /\ events'[c] = events[c]
    \/ /\ at[c] \in Pending /\ at'[c] = "over" /\ kind'[c] = kind[c]
       /\ \E e \in Event, b \in Tokens :
            /\ events'[c] = Append(events[c], e) /\ b = billed'[c]
            /\ usage[c] = billed[c] => Noted(e, kind[c], b)

\* The variables of LlmCalls of the other calls.
Apart(c) ==
    \A d \in Call \ {c} :
        /\ kind'[d] = kind[d] /\ at'[d] = at[d]
        /\ billed'[d] = billed[d] /\ usage'[d] = usage[d] /\ events'[d] = events[d]

CallShape ==
    /\ kind \in [Call -> Kinds \cup {None}]
    /\ at \in [Call -> Position]
    /\ billed \in [Call -> Tokens] /\ usage \in [Call -> Tokens]
    /\ events \in [Call -> Seq(Event)]

LEMMA Asks ==
    ASSUME CallShape, NEW c \in Call, Request(c) \/ UnknownModel(c)
    PROVE  CallShape' /\ Apart(c) /\ Moves(c)
<1>1. CASE Request(c)
  BY <1>1, KindAssumption, NoneAssumption
     DEF CallShape, Apart, Moves, Request, Position, Pending
<1>2. CASE UnknownModel(c)
  BY <1>2 DEF CallShape, Apart, Moves, UnknownModel, Position, Pending
<1> QED
  BY <1>1, <1>2

\* The end of a call, for every outcome.
LEMMA Finishes ==
    ASSUME CallShape, NEW c \in Call, NEW gets, NEW error \in Error \cup {None},
           NEW parse_ok \in BOOLEAN, NEW tokens \in Tokens,
           Finish(c, gets, error, parse_ok, tokens),
           at[c] \in Pending, UNCHANGED kind, billed' \in [Call -> Tokens],
           \A d \in Call \ {c} : billed'[d] = billed[d],
           \/ usage[c] = billed[c] => tokens = billed'[c]
           \/ kind[c] # "stream" /\ error = "other" /\ tokens = NoTokens
    PROVE  /\ CallShape' /\ Apart(c) /\ Moves(c)
           /\ at'[c] = "over"
           /\ events'[c] = Append(events[c], [error |-> error, parse_ok |-> parse_ok,
                                              usage |-> tokens])
<1> DEFINE e == [error |-> error, parse_ok |-> parse_ok, usage |-> tokens]
<1>1. e \in Event /\ e.usage = tokens /\ e.error = error
  BY DEF Event
<1>2. events' = [events EXCEPT ![c] = Append(@, e)]
  BY DEF Finish, Recorded
<1>3. events' \in [Call -> Seq(Event)] /\ events'[c] = Append(events[c], e)
  BY <1>1, <1>2 DEF CallShape
<1>4. /\ at' = [at EXCEPT ![c] = "over"]
      /\ usage' = [usage EXCEPT ![c] = tokens]
  BY DEF Finish
<1>5. CallShape'
  BY <1>3, <1>4 DEF CallShape, Position
<1>6. Apart(c)
  BY <1>2, <1>4 DEF CallShape, Apart
<1>7. at'[c] = "over" /\ usage'[c] = tokens
  BY <1>4 DEF CallShape
<1> DEFINE b == billed'[c]
<1>8. b \in Tokens /\ (usage[c] = billed[c] => Noted(e, kind[c], b))
  BY <1>1 DEF Noted
<1>9. Moves(c)
  <2>1. b = billed'[c]
    OBVIOUS
  <2> HIDE DEF e, b
  <2> QED
    BY <1>1, <1>3, <1>7, <1>8, <2>1 DEF Moves
<1> QED
  BY <1>3, <1>5, <1>6, <1>7, <1>9

LEMMA Responds ==
    ASSUME CallShape, NEW c \in Call, Respond(c)
    PROVE  /\ CallShape' /\ Apart(c) /\ Moves(c) /\ at'[c] = "over"
           /\ events'[c] = Append(events[c], [error |-> None, parse_ok |-> TRUE,
                                              usage |-> AllTokens])
<1>1. at[c] \in Pending /\ AllTokens \in Tokens
  BY DEF Respond, Pending, AllTokens, Tokens
<1>2. /\ billed' \in [Call -> Tokens] /\ billed'[c] = AllTokens
      /\ \A d \in Call \ {c} : billed'[d] = billed[d]
  BY <1>1 DEF Respond, CallShape
<1>3. Finish(c, "value", None, TRUE, AllTokens) /\ UNCHANGED kind
  BY DEF Respond
<1>4. None \in Error \cup {None} /\ TRUE \in BOOLEAN
  OBVIOUS
<1>5. usage[c] = billed[c] => AllTokens = billed'[c]
  BY <1>2
<1>6. billed' \in [Call -> Tokens] /\ \A d \in Call \ {c} : billed'[d] = billed[d]
  BY <1>2
<1> QED
  BY <1>1, <1>3, <1>4, <1>5, <1>6, Finishes

\* The outcomes that leave an analysis to its rules.
LEMMA Disappoints ==
    ASSUME CallShape, NEW c \in Call,
           \/ StructuredProse(c) \/ GroundingProse(c) \/ Misshapen(c) \/ NullText(c)
           \/ Fails(c) \/ Cancel(c)
    PROVE  CallShape' /\ Apart(c) /\ Moves(c) /\ at'[c] = "over"
<1>1. CASE StructuredProse(c) \/ GroundingProse(c)
  <2>1. at[c] \in Pending /\ AllTokens \in Tokens /\ TokensOfProse = AllTokens
    BY <1>1 DEF StructuredProse, GroundingProse, Pending, AllTokens, TokensOfProse, Tokens
  <2>2. /\ billed' \in [Call -> Tokens] /\ billed'[c] = AllTokens
        /\ \A d \in Call \ {c} : billed'[d] = billed[d]
    BY <1>1, <2>1 DEF StructuredProse, GroundingProse, CallShape
  <2>3. UNCHANGED kind
    BY <1>1 DEF StructuredProse, GroundingProse
  <2>4. CASE Finish(c, "exception", "json", FALSE, TokensOfProse)
    <3>1. "json" \in Error \cup {None}
      BY DEF Error
    <3> QED
      BY <2>1, <2>2, <2>3, <2>4, <3>1, Finishes
  <2>5. CASE Finish(c, "empty", None, FALSE, TokensOfProse)
    BY <2>1, <2>2, <2>3, <2>5, Finishes
  <2> QED
    BY <1>1, <2>4, <2>5 DEF StructuredProse, GroundingProse
<1>2. CASE Fails(c) \/ Cancel(c)
  <2>1. /\ at[c] \in Pending /\ usage[c] \in Tokens /\ UNCHANGED <<kind, billed>>
        /\ billed \in [Call -> Tokens]
    BY <1>2 DEF Fails, Cancel, Pending, CallShape
  <2>2. CASE Fails(c)
    <3>1. PICK error \in {"http", "other", "json"} :
             Finish(c, "exception", error, TRUE, usage[c])
      BY <2>2 DEF Fails
    <3>2. error \in Error \cup {None}
      BY DEF Error
    <3> QED
      BY <2>1, <3>1, <3>2, Finishes
  <2>3. CASE Cancel(c)
    <3>1. Finish(c, "cancellation", "cancelled", TRUE, usage[c])
      BY <2>3 DEF Cancel, ErrorOfCancellation
    <3>2. "cancelled" \in Error \cup {None}
      BY DEF Error
    <3> QED
      BY <2>1, <3>1, <3>2, Finishes
  <2> QED
    BY <1>2, <2>2, <2>3
<1>3. CASE Misshapen(c)
  <2>1. PICK reported \in Tokens : billed' = [billed EXCEPT ![c] = reported]
    BY <1>3 DEF Misshapen
  <2>2. /\ at[c] \in Pending /\ kind[c] # "stream" /\ UNCHANGED kind
        /\ Finish(c, "exception", "other", TRUE, NoTokens)
    BY <1>3 DEF Misshapen, Pending
  <2>3. billed' \in [Call -> Tokens] /\ \A d \in Call \ {c} : billed'[d] = billed[d]
    BY <2>1 DEF CallShape
  <2>4. "other" \in Error \cup {None} /\ NoTokens \in Tokens
    BY DEF Error, NoTokens, Tokens
  <2> QED
    BY <2>2, <2>3, <2>4, Finishes
<1>4. CASE NullText(c)
  <2>1. /\ at[c] \in Pending /\ UNCHANGED kind
        /\ billed' = [billed EXCEPT ![c] = AllTokens]
        /\ Finish(c, "exception", "other", TRUE, AllTokens)
    BY <1>4 DEF NullText, Pending
  <2>2. "other" \in Error \cup {None} /\ AllTokens \in Tokens
    BY DEF Error, AllTokens, Tokens
  <2>3. /\ billed' \in [Call -> Tokens] /\ billed'[c] = AllTokens
        /\ \A d \in Call \ {c} : billed'[d] = billed[d]
    BY <2>1, <2>2 DEF CallShape
  <2> QED
    BY <2>1, <2>2, <2>3, Finishes
<1> QED
  BY <1>1, <1>2, <1>3, <1>4

LEMMA Streams ==
    ASSUME CallShape, NEW c \in Call,
           \/ StreamOpens(c) \/ Yield(c) \/ Resume(c) \/ StreamReports(c) \/ StreamEnds(c)
           \/ Close(c) \/ Abandon(c)
    PROVE  CallShape' /\ Apart(c) /\ Moves(c)
<1>1. CASE StreamOpens(c)
  <2>1. PICK input \in BOOLEAN :
           /\ billed' = [billed EXCEPT ![c].input = input]
           /\ usage' = [usage EXCEPT ![c].input = input]
    BY <1>1 DEF StreamOpens
  <2>2. /\ at[c] = "requested" /\ at' = [at EXCEPT ![c] = "streaming"]
        /\ UNCHANGED <<kind, events>>
    BY <1>1 DEF StreamOpens
  <2>3. /\ billed' \in [Call -> Tokens] /\ usage' \in [Call -> Tokens]
        /\ \A d \in Call \ {c} : billed'[d] = billed[d] /\ usage'[d] = usage[d]
    BY <2>1 DEF CallShape, Tokens
  <2>4. usage[c] = billed[c] => usage'[c] = billed'[c]
    BY <2>1 DEF CallShape, Tokens
  <2>5. at' \in [Call -> Position] /\ at'[c] = "streaming"
    BY <2>2 DEF CallShape, Position, Pending
  <2>6. \A d \in Call \ {c} : at'[d] = at[d]
    BY <2>2 DEF CallShape
  <2> QED
    BY <2>2, <2>3, <2>4, <2>5, <2>6 DEF CallShape, Apart, Moves, Pending
<1>2. CASE Yield(c) \/ Resume(c) \/ Abandon(c)
  BY <1>2 DEF Yield, Resume, Abandon, CallShape, Apart, Moves, Position, Pending
<1>3. CASE StreamReports(c)
  <2>1. /\ at[c] \in Pending /\ UNCHANGED <<kind, at, events>>
        /\ billed' = [billed EXCEPT ![c].output = TRUE]
        /\ usage' = [usage EXCEPT ![c].output = TRUE]
    BY <1>3 DEF StreamReports, Pending
  <2>2. /\ billed' \in [Call -> Tokens] /\ usage' \in [Call -> Tokens]
        /\ \A d \in Call \ {c} : billed'[d] = billed[d] /\ usage'[d] = usage[d]
    BY <2>1 DEF CallShape, Tokens
  <2>3. usage[c] = billed[c] => usage'[c] = billed'[c]
    BY <2>1 DEF CallShape, Tokens
  <2> QED
    BY <2>1, <2>2, <2>3 DEF CallShape, Apart, Moves
<1>4. CASE StreamEnds(c) \/ Close(c)
  <2>1. /\ at[c] \in Pending /\ usage[c] \in Tokens /\ UNCHANGED <<kind, billed>>
        /\ billed \in [Call -> Tokens]
    BY <1>4 DEF StreamEnds, Close, Pending, CallShape
  <2>2. CASE Finish(c, "value", None, TRUE, usage[c])
    BY <2>1, <2>2, Finishes
  <2>3. CASE Finish(c, "cancellation", None, TRUE, usage[c])
    BY <2>1, <2>3, Finishes
  <2> QED
    BY <1>4, <2>2, <2>3 DEF StreamEnds, Close
<1> QED
  BY <1>1, <1>2, <1>3, <1>4

\* Where a call is after it has moved, and what it has left.
LEMMA Moved ==
    ASSUME IInv, NEW c \in Call, CallShape', Moves(c)
    PROVE  /\ at[c] # "over" /\ answer[c] = None /\ events[c] = <<>>
           /\ at'[c] # "new"
           /\ at'[c] # "over" => events'[c] = <<>> /\ usage'[c] = billed'[c]
           /\ at'[c] \in Pending => kind'[c] # None
           /\ at'[c] = "over" =>
                IF kind'[c] # None
                THEN Len(events'[c]) = 1 /\ Noted(events'[c][1], kind'[c], billed'[c])
                ELSE events'[c] = <<>>
<1>1. CallInv(c)
  BY DEF IInv
<1>2. at[c] # "over" /\ answer[c] = None /\ events[c] = <<>> /\ usage[c] = billed[c]
  BY <1>1 DEF Moves, Pending, CallInv, Unrecorded
<1>3. CASE at[c] = "new" /\ at'[c] = "requested" /\ kind'[c] # None
           /\ billed'[c] = billed[c] /\ usage'[c] = usage[c] /\ events'[c] = events[c]
  BY <1>2, <1>3 DEF Pending
<1>4. CASE at[c] = "new" /\ at'[c] = "over" /\ kind'[c] = kind[c]
           /\ billed'[c] = billed[c] /\ usage'[c] = usage[c] /\ events'[c] = events[c]
  BY <1>1, <1>2, <1>4 DEF CallInv, Recorded1, Pending
<1>5. CASE at[c] \in Pending /\ at'[c] \in Pending /\ kind'[c] = kind[c]
           /\ (usage[c] = billed[c] => usage'[c] = billed'[c]) /\ events'[c] = events[c]
  BY <1>1, <1>2, <1>5 DEF CallInv, Recorded1, Pending
<1>6. CASE /\ at[c] \in Pending /\ at'[c] = "over" /\ kind'[c] = kind[c]
           /\ \E e \in Event, b \in Tokens :
                /\ events'[c] = Append(events[c], e) /\ b = billed'[c]
                /\ usage[c] = billed[c] => Noted(e, kind[c], b)
  <2>1. PICK e \in Event, b \in Tokens :
           /\ events'[c] = Append(events[c], e) /\ b = billed'[c]
           /\ usage[c] = billed[c] => Noted(e, kind[c], b)
    BY <1>6
  <2>2. events'[c] = <<e>>
    BY <1>2, <2>1
  <2>3. kind'[c] # None
    BY <1>1, <1>6 DEF CallInv, Recorded1
  <2> QED
    BY <1>2, <1>6, <2>1, <2>2, <2>3 DEF Pending
<1> QED
  BY <1>3, <1>4, <1>5, <1>6 DEF Moves

-----------------------------------------------------------------------------
\* The analyses.

\* An answer by the rules agrees with the event, if there is one.
LEMMA RulesAgree ==
    ASSUME NEW c \in Call, NEW w \in Work, NEW preview,
           NEW name \in {"fallback", FallbackMode},
           answer'[c] = ByRules(w, preview, name), work'[c] = w,
           events'[c] # <<>> <=>
               /\ IF w.of = "commit" THEN Counted(w)' ELSE name # "fallback" /\ mode'.key
               /\ mode'.known
    PROVE  Agreed(c)'
<1> DEFINE a == ByRules(w, preview, name)
<1>1. a.model = "rules" /\ (w.of # "commit" => a.mode = name)
  BY RulesAnswer
<1>2. name \in {"fallback", "llm_fallback"}
  BY DEF FallbackMode
<1>3. events'[c] = <<>> => DOMAIN events'[c] = {}
  OBVIOUS
<1>4. \A k \in DOMAIN events'[c] : w.of # "commit" => a.mode = "llm_fallback"
  BY <1>1, <1>2, <1>3
<1>5. events'[c] # <<>> <=>
          /\ IF w.of = "commit" THEN Counted(w)' ELSE a.mode # "fallback" /\ mode'.key
          /\ mode'.known
  BY <1>1
<1>6. w.of = "document" => /\ a.summary = "not found" <=> a.next = "check the path"
                           /\ a.summary = "not found" => a.risk = "HIGH"
  BY RulesAreUrgent
<1> HIDE DEF a
<1>7. Attributed(c)'
  BY <1>1, <1>2, <1>4, <1>5 DEF Attributed, a
<1>8. Urgent(c)'
  BY <1>6 DEF Urgent, a
<1> QED
  BY <1>7, <1>8 DEF Agreed

\* So does an answer of the model.
LEMMA ModelAgrees ==
    ASSUME NEW c \in Call, NEW w \in Work, NEW summary, NEW words,
           answer'[c] = ByModel(w, summary, words), work'[c] = w,
           w.of = "commit" => Counted(w)', mode'.key, mode'.known,
           Len(events'[c]) = 1, DOMAIN events'[c] = {1},
           events'[c][1].error = None, events'[c][1].parse_ok
    PROVE  Agreed(c)'
<1>1. answer'[c].model = "main" /\ (w.of # "commit" => answer'[c].mode = "llm")
  BY ModelAnswer
<1>2. events'[c] # <<>>
  OBVIOUS
<1> QED
  BY <1>1, <1>2 DEF Agreed, Attributed, Urgent

\* A step of one call's own, with its answer.
LEMMA CallStep ==
    ASSUME IInv, NEW c \in Call, CallShape', Apart(c), Moves(c), mode' = mode,
           NEW w, NEW a,
           work' = [work EXCEPT ![c] = w], answer' = [answer EXCEPT ![c] = a],
           at'[c] # "over" => a = None,
           at'[c] \in Pending /\ w # None =>
               w \in Work /\ mode.key /\ mode.known /\ (w.of = "commit" => Counted(w)),
           Agreed(c)'
    PROVE  IInv'
<1>1. DOMAIN work = Call /\ DOMAIN answer = Call
  BY DEF IInv, Shape
<1>2. /\ work'[c] = w /\ answer'[c] = a /\ DOMAIN work' = Call /\ DOMAIN answer' = Call
      /\ \A d \in Call \ {c} : work'[d] = work[d] /\ answer'[d] = answer[d]
  BY <1>1
<1>3. work' = [d \in Call |-> work'[d]] /\ answer' = [d \in Call |-> answer'[d]]
  BY <1>1
<1>4. Shape'
  BY <1>2, <1>3 DEF Shape, CallShape
<1>5. Elsewhere(c)
  BY <1>2 DEF Elsewhere, Apart
<1>6. Unrecorded(c)' /\ Recorded1(c)'
  BY <1>2, Moved DEF Unrecorded, Recorded1
<1>7. Attempted(c)'
  BY <1>2 DEF Attempted, Counted
<1> QED
  BY <1>4, <1>5, <1>6, <1>7, OneCall DEF CallInv

LEMMA OtherCallStep ==
    ASSUME IInv, NEW c \in Call, OtherCall(c)
    PROVE  IInv'
<1>1. CallShape
  BY DEF IInv, Shape, CallShape
<1>2. CallShape' /\ Apart(c) /\ Moves(c)
  <2>1. CASE Request(c) \/ UnknownModel(c)
    BY <1>1, <2>1, Asks
  <2>2. CASE Respond(c)
    BY <1>1, <2>2, Responds
  <2>3. CASE \/ GroundingProse(c) \/ StructuredProse(c) \/ Misshapen(c) \/ NullText(c)
             \/ Fails(c) \/ Cancel(c)
    BY <1>1, <2>3, Disappoints
  <2>4. CASE \/ StreamOpens(c) \/ Yield(c) \/ Resume(c) \/ StreamReports(c)
             \/ StreamEnds(c) \/ Close(c) \/ Abandon(c)
    BY <1>1, <2>4, Streams
  <2> QED
    BY <2>1, <2>2, <2>3, <2>4 DEF OtherCall, Step
<1>3. work[c] = None /\ UNCHANGED <<mode, work, answer>>
  BY DEF OtherCall, aVars
<1>4. answer[c] = None
  BY <1>2, Moved
<1>5. work' = [work EXCEPT ![c] = None] /\ answer' = [answer EXCEPT ![c] = None]
  BY <1>3, <1>4 DEF IInv, Shape
<1>6. Agreed(c)'
  BY <1>3, <1>4 DEF Agreed, Attributed, Urgent
<1> QED
  BY <1>2, <1>3, <1>5, <1>6, CallStep

\* An analysis that makes no call.
LEMMA Uncalled ==
    ASSUME CallShape, NEW c \in Call, at[c] = "new", at' = [at EXCEPT ![c] = "over"],
           UNCHANGED <<kind, billed, usage, events>>
    PROVE  CallShape' /\ Apart(c) /\ Moves(c) /\ at'[c] = "over" /\ events'[c] = events[c]
BY DEF CallShape, Apart, Moves, Position

LEMMA AnalyzeStep ==
    ASSUME IInv, NEW c \in Call, Analyze(c)
    PROVE  IInv'
<1>1. PICK w \in Work :
         /\ work' = [work EXCEPT ![c] = w]
         /\ WithoutModel(c, w) \/ WithoutKey(c, w) \/ Attempts(c, w)
  BY DEF Analyze
<1>2. at[c] = "new" /\ mode' = mode /\ CallShape
  BY DEF Analyze, IInv, Shape, CallShape
<1>3. /\ events[c] = <<>> /\ answer[c] = None /\ work'[c] = w
      /\ DOMAIN answer = Call /\ answer = [d \in Call |-> answer[d]]
  BY <1>1, <1>2 DEF IInv, Shape, CallInv, Unrecorded
<1>4. Counted(w)' = Counted(w)
  BY <1>2 DEF Counted
<1>5. CASE WithoutModel(c, w)
  <2>1. PICK preview : answer' = [answer EXCEPT ![c] = ByRules(w, preview, "fallback")]
    BY <1>5 DEF WithoutModel
  <2>2. CallShape' /\ Apart(c) /\ Moves(c) /\ at'[c] = "over" /\ events'[c] = <<>>
    BY <1>2, <1>3, <1>5, Uncalled DEF WithoutModel
  <2>3. answer'[c] = ByRules(w, preview, "fallback")
    BY <1>3, <2>1
  <2>4. w.of = "commit" => ~Counted(w)'
    BY <1>4, <1>5 DEF WithoutModel, Counted
  <2>5. Agreed(c)'
    BY <1>3, <2>2, <2>3, <2>4, RulesAgree
  <2>6. at'[c] \notin Pending
    BY <2>2 DEF Pending
  <2> QED
    BY <1>1, <1>2, <2>1, <2>2, <2>5, <2>6, CallStep
<1>6. CASE WithoutKey(c, w)
  <2>1. PICK preview : answer' = [answer EXCEPT ![c] = ByRules(w, preview, FallbackMode)]
    BY <1>6 DEF WithoutKey, FallsBack
  <2>2. CallShape' /\ Apart(c) /\ Moves(c) /\ at'[c] = "over" /\ events'[c] = <<>>
    BY <1>2, <1>3, <1>6, Uncalled DEF WithoutKey
  <2>3. answer'[c] = ByRules(w, preview, FallbackMode)
    BY <1>3, <2>1
  <2>4. w.of # "commit" /\ ~mode'.key
    BY <1>2, <1>6 DEF WithoutKey
  <2>5. Agreed(c)'
    BY <1>3, <2>2, <2>3, <2>4, RulesAgree
  <2>6. at'[c] \notin Pending
    BY <2>2 DEF Pending
  <2> QED
    BY <1>1, <1>2, <2>1, <2>2, <2>5, <2>6, CallStep
<1>7. CASE Attempts(c, w)
  <2>1. mode.key /\ (w.of = "commit" => Counted(w))
    BY <1>7 DEF Attempts
  <2>2. CallShape' /\ Apart(c) /\ Moves(c)
    BY <1>2, <1>7, Asks DEF Attempts
  <2>3. CASE mode.known /\ Request(c) /\ UNCHANGED answer
    <3>1. answer' = [answer EXCEPT ![c] = None] /\ answer'[c] = None
      BY <1>3, <2>3
    <3>2. Agreed(c)'
      BY <3>1 DEF Agreed, Attributed, Urgent
    <3> QED
      BY <1>1, <1>2, <2>1, <2>2, <2>3, <3>1, <3>2, CallStep
  <2>4. CASE ~mode.known /\ UnknownModel(c) /\ FallsBack(c, w)
    <3>1. PICK preview : answer' = [answer EXCEPT ![c] = ByRules(w, preview, FallbackMode)]
      BY <2>4 DEF FallsBack
    <3>2. at'[c] = "over" /\ events'[c] = <<>> /\ ~mode'.known
      BY <1>2, <1>3, <2>4 DEF UnknownModel, CallShape
    <3>3. answer'[c] = ByRules(w, preview, FallbackMode)
      BY <1>3, <3>1
    <3>4. Agreed(c)'
      BY <1>3, <3>2, <3>3, RulesAgree
    <3>5. at'[c] \notin Pending
      BY <3>2 DEF Pending
    <3> QED
      BY <1>1, <1>2, <2>2, <3>1, <3>2, <3>4, <3>5, CallStep
  <2> QED
    BY <1>7, <2>3, <2>4 DEF Attempts
<1> QED
  BY <1>1, <1>5, <1>6, <1>7

LEMMA CallEndsStep ==
    ASSUME IInv, NEW c \in Call, CallEnds(c)
    PROVE  IInv'
<1> DEFINE w == work[c]
<1>1. at[c] = "requested" /\ w # None /\ UNCHANGED <<mode, work>> /\ CallShape
  BY DEF CallEnds, IInv, Shape, CallShape
<1>2. CallInv(c) /\ at[c] \in Pending
  BY <1>1 DEF IInv, Pending
<1>3. w \in Work /\ mode.key /\ mode.known /\ (w.of = "commit" => Counted(w))
  BY <1>1, <1>2 DEF CallInv, Attempted
<1>4. /\ events[c] = <<>> /\ answer[c] = None
      /\ DOMAIN answer = Call /\ answer = [d \in Call |-> answer[d]]
      /\ work' = [work EXCEPT ![c] = w] /\ work'[c] = w
  BY <1>1, <1>2 DEF IInv, Shape, CallInv, Unrecorded
<1>5. Counted(w)' = Counted(w)
  BY <1>1 DEF Counted
<1>6. /\ CallShape' /\ Apart(c) /\ Moves(c) /\ at'[c] = "over"
      /\ Respond(c) => events'[c] = Append(events[c], [error |-> None, parse_ok |-> TRUE,
                                                       usage |-> AllTokens])
  BY <1>1, Responds, Disappoints DEF CallEnds
<1>7. ASSUME NEW a, answer' = [answer EXCEPT ![c] = a], Agreed(c)'
      PROVE  IInv'
  <2>1. at'[c] \notin Pending
    BY <1>6 DEF Pending
  <2> QED
    BY <1>1, <1>4, <1>6, <1>7, <2>1, CallStep
<1>8. CASE FallsBack(c, w)
  <2>1. PICK preview : answer' = [answer EXCEPT ![c] = ByRules(w, preview, FallbackMode)]
    BY <1>8 DEF FallsBack
  <2>2. answer'[c] = ByRules(w, preview, FallbackMode)
    BY <1>4, <2>1
  <2>3. FallbackMode # "fallback"
    BY DEF FallbackMode
  <2>4. mode'.key /\ mode'.known /\ (w.of = "commit" => Counted(w)')
    BY <1>1, <1>3, <1>5
  <2>5. events'[c] # <<>>
    BY <1>1, <1>2, <1>6, Moved DEF CallInv, Recorded1, Moves, Pending
  <2>6. Agreed(c)'
    BY <1>3, <1>4, <2>2, <2>3, <2>4, <2>5, RulesAgree
  <2> QED
    BY <1>7, <2>1, <2>6
<1>9. ASSUME Respond(c), NEW summary, NEW words,
             answer' = [answer EXCEPT ![c] = ByModel(w, summary, words)]
      PROVE  IInv'
  <2>1. answer'[c] = ByModel(w, summary, words)
    BY <1>4, <1>9
  <2>2. events'[c] = <<[error |-> None, parse_ok |-> TRUE, usage |-> AllTokens]>>
    BY <1>4, <1>6, <1>9
  <2>3. /\ Len(events'[c]) = 1 /\ DOMAIN events'[c] = {1}
        /\ events'[c][1].error = None /\ events'[c][1].parse_ok
    BY <2>2
  <2>4. mode'.key /\ mode'.known /\ (w.of = "commit" => Counted(w)')
    BY <1>1, <1>3, <1>5
  <2>5. Agreed(c)'
    BY <1>3, <1>4, <2>1, <2>3, <2>4, ModelAgrees
  <2> QED
    BY <1>7, <1>9, <2>5
<1>10. CASE UNCHANGED answer
  <2>1. answer' = [answer EXCEPT ![c] = None] /\ answer'[c] = None
    BY <1>4, <1>10
  <2>2. Agreed(c)'
    BY <2>1 DEF Agreed, Attributed, Urgent
  <2> QED
    BY <1>7, <2>1, <2>2
<1> QED
  BY <1>8, <1>9, <1>10 DEF CallEnds, Useful

-----------------------------------------------------------------------------
\* The theorems.

LEMMA Starts == AnalysesInit => IInv
<1> SUFFICES ASSUME AnalysesInit PROVE IInv
  OBVIOUS
<1>1. CallShape /\ Shape
  BY DEF AnalysesInit, Init, CallShape, Shape, Position, Tokens, NoTokens
<1>2. ASSUME NEW c \in Call PROVE CallInv(c)
  <2>1. /\ at[c] = "new" /\ kind[c] = None /\ work[c] = None /\ answer[c] = None
        /\ events[c] = <<>> /\ usage[c] = billed[c]
    BY DEF AnalysesInit, Init
  <2> QED
    BY <2>1 DEF CallInv, Unrecorded, Recorded1, Attempted, Agreed, Attributed, Urgent,
       Pending
<1> QED
  BY <1>1, <1>2 DEF IInv

LEMMA Keeps == IInv /\ [AnalysesNext]_<<vars, aVars>> => IInv'
<1> SUFFICES ASSUME IInv, [AnalysesNext]_<<vars, aVars>> PROVE IInv'
  OBVIOUS
<1>1. ASSUME NEW c \in Call, Analyze(c) PROVE IInv'
  BY <1>1, AnalyzeStep
<1>2. ASSUME NEW c \in Call, CallEnds(c) PROVE IInv'
  BY <1>2, CallEndsStep
<1>3. ASSUME NEW c \in Call, OtherCall(c) PROVE IInv'
  BY <1>3, OtherCallStep
<1>4. CASE UNCHANGED <<kind, at, billed, usage, events, mode, work, answer>>
  BY ZenonT(40), <1>4 DEF IInv, Shape, CallInv, Unrecorded, Recorded1, Attempted, Agreed, Attributed,
     Urgent, Counted
<1>5. CASE FileChanges \/ UNCHANGED <<vars, aVars>>
  BY <1>4, <1>5 DEF FileChanges, vars, aVars
<1> QED
  BY <1>1, <1>2, <1>3, <1>5 DEF AnalysesNext

LEMMA Invariant == AnalysesSpec => []IInv
BY Starts, Keeps, PTL DEF AnalysesSpec

\* Every request leaves exactly one event with the tokens the provider has
\* reported (the finally of each function of provider.py), for any number of
\* calls at once and streams of any length.
THEOREM EveryRequestRecorded == AnalysesSpec => []RecordedOnce
<1>1. IInv => RecordedOnce
  <2> SUFFICES ASSUME IInv, NEW c \in Call
               PROVE  IF at[c] = "over" /\ kind[c] # None
                      THEN Len(events[c]) = 1 /\ Noted(events[c][1], kind[c], billed[c])
                      ELSE events[c] = <<>>
    BY DEF RecordedOnce
  <2>1. CallInv(c)
    BY DEF IInv
  <2> QED
    BY <2>1 DEF CallInv, Unrecorded, Recorded1
<1> QED
  BY <1>1, Invariant, PTL

\* The answers of the analyses (mode, model) and the events in llm_calls.jsonl
\* tell the same story, for any number of analyses and other calls, whatever
\* happens to the file meanwhile.
THEOREM AnswersAgree == AnalysesSpec => []AnswersAttributed
<1>1. IInv => AnswersAttributed
  BY DEF IInv, CallInv, Agreed, Attributed, AnswersAttributed
<1> QED
  BY <1>1, Invariant, PTL

\* The rules never tell of a missing file without urgency, nor ask for a path
\* they have read (document_analysis.py), however often the backend changes the
\* file, and for any number of analyses.
THEOREM MissingAlwaysUrgent == AnalysesSpec => []MissingIsUrgent
<1>1. IInv => MissingIsUrgent
  BY DEF IInv, CallInv, Agreed, Urgent, MissingIsUrgent
<1> QED
  BY <1>1, Invariant, PTL

=============================================================================
