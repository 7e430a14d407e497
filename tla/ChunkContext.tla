---------------------------- MODULE ChunkContext ----------------------------
(***************************************************************************)
(* generate_chunk_contexts (core/rag/chunk_context.py): one task for each  *)
(* chunk that has no context to reuse, a semaphore around the calls, and   *)
(* retries after a 429.  A task keeps its slot while it backs off.         *)
(***************************************************************************)
EXTENDS Integers, FiniteSets

CONSTANTS
    Count,        \* chunks of the document, 1..Count
    Concurrency,  \* chunk_context_concurrency
    MaxRetries    \* chunk_context_max_retries

ASSUME CountAssumption == Count \in Nat
ASSUME LimitAssumption == Concurrency \in Nat \ {0} /\ MaxRetries \in Nat

Chunk == 1..Count

VARIABLES
    enabled,   \* chunk_context_enabled
    known,     \* the chunks whose content the reuse map has a context for
    pc,        \* the caller: "new", "gathering", "returned" or "cancelled"
    task,      \* what each chunk's task is at
    free,      \* what the semaphore has left
    attempt,   \* attempt of each task
    llmCalls,  \* stats["llm_calls"]
    retried,   \* stats["retried"]
    result     \* contexts (the chunks that have one), failed and reused

input == <<enabled, known>>
vars == <<enabled, known, pc, task, free, attempt, llmCalls, retried, result>>

NoResult == [contexts |-> {}, failed |-> 0, reused |-> 0]
Finished == {"none", "context", "blank", "raised", "cancelled"}

TypeOK ==
    /\ enabled \in BOOLEAN /\ known \subseteq Chunk
    /\ pc \in {"new", "gathering", "returned", "cancelled"}
    /\ task \in [Chunk -> {"queued", "calling", "backing_off"} \cup Finished]
    /\ free \in 0..Concurrency
    /\ attempt \in [Chunk -> 0..MaxRetries]
    /\ llmCalls \in Nat /\ retried \in Nat
    /\ result \in [contexts : SUBSET Chunk, failed : Nat, reused : Nat]

Init ==
    /\ enabled \in BOOLEAN /\ known \in SUBSET Chunk
    /\ pc = "new"
    /\ task = [c \in Chunk |-> "none"]
    /\ free = Concurrency
    /\ attempt = [c \in Chunk |-> 0]
    /\ llmCalls = 0 /\ retried = 0
    /\ result = NoResult

-----------------------------------------------------------------------------
\* The caller.

\* The chunks that are not in the reuse map.
Asked == Chunk \ known

\* Disabled, or nothing to do: no context, no call.
ReturnNone ==
    /\ pc = "new"
    /\ ~enabled \/ Count = 0
    /\ pc' = "returned"
    /\ UNCHANGED <<input, task, free, attempt, llmCalls, retried, result>>

\* One task for each chunk, which run once the caller awaits gather.
Begin ==
    /\ pc = "new"
    /\ enabled /\ Count > 0
    /\ pc' = "gathering"
    /\ task' = [c \in Chunk |-> IF c \in Asked THEN "queued" ELSE "none"]
    /\ UNCHANGED <<input, free, attempt, llmCalls, retried, result>>

\* Tasks that raised or returned nothing.
Failed == {c \in Chunk : task[c] \in {"raised", "blank"}}

\* gather returns when every task is done.
Return ==
    /\ pc = "gathering"
    /\ \A c \in Chunk : task[c] \in Finished
    /\ pc' = "returned"
    /\ result' = [contexts |-> known \cup {c \in Chunk : task[c] = "context"},
                  failed |-> Cardinality(Failed),
                  reused |-> Cardinality(known)]
    /\ UNCHANGED <<input, task, free, attempt, llmCalls, retried>>

\* The indexing run is cancelled, and gather cancels the tasks with it.
Cancel ==
    /\ pc = "gathering"
    /\ pc' = "cancelled"
    /\ task' = [c \in Chunk |-> IF task[c] \in Finished THEN task[c] ELSE "cancelled"]
    /\ free' = Concurrency
    /\ UNCHANGED <<input, attempt, llmCalls, retried, result>>

-----------------------------------------------------------------------------
\* _one, the task of chunk c.

At(c, where) == task' = [task EXCEPT ![c] = where]

\* The semaphore is first come, first served; the tasks arrive in chunk order and
\* never queue up again.
MayEnter(c) ==
    /\ task[c] = "queued"
    /\ \A d \in Chunk : d < c => task[d] # "queued"
    /\ free > 0

\* The first waiting task gets a slot and calls the model.
Call(c) ==
    /\ MayEnter(c)
    /\ free' = free - 1
    /\ At(c, "calling")
    /\ llmCalls' = llmCalls + 1
    /\ UNCHANGED <<input, pc, attempt, retried, result>>

\* Variant: a slot is given back by tasks with an answer only.
EndKeepingSlot(c, how) ==
    /\ At(c, how)
    /\ free' = IF how = "raised" THEN free ELSE free + 1

\* The task ends and leaves the semaphore.
End(c, how) ==
    /\ At(c, how)
    /\ free' = free + 1

\* The model answers; nothing but blanks counts as no context.
Answer(c) ==
    /\ task[c] = "calling"
    /\ \E how \in {"context", "blank"} : End(c, how)
    /\ UNCHANGED <<input, pc, attempt, llmCalls, retried, result>>

MayRetry(c) == attempt[c] < MaxRetries

\* Variant: the slot is given up for the time of the back-off and not taken again.
BackOffReleasing(c) ==
    /\ task[c] = "calling"
    /\ MayRetry(c)
    /\ At(c, "backing_off")
    /\ free' = IF free < Concurrency THEN free + 1 ELSE free
    /\ attempt' = [attempt EXCEPT ![c] = @ + 1]
    /\ retried' = retried + 1
    /\ UNCHANGED <<input, pc, llmCalls, result>>

\* A 429 with a retry left.
BackOff(c) ==
    /\ task[c] = "calling"
    /\ MayRetry(c)
    /\ At(c, "backing_off")
    /\ attempt' = [attempt EXCEPT ![c] = @ + 1]
    /\ retried' = retried + 1
    /\ UNCHANGED <<input, pc, free, llmCalls, result>>

\* The back-off is over.
CallAgain(c) ==
    /\ task[c] = "backing_off"
    /\ At(c, "calling")
    /\ llmCalls' = llmCalls + 1
    /\ UNCHANGED <<input, pc, free, attempt, retried, result>>

\* A 429 without a retry left, another status, a timeout, an error.
Raise(c) ==
    /\ task[c] = "calling"
    /\ End(c, "raised")
    /\ UNCHANGED <<input, pc, attempt, llmCalls, retried, result>>

Step(c) == Call(c) \/ Answer(c) \/ BackOff(c) \/ CallAgain(c) \/ Raise(c)

Caller == ReturnNone \/ Begin \/ Return

Next == Caller \/ Cancel \/ \E c \in Chunk : Step(c)

Spec == Init /\ [][Next]_vars

\* The event loop resumes the caller and each task; each call returns, raises or
\* times out after CALL_TIMEOUT_SECONDS.
FairSpec == Spec /\ WF_vars(Caller) /\ \A c \in Chunk : WF_vars(Step(c))

-----------------------------------------------------------------------------
\* Properties.

Calling == {c \in Chunk : task[c] = "calling"}

\* Never more calls under way than chunk_context_concurrency, through failures,
\* back-offs and cancellation.
WithinConcurrency == Cardinality(Calling) <= Concurrency

\* context_llm_calls counts every call that was made: one for each chunk asked
\* about, and one more for each retry.
CallsAccounted ==
    pc = "returned" /\ enabled =>
        llmCalls = (Count - result.reused) + retried

\* The caller gets its answer, whatever the calls do: no slot is lost.
ContextsEnd == pc = "new" ~> pc \in {"returned", "cancelled"}
=============================================================================
