------------------------------ MODULE Requests ------------------------------
(***************************************************************************)
(* The requests of one process between its event loop, its worker threads  *)
(* and its pool of database connections (db/session.py): a session takes a *)
(* connection at its first statement, on the event loop, which stands      *)
(* still while the pool has none, and gives it back at a commit, a         *)
(* rollback or its close.  get_db is a plain generator: it is left in a    *)
(* worker thread, before the response is sent or after the background task *)
(* has ended, as the version of FastAPI has it.  Exports take workers too. *)
(***************************************************************************)
EXTENDS TrainingExport

CONSTANTS
    MaxRequests, \* requests, numbered as they come
    Kinds,       \* subset of {"document", "git", "answer", "chat", "usage"}
    MaxPool,     \* bound of the connections: pool_size and max_overflow
    Workers,     \* worker threads
    MaxCommits,  \* commits of a git request
    None

ASSUME PoolAssumption == MaxPool \in Nat \ {0} /\ Workers \in Nat \ {0}
ASSUME RequestsAssumption == MaxRequests \in Nat /\ None \notin 1..MaxRequests

Request == 1..MaxRequests

VARIABLES
    late,      \* get_db is left after the response and its background task
    contexts,  \* chunk_context_enabled
    pool,      \* the connections there are
    at,        \* where it is
    left,      \* commits a git request has yet to index
    held,      \* sessions with a connection: <<request, "own">> is get_db's,
               \* <<request, "run">> the one a background task opens
    waiting    \* the request whose statement holds up the event loop

rVars == <<late, contexts, pool, at, left, held, waiting>>

\* Requests that have come and not ended.
InProgress == {r \in Request : at[r] \notin {"new", "over"}}

Own(r) == <<r, "own">>
Run(r) == <<r, "run">>
Free == pool - Cardinality(held)
LoopRuns == waiting = None
WorkerFree == Cardinality(open) < Workers

RequestsInit ==
    /\ ExportInit
    /\ late \in BOOLEAN /\ contexts \in BOOLEAN /\ pool \in 1..MaxPool
    /\ at = [r \in Request |-> "new"]
    /\ left = [r \in Request |-> 0]
    /\ held = {}
    /\ waiting = None

-----------------------------------------------------------------------------
\* Statements.

\* Variant: only a session without an error gives its connection back.
GivenBackByGoodOnly(h, s, good) == IF good THEN h \ {s} ELSE h

\* commit, rollback and close give the connection back.
GivenBack(h, s, good) == h \ {s}

To(r, stage) == at' = [at EXCEPT ![r] = stage]

Stays == UNCHANGED <<late, contexts, pool>> /\ UNCHANGED eVars

\* Chunks are loaded for their contexts, or embedded at once.
Background == IF contexts THEN "loading" ELSE "embedding"

\* Where a request goes when its session has come from get_db, and it is done.
Leaves == IF late THEN "leaving" ELSE "over"

\* Each stage whose next step is a stretch of code that begins with a
\* statement: the session, the stage after it, and whether the stretch ends
\* with a commit.  The row of a document is committed and read again, which
\* takes a connection again.
Stretch(r) ==
    CASE at[r] = "looking up" ->
              [on |-> Own(r), next |-> IF late THEN Background ELSE "leaving to run",
               commits |-> FALSE]
      [] at[r] = "counting" -> [on |-> Own(r), next |-> "leaving", commits |-> FALSE]
      [] at[r] = "searching" -> [on |-> Own(r), next |-> "generating", commits |-> FALSE]
      [] at[r] = "loading" -> [on |-> Run(r), next |-> "contextualising", commits |-> FALSE]
      [] at[r] \in {"storing", "marking"} ->
              [on |-> Run(r), next |-> Leaves, commits |-> TRUE]
      [] at[r] = "committing" -> [on |-> Run(r), next |-> "indexing", commits |-> FALSE]
      [] at[r] = "saving" -> [on |-> Run(r), next |-> "over", commits |-> TRUE]
      [] OTHER -> [on |-> None, next |-> None, commits |-> FALSE]

\* The stretch runs to its end on a connection it has or takes.
Runs(r) ==
    LET s == Stretch(r) IN
    /\ s.on \in held \/ Free > 0
    /\ To(r, s.next)
    /\ held' = IF s.commits THEN GivenBack(held, s.on, TRUE) ELSE held \cup {s.on}
    /\ waiting' = None
    /\ UNCHANGED left /\ Stays

\* The pool is empty: the event loop stands still in the statement.
Waits(r) ==
    LET s == Stretch(r) IN
    /\ LoopRuns /\ s.on \notin held /\ Free = 0
    /\ waiting' = r
    /\ UNCHANGED <<at, left, held>> /\ Stays

Execute(r) ==
    /\ Stretch(r).on # None
    /\ LoopRuns
    /\ Runs(r) \/ Waits(r)

\* A connection has come back while the loop stood still.
Granted(r) ==
    /\ waiting = r
    /\ Runs(r)

\* After 30 seconds the statement raises TimeoutError, and the handlers run
\* without a suspension: a document's run turns to its status, a statement that
\* waits in its turn; a git run to its next commit.
TimesOut(r) ==
    /\ waiting = r /\ Free = 0
    /\ CASE at[r] \in {"loading", "storing"} ->
              To(r, "marking") /\ waiting' = r /\ UNCHANGED left
         [] at[r] = "committing" /\ left[r] > 1 ->
              /\ left' = [left EXCEPT ![r] = @ - 1]
              /\ waiting' = r /\ UNCHANGED at
         [] at[r] \in {"looking up", "counting"} ->
              To(r, "leaving") /\ waiting' = None /\ UNCHANGED left
         [] at[r] \in {"searching", "marking"} ->
              To(r, Leaves) /\ waiting' = None /\ UNCHANGED left
         [] OTHER -> To(r, "over") /\ waiting' = None /\ UNCHANGED left
    /\ UNCHANGED held /\ Stays

-----------------------------------------------------------------------------
\* Requests and their background tasks.

\* get_db is entered in a worker; a session has no connection yet.  The
\* other endpoints have none and answer at once.
Arrive(r) ==
    /\ at[r] = "new" /\ LoopRuns
    /\ r > 1 => at[r - 1] # "new"
    /\ \/ /\ WorkerFree
          /\ \/ "document" \in Kinds /\ To(r, "looking up")
             \/ "usage" \in Kinds /\ To(r, "counting")
             \/ "chat" \in Kinds /\ To(r, IF late THEN "searching" ELSE "leaving to stream")
          /\ UNCHANGED left
       \/ /\ "git" \in Kinds /\ To(r, "committing")
          /\ \E n \in 1..MaxCommits : left' = [left EXCEPT ![r] = n]
       \/ "answer" \in Kinds /\ To(r, "embedding answer") /\ UNCHANGED left
    /\ UNCHANGED <<held, waiting>> /\ Stays

\* db.close() in a worker, also while the loop stands still.
Close(r) ==
    /\ at[r] \in {"leaving", "leaving to stream", "leaving to run"} /\ WorkerFree
    /\ held' = GivenBack(held, Own(r), TRUE)
    /\ To(r, CASE at[r] = "leaving" -> "over"
               [] at[r] = "leaving to stream" -> "searching"
               [] at[r] = "leaving to run" -> Background)
    /\ UNCHANGED <<left, waiting>> /\ Stays

\* A provider answers a run.
Provided(r) ==
    /\ LoopRuns
    /\ \/ at[r] = "contextualising" /\ To(r, "embedding") /\ UNCHANGED left
       \/ at[r] = "embedding" /\ To(r, "storing") /\ UNCHANGED left
       \/ at[r] = "embedding answer" /\ To(r, "saving") /\ UNCHANGED left
       \/ /\ at[r] = "indexing"
          /\ To(r, IF left[r] > 1 THEN "committing" ELSE "saving")
          /\ left' = [left EXCEPT ![r] = @ - 1]
    /\ UNCHANGED <<held, waiting>> /\ Stays

\* A provider fails: a document's run rolls back and turns to its status, an
\* owner answer's ends.  A commit's failure is the commit's own.
ProviderFails(r) ==
    /\ LoopRuns
    /\ \/ at[r] \in {"contextualising", "embedding"} /\ To(r, "marking")
       \/ at[r] = "embedding answer" /\ To(r, "over")
    /\ held' = GivenBack(held, Run(r), FALSE)
    /\ UNCHANGED <<left, waiting>> /\ Stays

\* The cache has the answer, or nothing is found: no statement.
NothingToSearch(r) ==
    /\ at[r] = "searching" /\ LoopRuns
    /\ To(r, "generating")
    /\ UNCHANGED <<left, held, waiting>> /\ Stays

\* The answer is sent, its provider has failed or the client is gone.  A session
\* that was closed before the stream began has taken a connection again, which
\* comes back when the session is collected.
StreamEnds(r) ==
    /\ at[r] = "generating" /\ LoopRuns
    /\ To(r, Leaves)
    /\ held' = IF late THEN held ELSE GivenBack(held, Own(r), FALSE)
    /\ UNCHANGED <<left, waiting>> /\ Stays

OnLoop(r) ==
    \/ Execute(r) \/ Arrive(r) \/ Provided(r) \/ ProviderFails(r)
    \/ NothingToSearch(r) \/ StreamEnds(r)

\* An export is taken by a free worker, whatever the loop does.
Exports ==
    /\ \E e \in Export : (WorkerFree /\ Open(e)) \/ Put(e) \/ Finish(e) \/ Break(e)
    /\ UNCHANGED rVars

RequestsNext ==
    \/ \E r \in Request : OnLoop(r) \/ Granted(r) \/ TimesOut(r) \/ Close(r)
    \/ Exports

\* A timer ends every wait and every call of a provider; the loop and the
\* threads run whatever can run, and a writer gets on.  New requests and
\* exports need not come.
Progress(r) ==
    \/ at[r] # "new" /\ OnLoop(r)
    \/ Granted(r) \/ TimesOut(r)

RequestsSpec ==
    /\ RequestsInit /\ [][RequestsNext]_<<rVars, eVars>>
    /\ \A r \in Request : WF_rVars(Progress(r)) /\ WF_rVars(Close(r))
    /\ \A e \in Export : WF_eVars((Put(e) \/ Finish(e)) /\ UNCHANGED rVars)

-----------------------------------------------------------------------------
\* Properties.

\* The event loop stands still only under a crowd: requests that are still in
\* progress hold every connection, one each, or two each when get_db is left
\* after the background task.  So a process that is never asked for more at a
\* time than its pool allows never stops, and no document's status is lost to
\* an empty pool.
CrowdedWaits ==
    (waiting # None /\ Free = 0) =>
        /\ \A s \in held : s[1] \in InProgress
        /\ pool < (IF late THEN 2 ELSE 1) * Cardinality(InProgress)

\* Whatever fails or waits, every request that has come ends, and the pool is
\* full again once nothing is in progress.
EverythingEnds == \A r \in Request : at[r] # "new" ~> (at[r] = "over" /\ Own(r) \notin held /\ Run(r) \notin held)
=============================================================================
