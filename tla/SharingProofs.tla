---------------------------- MODULE SharingProofs ----------------------------
(***************************************************************************)
(* Proofs about the parts that share something of a fixed size, or a file: *)
(* TrainingExport and Requests (an export that has met no other leaves     *)
(* exactly its records, and the event loop stands still only while         *)
(* requests in progress hold the whole pool), and ChunkContext (the calls  *)
(* stay within the limit, and the counts that are reported are those of    *)
(* the calls made), for any number of exports, requests, workers,          *)
(* connections, chunks, slots and retries.                                 *)
(***************************************************************************)
EXTENDS Requests, ChunkContext, FiniteSetTheorems, TLAPS

-----------------------------------------------------------------------------
\* The exports.

\* A file of one export's blocks only.
Whole(e, n) == [i \in 1..n |-> e]

\* An export that has met no other has the file for itself: it is the only one
\* that is open, or nothing has been opened since it was answered.
AloneInv ==
    /\ written \in [Export -> Nat]
    /\ open \subseteq Export /\ open \cap ended = {}
    /\ \A e \in Export \ (open \cup ended) : written[e] = 0
    /\ \A e \in alone :
         /\ e \in Export
         /\ e \in open \cup ended
         /\ blocks = Whole(e, written[e])
         /\ e \in open => open = {e}
         /\ e \in ended => open = {} /\ written[e] = Size[e]

LEMMA WholeIsSeq ==
    ASSUME NEW e, NEW n \in Nat
    PROVE  Len(Whole(e, n)) = n /\ DOMAIN Whole(e, n) = 1..n
           /\ \A i \in 1..n : Whole(e, n)[i] = e
BY DEF Whole

LEMMA ExportStarts == ExportInit => AloneInv
BY DEF ExportInit, AloneInv

LEMMA OpenKeepsAlone ==
    ASSUME AloneInv, NEW e \in Export, Open(e)
    PROVE  AloneInv'
<1>1. /\ e \notin open \cup ended /\ blocks' = <<>> /\ open' = open \cup {e}
      /\ alone' = IF open = {} THEN {e} ELSE {}
      /\ written' = written /\ ended' = ended /\ written[e] = 0
  BY DEF Open, Truncated, AloneInv
<1>2. Whole(e, 0) = <<>>
  BY DEF Whole
<1> QED
  BY <1>1, <1>2 DEF AloneInv

LEMMA PutKeepsAlone ==
    ASSUME AloneInv, NEW e \in Export, Put(e)
    PROVE  AloneInv'
<1> DEFINE n == written[e] + 1
<1>1. /\ e \in open /\ open' = open /\ ended' = ended /\ alone' = alone
      /\ written' = [written EXCEPT ![e] = n]
      /\ written[e] \in Nat /\ written[e] < Size[e]
  BY DEF Put, AloneInv
<1>2. ASSUME NEW d \in alone PROVE d = e /\ blocks' = Whole(e, n)
  <2>1. d = e
    BY <1>1, <1>2 DEF AloneInv
  <2>2. blocks = Whole(e, written[e])
    BY <2>1, <1>2 DEF AloneInv
  <2>3. Len(blocks) = written[e] /\ \A i \in 1..written[e] : blocks[i] = e
    BY <2>2, <1>1, WholeIsSeq
  <2>4. blocks' = [i \in 1..n |-> CASE i = n -> e
                                    [] i # n /\ i <= Len(blocks) -> blocks[i]
                                    [] OTHER -> Hole]
    BY <1>1, <2>3 DEF Put
  <2>5. blocks' = Whole(e, n)
    BY <1>1, <2>3, <2>4 DEF Whole
  <2> QED
    BY <2>1, <2>5
<1>3. written' \in [Export -> Nat] /\ written'[e] = n
      /\ \A d \in Export \ {e} : written'[d] = written[d]
  BY <1>1 DEF AloneInv
<1> QED
  BY <1>1, <1>2, <1>3 DEF AloneInv

LEMMA EndsKeepsAlone ==
    ASSUME AloneInv, NEW e \in Export, Finish(e) \/ Break(e)
    PROVE  AloneInv'
BY DEF AloneInv, Finish, Break, Ends

LEMMA ExportsKeepAlone ==
    ASSUME AloneInv, ExportNext \/ UNCHANGED eVars
    PROVE  AloneInv'
<1>1. CASE ExportNext
  BY <1>1, OpenKeepsAlone, PutKeepsAlone, EndsKeepsAlone DEF ExportNext
<1>2. CASE UNCHANGED eVars
  BY <1>2 DEF eVars, AloneInv
<1> QED
  BY <1>1, <1>2

LEMMA AloneRepairs == AloneInv => RerunRepairs
BY DEF AloneInv, RerunRepairs, Whole

-----------------------------------------------------------------------------
\* The connections of a request.

Statements == {"looking up", "counting", "searching", "loading", "storing", "marking",
               "committing", "saving"}
Stage == Statements \cup
         {"new", "over", "leaving", "leaving to run", "leaving to stream", "generating",
          "contextualising", "embedding", "embedding answer", "indexing"}

\* Where a request may hold the connection of get_db's session, and where the
\* one of its background task.
OwnStages ==
    IF late THEN {"loading", "contextualising", "embedding", "storing", "marking",
                  "generating", "leaving"}
    ELSE {"leaving to run", "generating", "leaving"}
RunStages == {"contextualising", "embedding", "storing", "committing", "indexing", "saving"}

Holds(r) ==
    /\ Own(r) \in held => at[r] \in OwnStages
    /\ Run(r) \in held => at[r] \in RunStages

PoolInv ==
    /\ late \in BOOLEAN /\ pool \in Nat
    /\ at \in [Request -> Stage]
    /\ held \subseteq Request \X {"own", "run"}
    /\ waiting \in Request \cup {None}
    /\ waiting # None => at[waiting] \in Statements /\ Stretch(waiting).on \notin held
    /\ \A r \in Request : Holds(r)

LEMMA PoolStarts == RequestsInit => PoolInv
BY PoolAssumption, RequestsAssumption DEF RequestsInit, PoolInv, Holds, Stage, Own, Run

\* The stretch of code at each stage.
LEMMA Stretches ==
    ASSUME NEW r
    PROVE  LET s == Stretch(r) IN
           /\ at[r] = "looking up" =>
                s.next = (IF late THEN Background ELSE "leaving to run") /\ ~s.commits
           /\ at[r] = "counting" => s.next = "leaving" /\ ~s.commits
           /\ at[r] = "searching" => s.next = "generating" /\ ~s.commits
           /\ at[r] = "loading" => s.next = "contextualising" /\ ~s.commits
           /\ at[r] \in {"storing", "marking"} => s.next = Leaves /\ s.commits
           /\ at[r] = "committing" => s.next = "indexing" /\ ~s.commits
           /\ at[r] = "saving" => s.next = "over" /\ s.commits
           /\ at[r] \notin Statements => s.on = None
BY DEF Stretch, Statements

\* The session of a stage's first statement.
Session(stage, r) == IF stage \in {"looking up", "counting", "searching"} THEN Own(r) ELSE Run(r)

LEMMA Sessions ==
    ASSUME NEW r
    PROVE  /\ at[r] \in Statements => Stretch(r).on = Session(at[r], r)
           /\ at'[r] \in Statements => Stretch(r)'.on = Session(at'[r], r)
BY DEF Stretch, Statements, Session, Own, Run

\* A step of one request: only its stage changes, and only its connections.
Alone(r) ==
    /\ late' = late /\ pool' = pool
    /\ \E stage \in Stage : at' = [at EXCEPT ![r] = stage]
    /\ held' \subseteq held \cup {Own(r), Run(r)}

LEMMA OneRequest ==
    ASSUME PoolInv, NEW r \in Request, Alone(r), Holds(r)',
           waiting' = None \/ waiting' = r \/ (waiting' = waiting /\ waiting # r),
           waiting' = r => at'[r] \in Statements /\ Stretch(r)'.on \notin held',
           waiting' = waiting => held' \subseteq held \/ waiting = None
    PROVE  PoolInv'
<1>1. PICK stage \in Stage : at' = [at EXCEPT ![r] = stage]
  BY DEF Alone
<1>2. at' \in [Request -> Stage] /\ \A q \in Request \ {r} : at'[q] = at[q]
  BY <1>1 DEF PoolInv
<1>3. held' \subseteq Request \X {"own", "run"}
  BY DEF PoolInv, Alone, Own, Run
<1>4. ASSUME NEW q \in Request \ {r} PROVE Holds(q)'
  <2>1. Holds(q) /\ OwnStages' = OwnStages
    BY DEF PoolInv, Alone, OwnStages
  <2>2. /\ Own(q) \in held' => Own(q) \in held
        /\ Run(q) \in held' => Run(q) \in held
    BY <1>4 DEF Alone, Own, Run
  <2> QED
    BY <2>1, <2>2, <1>2, <1>4 DEF Holds, Own, Run
<1>5. waiting' \in Request \cup {None}
  BY DEF PoolInv
<1>6. ASSUME waiting' # None PROVE at'[waiting'] \in Statements /\ Stretch(waiting)'.on \notin held'
  <2>1. CASE waiting' = r
    BY <2>1
  <2>2. CASE waiting' = waiting /\ waiting # r
    <3>1. waiting \in Request \ {r} /\ at'[waiting] = at[waiting] /\ held' \subseteq held
      BY <2>2, <1>6, <1>2 DEF PoolInv
    <3>2. at[waiting] \in Statements /\ Stretch(waiting).on \notin held
      BY <2>2, <1>6 DEF PoolInv
    <3>3. Stretch(waiting)'.on = Stretch(waiting).on
      BY <3>1, <3>2, <2>2, Sessions DEF Session
    <3> QED
      BY <3>1, <3>2, <3>3, <2>2
  <2> QED
    BY <2>1, <2>2, <1>6
<1> QED
  BY <1>2, <1>3, <1>4, <1>5, <1>6 DEF PoolInv, Alone

\* A stretch that runs leaves its request at the stage after it, with the
\* connections it may have there.
LEMMA RunsKeepsPool ==
    ASSUME PoolInv, NEW r \in Request, Runs(r), at[r] \in Statements
    PROVE  PoolInv'
<1> DEFINE s == Stretch(r)
<1>1. /\ at' = [at EXCEPT ![r] = s.next] /\ waiting' = None /\ late' = late /\ pool' = pool
      /\ held' = IF s.commits THEN held \ {s.on} ELSE held \cup {s.on}
  BY DEF Runs, To, Stays, GivenBack
<1>2. at[r] \in Stage /\ late \in BOOLEAN /\ Holds(r)
  BY DEF PoolInv
<1>3. /\ s.on = Session(at[r], r) /\ s.next \in Stage
      /\ s.commits <=> at[r] \in {"storing", "marking", "saving"}
  BY <1>2, Stretches, Sessions DEF Statements, Stage, Background, Leaves
<1>4. at'[r] = s.next
  BY <1>1 DEF PoolInv
<1>5. Holds(r)'
  <2>1. CASE at[r] \in {"looking up", "counting", "searching"}
    <3>1. s.next \in OwnStages
      BY <2>1, <1>2, Stretches DEF OwnStages, Background, Leaves
    <3>2. held' = held \cup {Own(r)} /\ Run(r) \notin held
      BY <2>1, <1>1, <1>2, <1>3 DEF Session, Holds, RunStages
    <3> QED
      BY <3>1, <3>2, <1>1, <1>4 DEF Holds, OwnStages, Own, Run
  <2>2. CASE at[r] \in {"loading", "committing"}
    <3>1. /\ s.next \in RunStages
          /\ at[r] = "loading" => s.next = "contextualising"
          /\ at[r] = "committing" => Own(r) \notin held
      BY <2>2, <1>2, Stretches DEF RunStages, Holds, OwnStages
    <3>2. held' = held \cup {Run(r)}
      BY <2>2, <1>1, <1>3 DEF Session
    <3>3. Own(r) \in held' => Own(r) \in held /\ at[r] = "loading"
      BY <2>2, <3>1, <3>2 DEF Own, Run
    <3>4. Own(r) \in held => (at[r] = "loading" => late)
      BY <1>2 DEF Holds, OwnStages
    <3>5. Own(r) \in held' => at'[r] = "contextualising" /\ late'
      BY <3>1, <3>3, <3>4, <1>1, <1>4
    <3>6. Own(r) \in held' => at'[r] \in OwnStages'
      BY <3>5 DEF OwnStages
    <3> QED
      BY <3>1, <3>6, <1>4 DEF Holds, RunStages, Own, Run
  <2>3. CASE at[r] \in {"storing", "marking"}
    <3>1. s.next = Leaves /\ held' = held \ {Run(r)}
      BY <2>3, <1>1, <1>3, Stretches DEF Session
    <3>2. Own(r) \in held' => Own(r) \in held /\ late
      BY <2>3, <3>1, <1>2 DEF Holds, OwnStages
    <3>3. Own(r) \in held' => at'[r] \in OwnStages'
      BY <3>1, <3>2, <1>1, <1>4 DEF OwnStages, Leaves
    <3> QED
      BY <3>1, <3>3 DEF Holds, Own, Run
  <2>4. CASE at[r] = "saving"
    <3>1. s.next = "over" /\ held' = held \ {Run(r)}
      BY <2>4, <1>1, <1>3, Stretches DEF Session
    <3> QED
      BY <2>4, <3>1, <1>1, <1>2, <1>4 DEF Holds, OwnStages, RunStages, Own, Run
  <2> QED
    BY <2>1, <2>2, <2>3, <2>4 DEF Statements
<1>6. Alone(r)
  <2>1. s.on \in {Own(r), Run(r)}
    BY <1>3 DEF Session
  <2> QED
    BY <2>1, <1>1, <1>3 DEF Alone
<1>7. None \notin Request
  BY RequestsAssumption DEF Request
<1>8. waiting' = waiting => waiting = None
  BY <1>1
<1> QED
  BY <1>1, <1>5, <1>6, <1>7, <1>8, OneRequest

LEMMA WaitsKeepsPool ==
    ASSUME PoolInv, NEW r \in Request, Waits(r), at[r] \in Statements
    PROVE  PoolInv'
<1>1. /\ at' = at /\ held' = held /\ waiting' = r /\ late' = late /\ pool' = pool
      /\ Stretch(r).on \notin held
  BY DEF Waits, Stays
<1>2. Stretch(r)'.on = Stretch(r).on
  BY <1>1, Sessions
<1> QED
  BY <1>1, <1>2 DEF PoolInv, Holds, OwnStages

\* A statement whose time is up.
LEMMA TimesOutKeepsPool ==
    ASSUME PoolInv, NEW r \in Request, TimesOut(r)
    PROVE  PoolInv'
<1>1. /\ waiting = r /\ held' = held /\ late' = late /\ pool' = pool
      /\ at[r] \in Statements /\ Stretch(r).on = Session(at[r], r)
      /\ Session(at[r], r) \notin held /\ Holds(r) /\ late \in BOOLEAN
      /\ waiting # None
  BY Sessions, RequestsAssumption DEF TimesOut, Stays, PoolInv, Request
<1>2. \/ at[r] \in {"loading", "storing"} /\ To(r, "marking") /\ waiting' = r
      \/ at[r] = "committing" /\ at' = at /\ waiting' = r
      \/ at[r] \in {"looking up", "counting"} /\ To(r, "leaving") /\ waiting' = None
      \/ at[r] \in {"searching", "marking"} /\ To(r, Leaves) /\ waiting' = None
      \/ at[r] \in {"committing", "saving"} /\ To(r, "over") /\ waiting' = None
  BY <1>1 DEF TimesOut, Statements
<1>3. \E stage \in Stage :
        /\ at' = [at EXCEPT ![r] = stage]
        /\ \/ at[r] \in {"loading", "storing"} /\ stage = "marking" /\ waiting' = r
           \/ at[r] = "committing" /\ stage = "committing" /\ waiting' = r
           \/ at[r] \in {"looking up", "counting"} /\ stage = "leaving" /\ waiting' = None
           \/ at[r] \in {"searching", "marking"} /\ stage = Leaves /\ waiting' = None
           \/ at[r] \in {"committing", "saving"} /\ stage = "over" /\ waiting' = None
  <2>1. at = [at EXCEPT ![r] = at[r]] /\ at[r] \in Stage
    BY DEF PoolInv
  <2>2. Leaves \in Stage /\ {"marking", "leaving", "over", "committing"} \subseteq Stage
    BY DEF Leaves, Stage, Statements
  <2>3. CASE at[r] = "committing" /\ at' = at /\ waiting' = r
    BY <2>1, <2>3
  <2>4. CASE ~(at[r] = "committing" /\ at' = at /\ waiting' = r)
    BY <2>2, <2>4, <1>2 DEF To
  <2> QED
    BY <2>3, <2>4
<1>4. PICK stage \in Stage :
        /\ at' = [at EXCEPT ![r] = stage]
        /\ \/ at[r] \in {"loading", "storing"} /\ stage = "marking" /\ waiting' = r
           \/ at[r] = "committing" /\ stage = "committing" /\ waiting' = r
           \/ at[r] \in {"looking up", "counting"} /\ stage = "leaving" /\ waiting' = None
           \/ at[r] \in {"searching", "marking"} /\ stage = Leaves /\ waiting' = None
           \/ at[r] \in {"committing", "saving"} /\ stage = "over" /\ waiting' = None
  BY <1>3
<1>5. at'[r] = stage
  BY <1>4 DEF PoolInv
<1>6. Holds(r)'
  <2>1. Run(r) \notin held \/ at[r] = "searching" \/ at[r] \in {"looking up", "counting"}
    BY <1>1, <1>4 DEF Session
  <2>2. Run(r) \notin held
    BY <2>1, <1>1 DEF Holds, RunStages
  <2>3. Own(r) \in held => late /\ at[r] \in {"loading", "storing", "marking"}
    BY <1>1, <1>4 DEF Holds, OwnStages, Session
  <2>4. Own(r) \in held => at'[r] \in {"marking", "leaving"}
    BY <2>3, <1>4, <1>5 DEF Leaves
  <2>5. Own(r) \in held => at'[r] \in OwnStages'
    BY <2>3, <2>4, <1>1 DEF OwnStages
  <2> QED
    BY <2>2, <2>5, <1>1 DEF Holds, Own, Run
<1>7. waiting' = r => at'[r] \in Statements /\ Stretch(r)'.on \notin held'
  <2>1. waiting' = r => at'[r] \in {"marking", "committing"} /\ Run(r) \notin held'
    BY <1>1, <1>4, <1>5 DEF Session
  <2> QED
    BY <2>1, Sessions DEF Statements, Session
<1>8. Alone(r)
  BY <1>1, <1>4 DEF Alone
<1> QED
  BY <1>1, <1>4, <1>6, <1>7, <1>8, OneRequest

\* The steps without a statement.
LEMMA OthersKeepPool ==
    ASSUME PoolInv, NEW r \in Request,
           \/ Arrive(r) \/ Close(r) \/ Provided(r) \/ ProviderFails(r)
           \/ NothingToSearch(r) \/ StreamEnds(r)
    PROVE  PoolInv'
<1>1. late' = late /\ pool' = pool /\ waiting' = waiting
  BY DEF Arrive, Close, Provided, ProviderFails, NothingToSearch, StreamEnds, Stays
<1>2. Holds(r) /\ at[r] \in Stage /\ late \in BOOLEAN
  BY DEF PoolInv
<1>3. PICK stage \in Stage :
        /\ at' = [at EXCEPT ![r] = stage]
        /\ \/ at[r] = "new" /\ held' = held
           \/ /\ at[r] \in {"leaving", "leaving to stream", "leaving to run"}
              /\ stage \in {"over", "searching", "loading", "embedding"}
              /\ held' = held \ {Own(r)}
           \/ at[r] = "contextualising" /\ stage = "embedding" /\ held' = held
           \/ at[r] = "embedding" /\ stage = "storing" /\ held' = held
           \/ at[r] = "embedding answer" /\ held' = held
           \/ at[r] = "indexing" /\ stage \in {"committing", "saving"} /\ held' = held
           \/ /\ at[r] \in {"contextualising", "embedding"} /\ stage = "marking"
              /\ held' = held \ {Run(r)}
           \/ at[r] = "embedding answer" /\ held' = held \ {Run(r)}
           \/ at[r] = "searching" /\ held' = held
           \/ at[r] = "generating" /\ late /\ stage = "leaving" /\ held' = held
           \/ at[r] = "generating" /\ ~late /\ stage = "over" /\ held' = held \ {Own(r)}
  <2>1. CASE Arrive(r)
    <3>1. /\ at[r] = "new" /\ held' = held
          /\ \E stage \in {"looking up", "counting", "searching", "leaving to stream",
                           "committing", "embedding answer"} : To(r, stage)
      BY <2>1 DEF Arrive
    <3> QED
      BY <3>1 DEF To, Stage, Statements
  <2>2. CASE Close(r)
    <3>1. \E stage \in {"over", "searching", "loading", "embedding"} : To(r, stage)
      BY <2>2 DEF Close, Background
    <3>2. /\ at[r] \in {"leaving", "leaving to stream", "leaving to run"}
          /\ held' = held \ {Own(r)}
      BY <2>2 DEF Close, GivenBack
    <3> QED
      BY <3>1, <3>2 DEF To, Stage, Statements
  <2>3. CASE Provided(r)
    <3>1. /\ held' = held
          /\ \/ at[r] = "contextualising" /\ To(r, "embedding")
             \/ at[r] = "embedding" /\ To(r, "storing")
             \/ at[r] = "embedding answer" /\ To(r, "saving")
             \/ at[r] = "indexing" /\ (To(r, "committing") \/ To(r, "saving"))
      BY <2>3 DEF Provided
    <3> QED
      BY <3>1 DEF To, Stage, Statements
  <2>4. CASE ProviderFails(r)
    <3>1. /\ held' = held \ {Run(r)}
          /\ \/ at[r] \in {"contextualising", "embedding"} /\ To(r, "marking")
             \/ at[r] = "embedding answer" /\ To(r, "over")
      BY <2>4 DEF ProviderFails, GivenBack
    <3> QED
      BY <3>1 DEF To, Stage, Statements
  <2>5. CASE NothingToSearch(r)
    BY <2>5 DEF NothingToSearch, To, Stage
  <2>6. CASE StreamEnds(r)
    <3>1. /\ at[r] = "generating" /\ To(r, Leaves)
          /\ held' = IF late THEN held ELSE held \ {Own(r)}
      BY <2>6 DEF StreamEnds, GivenBack
    <3> QED
      BY <3>1, <1>2 DEF To, Stage, Leaves
  <2> QED
    BY <2>1, <2>2, <2>3, <2>4, <2>5, <2>6
<1>4. at'[r] = stage /\ held' \subseteq held
  BY <1>3 DEF PoolInv
<1>5. Own(r) \in held' => at'[r] \in OwnStages'
  <2>1. SUFFICES ASSUME Own(r) \in held' PROVE stage \in OwnStages'
    BY <1>4
  <2>2. /\ at[r] \in OwnStages /\ OwnStages' = OwnStages
        /\ at[r] \notin {"new", "searching", "embedding answer", "indexing", "leaving",
                         "leaving to stream", "leaving to run"}
        /\ ~(at[r] = "generating" /\ ~late)
    BY <2>1, <1>1, <1>2, <1>3, <1>4 DEF Holds, OwnStages, Own
  <2>3. \/ late /\ stage \in {"embedding", "storing", "marking", "leaving"}
    BY <2>2, <1>3 DEF OwnStages
  <2> QED
    BY <2>2, <2>3 DEF OwnStages
<1>6. Run(r) \in held' => at'[r] \in RunStages
  <2>1. SUFFICES ASSUME Run(r) \in held' PROVE stage \in RunStages
    BY <1>4
  <2>2. at[r] \in RunStages
    BY <2>1, <1>2, <1>4 DEF Holds
  <2>3. held' # held \ {Run(r)}
    BY <2>1
  <2> QED
    BY <2>2, <2>3, <1>3 DEF RunStages
<1>7. Holds(r)'
  BY <1>5, <1>6 DEF Holds, Own, Run, RunStages
<1>8. waiting = None \/ waiting # r
  <2>1. CASE Close(r)
    BY <2>1 DEF Close, PoolInv, Statements
  <2>2. CASE ~Close(r)
    BY <2>2 DEF Arrive, Provided, ProviderFails, NothingToSearch, StreamEnds, LoopRuns
  <2> QED
    BY <2>1, <2>2
<1>9. Alone(r)
  BY <1>1, <1>3, <1>4 DEF Alone
<1>10. None \notin Request
  BY RequestsAssumption DEF Request
<1> QED
  BY <1>1, <1>4, <1>7, <1>8, <1>9, <1>10, OneRequest

LEMMA RequestsKeepPool ==
    ASSUME PoolInv, RequestsNext \/ UNCHANGED <<rVars, eVars>>
    PROVE  PoolInv'
<1>1. ASSUME NEW r \in Request, Execute(r) PROVE PoolInv'
  <2>1. at[r] \in Statements
    BY <1>1, Stretches DEF Execute
  <2> QED
    BY <1>1, <2>1, RunsKeepsPool, WaitsKeepsPool DEF Execute
<1>2. ASSUME NEW r \in Request, Granted(r) PROVE PoolInv'
  <2>1. at[r] \in Statements
    BY <1>2, RequestsAssumption DEF Granted, PoolInv, Request
  <2> QED
    BY <1>2, <2>1, RunsKeepsPool DEF Granted
<1>3. ASSUME UNCHANGED rVars PROVE PoolInv'
  BY <1>3 DEF rVars, PoolInv, Holds, OwnStages, Stretch, Background, Leaves
<1> QED
  BY <1>1, <1>2, <1>3, TimesOutKeepsPool, OthersKeepPool
     DEF RequestsNext, OnLoop, Exports

-----------------------------------------------------------------------------
\* The crowd of a loop that stands still.

\* The session that waits has no connection, so the connections that are held
\* are fewer than the sessions the requests in progress can have.
LEMMA PoolIsCrowded == PoolInv => CrowdedWaits
<1> SUFFICES ASSUME PoolInv, waiting # None, Free = 0
             PROVE  /\ \A s \in held : s[1] \in InProgress
                    /\ pool < (IF late THEN 2 ELSE 1) * Cardinality(InProgress)
  BY DEF CrowdedWaits
<1> DEFINE w == waiting
           on == Stretch(w).on
           sessions == InProgress \X {"own", "run"}
<1>1. /\ w \in Request /\ at[w] \in Statements /\ on = Session(at[w], w) /\ on \notin held
      /\ Holds(w) /\ w \in InProgress
  BY Sessions DEF PoolInv, InProgress, Statements
<1>2. ASSUME NEW s \in held PROVE s[1] \in InProgress /\ s[2] \in {"own", "run"} /\ s = <<s[1], s[2]>>
  <2>1. s \in Request \X {"own", "run"}
    BY <1>2 DEF PoolInv
  <2>2. Holds(s[1]) /\ (s = Own(s[1]) \/ s = Run(s[1]))
    BY <2>1 DEF PoolInv, Own, Run
  <2>3. at[s[1]] \in OwnStages \cup RunStages
    BY <2>2, <1>2 DEF Holds
  <2>4. at[s[1]] \notin {"new", "over"}
    BY <2>3 DEF OwnStages, RunStages
  <2> QED
    BY <2>1, <2>4 DEF InProgress
<1>3. IsFiniteSet(InProgress) /\ Cardinality(InProgress) \in Nat
  <2>1. IsFiniteSet(Request)
    BY FS_Interval, RequestsAssumption DEF Request
  <2> QED
    BY <2>1, FS_Subset, FS_CardinalityType DEF InProgress
<1>4. held \subseteq sessions \ {on}
  BY <1>1, <1>2
<1>5. IsFiniteSet({"own", "run"}) /\ Cardinality({"own", "run"}) = 2
  <2>1. {"own", "run"} = {"own"} \cup {"run"}
    OBVIOUS
  <2>2. IsFiniteSet({"own"}) /\ Cardinality({"own"}) = 1 /\ "run" \notin {"own"}
    BY FS_Singleton
  <2>3. /\ IsFiniteSet({"own"} \cup {"run"})
        /\ Cardinality({"own"} \cup {"run"}) = Cardinality({"own"}) + 1
    BY <2>2, FS_AddElement
  <2> QED
    BY <2>1, <2>2, <2>3
<1>6. IsFiniteSet(sessions) /\ Cardinality(sessions) = Cardinality(InProgress) * 2
  BY <1>3, <1>5, FS_Product
<1>7. IsFiniteSet(held) /\ Cardinality(held) \in Nat
  <2>1. held \subseteq sessions
    BY <1>4
  <2> QED
    BY <2>1, <1>6, FS_Subset, FS_CardinalityType
<1>8. pool = Cardinality(held)
  BY <1>7 DEF Free, PoolInv
<1>9. CASE late
  <2>1. on \in sessions
    <3>1. on = <<w, "own">> \/ on = <<w, "run">>
      BY <1>1 DEF Session, Own, Run
    <3>2. <<w, "own">> \in sessions /\ <<w, "run">> \in sessions
      BY <1>1
    <3> HIDE DEF on, sessions
    <3> QED
      BY <3>1, <3>2
  <2>2. /\ IsFiniteSet(sessions \ {on})
        /\ Cardinality(sessions \ {on}) = Cardinality(sessions) - 1
    BY <2>1, <1>6, FS_RemoveElement
  <2>3. Cardinality(held) <= Cardinality(sessions \ {on})
    BY <2>2, <1>4, FS_Subset
  <2>4. Cardinality(held) < 2 * Cardinality(InProgress)
    <3> HIDE DEF sessions, on
    <3> QED
      BY <2>2, <2>3, <1>3, <1>6, <1>7
  <2> QED
    BY <2>4, <1>2, <1>8, <1>9
<1>10. CASE ~late
  <2> DEFINE others == InProgress \ {w}
             of == [s \in held |-> s[1]]
  <2>1. ASSUME NEW r \in Request PROVE ~(Own(r) \in held /\ Run(r) \in held)
    BY <1>10 DEF PoolInv, Holds, OwnStages, RunStages
  <2>2. Own(w) \notin held /\ Run(w) \notin held
    <3>1. at[w] \in {"looking up", "counting", "searching"} => Run(w) \notin held
      BY <1>1 DEF Holds, RunStages
    <3>2. at[w] \notin OwnStages
      BY <1>1, <1>10 DEF OwnStages, Statements
    <3> QED
      BY <3>1, <3>2, <1>1 DEF Holds, Session
  <2>3. ASSUME NEW s \in held PROVE s[1] \in others
    BY <2>2, <1>2 DEF Own, Run
  <2>4. ASSUME NEW s \in held, NEW t \in held, s[1] = t[1] PROVE s = t
    BY <2>1, <2>4, <1>2 DEF Own, Run, InProgress
  <2>5. of \in Injection(held, others)
    BY <2>3, <2>4 DEF Injection, IsInjective
  <2>6. IsFiniteSet(others) /\ Cardinality(others) = Cardinality(InProgress) - 1
    BY <1>1, <1>3, FS_RemoveElement
  <2>7. Cardinality(held) <= Cardinality(others)
    <3> HIDE DEF of, others
    <3> QED
      BY <2>5, <2>6, FS_Injection
  <2>8. Cardinality(held) < Cardinality(InProgress)
    BY <2>6, <2>7, <1>3, <1>7
  <2> QED
    BY <2>8, <1>2, <1>3, <1>8, <1>10
<1> QED
  BY <1>9, <1>10

-----------------------------------------------------------------------------
\* The theorems.

\* The connections are where the stages of the requests say, for any number of
\* requests and connections (db/session.py, get_db, and the sessions of the
\* background tasks).
THEOREM ConnectionsAccounted == RequestsSpec => []PoolInv
<1>1. PoolInv /\ [RequestsNext]_<<rVars, eVars>> => PoolInv'
  BY RequestsKeepPool
<1> QED
  BY PoolStarts, <1>1, PTL DEF RequestsSpec

\* The event loop stands still only under a crowd: a statement waits on the loop
\* only while requests in progress hold every connection of the pool, and are
\* more than its connections, or more than half of them when get_db is left
\* after the background task (db/session.py, every endpoint).
THEOREM StandsStillOnlyInACrowd == RequestsSpec => []CrowdedWaits
BY ConnectionsAccounted, PoolIsCrowded, PTL

\* An export that has met no other and is answered leaves exactly its records
\* (pipelines/export_training_data.py).
THEOREM ExportRerunRepairs == RequestsSpec => []RerunRepairs
<1>1. RequestsInit => AloneInv
  BY ExportStarts DEF RequestsInit
<1>2. AloneInv /\ [RequestsNext]_<<rVars, eVars>> => AloneInv'
  <2>1. ASSUME AloneInv, NEW r \in Request, OnLoop(r) \/ Granted(r) \/ TimesOut(r) \/ Close(r)
        PROVE  AloneInv'
    <3>1. UNCHANGED eVars
      BY <2>1 DEF OnLoop, Execute, Runs, Waits, Granted, TimesOut, Arrive, Close, Provided,
                  ProviderFails, NothingToSearch, StreamEnds, Stays
    <3> QED
      BY <2>1, <3>1, ExportsKeepAlone
  <2>2. ASSUME AloneInv, Exports PROVE AloneInv'
    BY <2>2, ExportsKeepAlone DEF Exports, ExportNext
  <2> QED
    BY <2>1, <2>2, ExportsKeepAlone DEF RequestsNext
<1> QED
  BY <1>1, <1>2, AloneRepairs, PTL DEF RequestsSpec

-----------------------------------------------------------------------------
\* The inductive invariant.

Holders == {c \in Chunk : task[c] \in {"calling", "backing_off"}}
BackingOff == {c \in Chunk : task[c] = "backing_off"}
Started == {c \in Asked : task[c] # "queued"}

\* Every slot that is not free is held by one task that calls or backs off.
SlotsHeld == free + Cardinality(Holders) = Concurrency

\* A chunk with a context to reuse has no task.
KnownIdle == \A c \in known : task[c] = "none"

\* Nothing is under way before and after gather.
QuietOutside == pc # "gathering" => \A c \in Chunk : task[c] \in Finished

\* Each task made its first call and one call after each back-off that is over.
CallsSoFar ==
    /\ pc = "new" => llmCalls = 0 /\ retried = 0 /\ result.reused = 0
    /\ pc = "gathering" =>
           llmCalls + Cardinality(BackingOff) = Cardinality(Started) + retried
    /\ CallsAccounted

IInv == TypeOK /\ SlotsHeld /\ KnownIdle /\ QuietOutside /\ CallsSoFar

-----------------------------------------------------------------------------
\* Finite sets of chunks.

LEMMA ChunkCount ==
    IsFiniteSet(Chunk) /\ Cardinality(Chunk) = Count
<1>1. IsFiniteSet(1..Count) /\ Cardinality(1..Count) = IF 1 > Count THEN 0 ELSE Count - 1 + 1
  BY CountAssumption, FS_Interval
<1> QED
  BY <1>1, CountAssumption DEF Chunk

LEMMA ChunkSets ==
    ASSUME NEW S \in SUBSET Chunk
    PROVE  IsFiniteSet(S) /\ Cardinality(S) \in Nat /\ (S = {} <=> Cardinality(S) = 0)
<1>1. IsFiniteSet(S)
  BY ChunkCount, FS_Subset
<1> QED
  BY <1>1, FS_CardinalityType, FS_EmptySet

LEMMA OneMore ==
    ASSUME NEW S \in SUBSET Chunk, NEW c \in Chunk, c \notin S
    PROVE  Cardinality(S \cup {c}) = Cardinality(S) + 1
BY ChunkSets, FS_AddElement

LEMMA OneLess ==
    ASSUME NEW S \in SUBSET Chunk, NEW c \in S
    PROVE  Cardinality(S \ {c}) = Cardinality(S) - 1
BY ChunkSets, FS_RemoveElement

LEMMA AskedCount ==
    ASSUME known \subseteq Chunk
    PROVE  Cardinality(Asked) = Count - Cardinality(known)
<1>1. Cardinality(Asked) = Cardinality(Chunk) - Cardinality(Chunk \cap known)
  BY ChunkCount, FS_Difference DEF Asked
<1>2. Chunk \cap known = known
  OBVIOUS
<1> QED
  BY <1>1, <1>2, ChunkCount

-----------------------------------------------------------------------------
\* How one task moves the three sets.

LEMMA Moved ==
    ASSUME TypeOK, NEW c \in Chunk, NEW where, At(c, where)
    PROVE  /\ Holders' = IF where \in {"calling", "backing_off"}
                           THEN Holders \cup {c} ELSE Holders \ {c}
           /\ BackingOff' = IF where = "backing_off"
                              THEN BackingOff \cup {c} ELSE BackingOff \ {c}
           /\ \A d \in Chunk : task'[d] = IF d = c THEN where ELSE task[d]
BY DEF TypeOK, At, Holders, BackingOff

\* A task that has a slot has been started, and is one of those asked about.
LEMMA HolderStarted ==
    ASSUME IInv, NEW c \in Chunk, task[c] \in {"calling", "backing_off"}
    PROVE  c \in Started /\ c \in Holders /\ pc = "gathering"
BY DEF IInv, KnownIdle, QuietOutside, Finished, Started, Asked, Holders

\* Such a task stays among the started ones whatever it does next.
LEMMA StartedKept ==
    ASSUME IInv, NEW c \in Chunk, task[c] \in {"calling", "backing_off"},
           NEW where, where # "queued", At(c, where), UNCHANGED known
    PROVE  Started' = Started
BY HolderStarted, Moved DEF IInv, Started, Asked

LEMMA InitInvariant == Init => IInv
<1> SUFFICES ASSUME Init PROVE IInv
  OBVIOUS
<1>1. TypeOK
  BY LimitAssumption DEF Init, TypeOK, NoResult, Finished
<1>2. Holders = {}
  BY DEF Init, Holders
<1>3. SlotsHeld
  BY <1>2, FS_EmptySet, LimitAssumption DEF SlotsHeld, Init
<1>4. CallsSoFar
  BY DEF Init, CallsSoFar, CallsAccounted, NoResult
<1> QED
  BY <1>1, <1>3, <1>4 DEF Init, IInv, KnownIdle, QuietOutside, Finished

-----------------------------------------------------------------------------
\* The steps of the caller.

LEMMA ReturnNoneInvariant ==
    ASSUME IInv, ReturnNone
    PROVE  IInv'
<1>1. TypeOK'
  BY DEF IInv, TypeOK, ReturnNone, input
<1>2. CallsSoFar'
  <2>1. CASE ~enabled
    BY <2>1 DEF ReturnNone, CallsSoFar, CallsAccounted, input
  <2>2. CASE Count = 0
    <3>1. llmCalls = 0 /\ retried = 0 /\ result.reused = 0
      BY DEF IInv, CallsSoFar, ReturnNone
    <3> QED
      BY <2>2, <3>1 DEF ReturnNone, CallsSoFar, CallsAccounted, input
  <2> QED
    BY <2>1, <2>2 DEF ReturnNone
<1>3. SlotsHeld' /\ KnownIdle' /\ QuietOutside'
  BY DEF IInv, SlotsHeld, KnownIdle, QuietOutside, ReturnNone, input, Holders
<1> QED
  BY <1>1, <1>2, <1>3 DEF IInv

LEMMA BeginInvariant ==
    ASSUME IInv, Begin
    PROVE  IInv'
<1>1. TypeOK'
  BY DEF IInv, TypeOK, Begin, input, Finished
<1>2. Holders' = {} /\ BackingOff' = {} /\ Started' = {}
  BY DEF Begin, Holders, BackingOff, Started, Asked, input
<1>3. Holders = {}
  BY DEF IInv, QuietOutside, Begin, Holders, Finished
<1>4. SlotsHeld'
  BY <1>2, <1>3 DEF IInv, SlotsHeld, Begin
<1>5. CallsSoFar'
  BY <1>2, FS_EmptySet DEF IInv, CallsSoFar, CallsAccounted, Begin
<1>6. KnownIdle' /\ QuietOutside'
  BY DEF IInv, TypeOK, KnownIdle, QuietOutside, Begin, input, Asked
<1> QED
  BY <1>1, <1>4, <1>5, <1>6 DEF IInv

LEMMA ReturnInvariant ==
    ASSUME IInv, Return
    PROVE  IInv'
<1> USE DEF Return, input
<1>1. TypeOK'
  <2>1. Cardinality(Failed) \in Nat /\ Cardinality(known) \in Nat
    BY ChunkSets DEF IInv, TypeOK, Failed
  <2> QED
    BY <2>1 DEF IInv, TypeOK
<1>2. CallsSoFar'
  <2>1. BackingOff = {} /\ Started = Asked
    BY DEF BackingOff, Started, Asked, Finished
  <2>2. llmCalls = Count - Cardinality(known) + retried
    BY <2>1, AskedCount, FS_EmptySet, CountAssumption, ChunkSets DEF IInv, TypeOK, CallsSoFar
  <2> QED
    BY <2>2 DEF IInv, TypeOK, CallsSoFar, CallsAccounted
<1>3. SlotsHeld' /\ KnownIdle' /\ QuietOutside'
  BY DEF IInv, SlotsHeld, KnownIdle, QuietOutside, Holders
<1> QED
  BY <1>1, <1>2, <1>3 DEF IInv

LEMMA CancelInvariant ==
    ASSUME IInv, Cancel
    PROVE  IInv'
<1> USE DEF Cancel, input
<1>1. TypeOK'
  BY LimitAssumption DEF IInv, TypeOK, Finished
<1>2. QuietOutside' /\ KnownIdle' /\ Holders' = {}
  BY DEF IInv, TypeOK, QuietOutside, KnownIdle, Holders, Finished
<1>3. SlotsHeld'
  BY <1>2, FS_EmptySet, LimitAssumption DEF SlotsHeld
<1>4. CallsSoFar'
  BY DEF IInv, CallsSoFar, CallsAccounted
<1> QED
  BY <1>1, <1>2, <1>3, <1>4 DEF IInv

-----------------------------------------------------------------------------
\* The steps of a task.

LEMMA CallInvariant ==
    ASSUME IInv, NEW c \in Chunk, Call(c)
    PROVE  IInv'
<1> USE DEF Call, input
<1>1. TypeOK'
  BY LimitAssumption DEF IInv, TypeOK, MayEnter, At
<1>2. /\ pc = "gathering" /\ c \in Asked
      /\ c \notin Holders /\ c \notin BackingOff /\ c \notin Started
  BY DEF IInv, KnownIdle, QuietOutside, MayEnter, Holders, BackingOff, Started, Asked, Finished
<1>3. Holders' = Holders \cup {c} /\ BackingOff' = BackingOff
  BY <1>2, Moved DEF IInv
<1>4. Started' = Started \cup {c}
  BY <1>2, Moved DEF IInv, Started, Asked
<1>5. SlotsHeld'
  <2>1. Cardinality(Holders') = Cardinality(Holders) + 1
    BY <1>2, <1>3, OneMore DEF Holders
  <2> QED
    BY <2>1, ChunkSets, LimitAssumption DEF IInv, TypeOK, SlotsHeld, Holders
<1>6. CallsSoFar'
  <2>1. Cardinality(Started') = Cardinality(Started) + 1
    BY <1>2, <1>4, OneMore DEF Started, Asked
  <2>2. Cardinality(BackingOff) \in Nat /\ Cardinality(Started) \in Nat
    BY ChunkSets DEF BackingOff, Started, Asked
  <2> QED
    BY <1>2, <1>3, <2>1, <2>2 DEF IInv, TypeOK, CallsSoFar, CallsAccounted
<1>7. KnownIdle' /\ QuietOutside'
  BY <1>2, Moved DEF IInv, TypeOK, KnownIdle, QuietOutside, Asked
<1> QED
  BY <1>1, <1>5, <1>6, <1>7 DEF IInv

\* A task that ends gives its slot back, however it ends.
LEMMA EndInvariant ==
    ASSUME IInv, NEW c \in Chunk, task[c] = "calling",
           NEW how \in {"context", "blank", "raised"}, End(c, how),
           UNCHANGED <<input, pc, attempt, llmCalls, retried, result>>
    PROVE  IInv'
<1> USE DEF End, input
<1>1. c \in Started /\ c \in Holders /\ c \notin BackingOff /\ pc = "gathering"
  BY HolderStarted DEF BackingOff
<1>2. Holders' = Holders \ {c} /\ BackingOff' = BackingOff
  BY <1>1, Moved DEF IInv
<1>3. Started' = Started
  BY StartedKept
<1>4. Cardinality(Holders') = Cardinality(Holders) - 1
  BY <1>1, <1>2, OneLess DEF Holders
<1>5. Cardinality(Holders') \in Nat /\ Cardinality(Holders) \in Nat
  BY <1>2, ChunkSets DEF Holders
<1>6. SlotsHeld' /\ free' \in 0..Concurrency
  BY <1>4, <1>5, LimitAssumption DEF IInv, TypeOK, SlotsHeld
<1>7. TypeOK'
  BY <1>6 DEF IInv, TypeOK, At, Finished
<1>8. CallsSoFar'
  BY <1>1, <1>2, <1>3 DEF IInv, CallsSoFar, CallsAccounted
<1>9. KnownIdle' /\ QuietOutside'
  BY <1>1, Moved DEF IInv, TypeOK, KnownIdle, QuietOutside, Started, Asked
<1> QED
  BY <1>6, <1>7, <1>8, <1>9 DEF IInv

LEMMA BackOffInvariant ==
    ASSUME IInv, NEW c \in Chunk, BackOff(c)
    PROVE  IInv'
<1> USE DEF BackOff, input
<1>1. c \in Started /\ c \in Holders /\ c \notin BackingOff /\ pc = "gathering"
  BY HolderStarted DEF BackingOff
<1>2. Holders' = Holders /\ BackingOff' = BackingOff \cup {c} /\ Started' = Started
  BY <1>1, Moved, StartedKept DEF IInv
<1>3. TypeOK'
  <2>1. attempt' \in [Chunk -> 0..MaxRetries]
    BY LimitAssumption DEF IInv, TypeOK, MayRetry
  <2> QED
    BY <2>1 DEF IInv, TypeOK, At
<1>4. CallsSoFar'
  <2>1. Cardinality(BackingOff') = Cardinality(BackingOff) + 1
    BY <1>1, <1>2, OneMore DEF BackingOff
  <2>2. Cardinality(BackingOff) \in Nat /\ Cardinality(Started) \in Nat
    BY ChunkSets DEF BackingOff, Started, Asked
  <2> QED
    BY <1>1, <1>2, <2>1, <2>2 DEF IInv, TypeOK, CallsSoFar, CallsAccounted
<1>5. SlotsHeld' /\ KnownIdle' /\ QuietOutside'
  BY <1>1, <1>2, Moved DEF IInv, TypeOK, SlotsHeld, KnownIdle, QuietOutside, Started, Asked
<1> QED
  BY <1>3, <1>4, <1>5 DEF IInv

LEMMA CallAgainInvariant ==
    ASSUME IInv, NEW c \in Chunk, CallAgain(c)
    PROVE  IInv'
<1> USE DEF CallAgain, input
<1>1. c \in Started /\ c \in Holders /\ c \in BackingOff /\ pc = "gathering"
  BY HolderStarted DEF BackingOff
<1>2. Holders' = Holders /\ BackingOff' = BackingOff \ {c} /\ Started' = Started
  BY <1>1, Moved, StartedKept DEF IInv
<1>3. TypeOK'
  BY DEF IInv, TypeOK, At
<1>4. CallsSoFar'
  <2>1. Cardinality(BackingOff') = Cardinality(BackingOff) - 1
    BY <1>1, <1>2, OneLess DEF BackingOff
  <2>2. Cardinality(BackingOff) \in Nat /\ Cardinality(Started) \in Nat
    BY ChunkSets DEF BackingOff, Started, Asked
  <2> QED
    BY <1>1, <1>2, <2>1, <2>2 DEF IInv, TypeOK, CallsSoFar, CallsAccounted
<1>5. SlotsHeld' /\ KnownIdle' /\ QuietOutside'
  BY <1>1, <1>2, Moved DEF IInv, TypeOK, SlotsHeld, KnownIdle, QuietOutside, Started, Asked
<1> QED
  BY <1>3, <1>4, <1>5 DEF IInv

-----------------------------------------------------------------------------
\* The theorems.

LEMMA NextInvariant == IInv /\ [Next]_vars => IInv'
<1> SUFFICES ASSUME IInv, [Next]_vars PROVE IInv'
  OBVIOUS
<1>1. CASE Caller
  BY <1>1, ReturnNoneInvariant, BeginInvariant, ReturnInvariant DEF Caller
<1>2. CASE Cancel
  BY <1>2, CancelInvariant
<1>3. ASSUME NEW c \in Chunk, Step(c) PROVE IInv'
  <2>1. CASE Call(c)
    BY <2>1, CallInvariant
  <2>2. CASE Answer(c)
    BY <2>2, EndInvariant DEF Answer
  <2>3. CASE BackOff(c)
    BY <2>3, BackOffInvariant
  <2>4. CASE CallAgain(c)
    BY <2>4, CallAgainInvariant
  <2>5. CASE Raise(c)
    BY <2>5, EndInvariant DEF Raise
  <2> QED
    BY <1>3, <2>1, <2>2, <2>3, <2>4, <2>5 DEF Step
<1>4. CASE UNCHANGED vars
  BY <1>4 DEF vars, input, IInv, TypeOK, SlotsHeld, KnownIdle, QuietOutside, CallsSoFar,
     CallsAccounted, Holders, BackingOff, Started, Asked
<1> QED
  BY <1>1, <1>2, <1>3, <1>4 DEF Next

\* Every reachable state satisfies the inductive invariant.
THEOREM ContextsInvariant == Spec => []IInv
<1>1. Init => IInv
  BY InitInvariant
<1>2. IInv /\ [Next]_vars => IInv'
  BY NextInvariant
<1> QED
  BY <1>1, <1>2, PTL DEF Spec

\* The semaphore and its release on every way out of _one keep the calls under
\* way within chunk_context_concurrency, for every document and every limit.
THEOREM StaysWithinConcurrency == Spec => []WithinConcurrency
<1>1. IInv => WithinConcurrency
  <2> SUFFICES ASSUME IInv PROVE WithinConcurrency
    OBVIOUS
  <2>1. Calling \subseteq Holders /\ Holders \subseteq Chunk
    BY DEF Calling, Holders
  <2>2. IsFiniteSet(Holders)
    BY <2>1, ChunkSets
  <2>3. Cardinality(Calling) <= Cardinality(Holders)
    BY <2>1, <2>2, FS_Subset
  <2>4. Cardinality(Calling) \in Nat /\ Cardinality(Holders) \in Nat
    BY <2>1, ChunkSets
  <2> QED
    BY <2>3, <2>4, LimitAssumption DEF IInv, TypeOK, SlotsHeld, WithinConcurrency
<1> QED
  BY <1>1, ContextsInvariant, PTL

\* stats["llm_calls"] is the number of chunks asked about plus that of the
\* retries, whatever the interleaving of calls, failures and back-offs.
THEOREM CallsAreAccounted == Spec => []CallsAccounted
<1>1. IInv => CallsAccounted
  BY DEF IInv, CallsSoFar
<1> QED
  BY <1>1, ContextsInvariant, PTL
=============================================================================
