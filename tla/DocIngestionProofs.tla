------------------------- MODULE DocIngestionProofs -------------------------
(***************************************************************************)
(* Theorems about DocIngestion, for every set of documents, runs and task  *)
(* ids, every MaxChunks, with and without chunk contexts, and whatever     *)
(* failures are injected; and, in the last section, about OwnerAnswers,    *)
(* which runs next to it.                                                  *)
(***************************************************************************)
EXTENDS OwnerAnswers, TLAPS

USE MaxChunksAssumption, ContextAssumption, SentinelAssumption

LEMMA TypeInit == Init => TypeOK
BY DEF Init, TypeOK, Status, PC, NoJob

LEMMA TypeNext == TypeOK /\ [Next]_vars => TypeOK'
<1> SUFFICES ASSUME TypeOK, [Next]_vars PROVE TypeOK'
  OBVIOUS
<1> USE DEF TypeOK, Status, Job, Row, Vector, VectorId, Awaiting, Sync, Active,
            Finished, PC, mysql, local
<1>1. ASSUME NEW r \in Run, NEW d \in Doc, NEW t \in Tag \cup {NoTag},
             Upload(r, d, t)
      PROVE  TypeOK'
  <2>1. PICK u \in Tag \cup {NoTag} : Schedule(r, d, u, FALSE)
    BY <1>1, Zenon DEF Upload
  <2>2. job' \in [Run -> Job \cup {NoJob}] /\ pc' \in [Run -> PC]
    BY <2>1 DEF Schedule
  <2>3. \A q \in Run : pc'[q] # "new" => job'[q] \in Job
    BY <2>1 DEF Schedule
  <2>4. docs' \in [Doc -> Status] /\ docTag' \in [Doc -> Tag \cup {NoTag}]
    <3>1. CASE docs[d] = "NONE"
      BY <1>1, <3>1 DEF Upload
    <3>2. CASE docs[d] # "NONE"
      BY <1>1, <3>2 DEF Upload
    <3> QED
      BY <3>1, <3>2
  <2> QED
    BY <1>1, <2>2, <2>3, <2>4 DEF Upload
<1>2. ASSUME NEW r \in Run, NEW d \in Doc, Retry(r, d) PROVE TypeOK'
  BY <1>2 DEF Retry, Schedule
<1>3. ASSUME NEW r \in Run, Skip(r) PROVE TypeOK'
  BY <1>3 DEF Skip
<1>4. ASSUME NEW r \in Run, StartUnreadable(r) PROVE TypeOK'
  BY <1>4 DEF StartUnreadable, Begin
<1>5. ASSUME NEW r \in Run, StartEmpty(r) PROVE TypeOK'
  BY <1>5 DEF StartEmpty, Begin
<1>6. ASSUME NEW r \in Run, StartChunks(r) PROVE TypeOK'
  BY <1>6 DEF StartChunks, Begin, Vids, RowsOf
<1>7. ASSUME NEW r \in Run, ContextsReady(r) PROVE TypeOK'
  BY <1>7 DEF ContextsReady
<1>8. ASSUME NEW r \in Run, AwaitFails(r) PROVE TypeOK'
  BY <1>8 DEF AwaitFails
<1>9. ASSUME NEW r \in Run, Stage(r) PROVE TypeOK'
  BY <1>9 DEF Stage, FirstId, Vids, RowsOf
<1>10. ASSUME NEW r \in Run, StageFails(r) PROVE TypeOK'
  BY <1>10 DEF StageFails
<1>11. ASSUME NEW r \in Run, AddVector(r) PROVE TypeOK'
  BY <1>11 DEF AddVector, NewVector
<1>12. ASSUME NEW r \in Run, AddFails(r) PROVE TypeOK'
  BY <1>12 DEF AddFails, NewVector, Compensation
<1>13. ASSUME NEW r \in Run, UsageFails(r) PROVE TypeOK'
  BY <1>13 DEF UsageFails, Compensation
<1>14. ASSUME NEW r \in Run, Commit(r) PROVE TypeOK'
  BY SMTT(20), <1>14 DEF Commit, Committed, Invalidated, AtCommit, Leave, NewRows, NewRow, RowsOf
<1>15. ASSUME NEW r \in Run, CommitFails(r) PROVE TypeOK'
  BY <1>15 DEF CommitFails, Committed, Invalidated, AtCommit, NewRows, NewRow, RowsOf
<1>16. ASSUME NEW r \in Run, MarkFailed(r) PROVE TypeOK'
  BY <1>16 DEF MarkFailed, Leave
<1>17. ASSUME NEW r \in Run, DeleteVector(r) PROVE TypeOK'
  BY <1>17 DEF DeleteVector
<1>18. ASSUME NEW r \in Run, DeletesDone(r) PROVE TypeOK'
  BY <1>18 DEF DeletesDone, Leave
<1>19. CASE Rebuild
  BY <1>19 DEF Rebuild, Index
<1>20. CASE Crash
  BY <1>20 DEF Crash
<1>21. CASE UNCHANGED vars
  BY <1>21 DEF vars
<1> QED
  BY <1>1, <1>2, <1>3, <1>4, <1>5, <1>6, <1>7, <1>8, <1>9, <1>10, <1>11, <1>12,
     <1>13, <1>14, <1>15, <1>16, <1>17, <1>18, <1>19, <1>20, <1>21
  DEF Next, Request, Work

\* The variables keep their shape: statuses, rows, vectors and run records are
\* well formed in every reachable state.
THEOREM TypeCorrect == Spec => []TypeOK
<1>1. QED BY TypeInit, TypeNext, PTL DEF Spec

-----------------------------------------------------------------------------
(***************************************************************************)
(* The inductive invariant.  RowsHaveVectors is not inductive: that the    *)
(* vectors deleted after a commit belong to no row any more rests on the   *)
(* old rows having been all the rows of the document (SnapshotInv), which  *)
(* rests on one run per document (FlightInv) and one run per synchronous   *)
(* section (LoopInv), and on every row being traceable to its run          *)
(* (RowsInv), which wrote it once and for all (FreshInv).                  *)
(***************************************************************************)

\* States of a run before its store step, and before its commit.
Before == {"new", "queued", "context", "embedding"}
Uncommitted == Before \cup {"adding", "empty", "compensating"}

\* Only the holder of the loop is inside a synchronous section.
LoopInv == \A r \in Run : pc[r] \in Sync <=> loop = r

\* Two runs under way never share a document.
FlightInv ==
    /\ InFlightExact
    /\ \A r, q \in Run : pc[r] \in Active /\ pc[q] \in Active
                            /\ job[r].doc = job[q].doc => r = q

\* A run that has not committed owns no row.
FreshInv == \A r \in Run : pc[r] \in Uncommitted =>
               \A row \in rows : row.vid[1] # r

\* Every row is one of the chunks its run staged.
RowsInv == \A row \in rows : \E k \in 1..size[row.vid[1]] :
              row = NewRow(row.vid[1], k)

\* What a run took for the old rows are the rows of its document, from the
\* moment it read them to its commit.
SnapshotInv ==
    \A r \in Run :
        \/ pc[r] \in {"context", "adding"}
        \/ pc[r] = "embedding" /\ ContextEnabled
        => old[r] = Vids(RowsOf(job[r].doc))

\* The vectors a run has added so far are in Chroma.
AddedInv ==
    \A r \in Run :
        /\ pc[r] \in Before => added[r] = 0
        /\ pc[r] \in {"context", "embedding", "adding"} => size[r] >= 1
        /\ pc[r] = "adding" =>
             /\ added[r] <= size[r]
             /\ \A k \in 1..added[r] : NewVector(r, k) \in vectors

\* No vector that is going to be deleted belongs to a committed row.
TodoInv ==
    \A r \in Run :
        /\ pc[r] \in Before \cup {"adding", "empty"} => todo[r] = {}
        /\ pc[r] \in {"compensating", "cleanup"} => todo[r] \cap Vids(rows) = {}

\* An index rests on a select made since the last commit, from whatever read view.
IndexInv == \A i \in bm25 : i.since = rows

IInv ==
    /\ TypeOK /\ LoopInv /\ FlightInv /\ FreshInv /\ RowsInv /\ SnapshotInv
    /\ AddedInv /\ TodoInv /\ RowsHaveVectors /\ DocumentsWhole /\ IndexInv


\* What a commit that MySQL applied leaves: the rows of a run with chunks take
\* the place of the document's rows; a run without chunks changes no row.
LEMMA CommitEffect ==
    ASSUME IInv, NEW r \in Run, AtCommit(r), Committed(r)
    PROVE  /\ pc[r] = "adding" =>
                rows' = (rows \ RowsOf(job[r].doc)) \cup NewRows(r)
           /\ pc[r] = "empty" => rows' = rows
<1>1. ASSUME pc[r] = "adding", old[r] = {} PROVE RowsOf(job[r].doc) = {}
  BY <1>1 DEF IInv, SnapshotInv, Vids
<1> QED
  BY <1>1 DEF AtCommit, Committed

LEMMA LoopNext == IInv /\ [Next]_vars => LoopInv'
<1> SUFFICES ASSUME IInv, [Next]_vars PROVE LoopInv'
  OBVIOUS
<1> USE DEF IInv, LoopInv, TypeOK, Status, Job, Row, Vector, VectorId, PC, Active,
   Awaiting, Sync,
             Finished, mysql, local
<1>1. ASSUME NEW r \in Run, NEW d \in Doc, NEW t \in Tag \cup {NoTag},
             Upload(r, d, t)
      PROVE LoopInv'
  BY <1>1 DEF Upload, Schedule
<1>2. ASSUME NEW r \in Run, NEW d \in Doc, Retry(r, d) PROVE LoopInv'
  BY <1>2 DEF Retry, Schedule
<1>3. ASSUME NEW r \in Run, Skip(r) PROVE LoopInv'
  BY <1>3 DEF Skip
<1>4. ASSUME NEW r \in Run, StartUnreadable(r) PROVE LoopInv'
  BY <1>4 DEF StartUnreadable, Begin
<1>5. ASSUME NEW r \in Run, StartEmpty(r) PROVE LoopInv'
  BY <1>5 DEF StartEmpty, Begin
<1>6. ASSUME NEW r \in Run, StartChunks(r) PROVE LoopInv'
  BY <1>6 DEF StartChunks, Begin
<1>7. ASSUME NEW r \in Run, ContextsReady(r) PROVE LoopInv'
  BY <1>7 DEF ContextsReady
<1>8. ASSUME NEW r \in Run, AwaitFails(r) PROVE LoopInv'
  BY <1>8 DEF AwaitFails
<1>9. ASSUME NEW r \in Run, Stage(r) PROVE LoopInv'
  BY <1>9 DEF Stage, FirstId
<1>10. ASSUME NEW r \in Run, StageFails(r) PROVE LoopInv'
  BY <1>10 DEF StageFails
<1>11. ASSUME NEW r \in Run, AddVector(r) PROVE LoopInv'
  BY <1>11 DEF AddVector
<1>12. ASSUME NEW r \in Run, AddFails(r) PROVE LoopInv'
  BY <1>12 DEF AddFails, Compensation
<1>13. ASSUME NEW r \in Run, UsageFails(r) PROVE LoopInv'
  BY <1>13 DEF UsageFails, Compensation
<1>14. ASSUME NEW r \in Run, Commit(r) PROVE LoopInv'
  BY <1>14 DEF Commit, Committed, Invalidated, AtCommit, Leave
<1>15. ASSUME NEW r \in Run, CommitFails(r) PROVE LoopInv'
  BY <1>15 DEF CommitFails, Committed, Invalidated, AtCommit
<1>16. ASSUME NEW r \in Run, MarkFailed(r) PROVE LoopInv'
  BY <1>16 DEF MarkFailed, Leave
<1>17. ASSUME NEW r \in Run, DeleteVector(r) PROVE LoopInv'
  BY <1>17 DEF DeleteVector
<1>18. ASSUME NEW r \in Run, DeletesDone(r) PROVE LoopInv'
  BY <1>18 DEF DeletesDone, Leave
<1>19. CASE Rebuild
  BY <1>19 DEF Rebuild
<1>20. CASE Crash
  BY <1>20 DEF Crash
<1>21. CASE UNCHANGED vars
  BY <1>21 DEF vars
<1> QED
  BY <1>1, <1>2, <1>3, <1>4, <1>5, <1>6, <1>7, <1>8, <1>9, <1>10, <1>11, <1>12, <1>13,
     <1>14, <1>15, <1>16, <1>17, <1>18, <1>19, <1>20, <1>21 DEF Next, Request, Work

LEMMA FlightNext == IInv /\ [Next]_vars => FlightInv'
<1> SUFFICES ASSUME IInv, [Next]_vars PROVE FlightInv'
  OBVIOUS
<1> USE DEF IInv, LoopInv, FlightInv, InFlightExact, TypeOK, Status, Job, Row, Vector,
   VectorId, PC, Active, Awaiting, Sync,
             Finished, mysql, local
<1>1. ASSUME NEW r \in Run, NEW d \in Doc, NEW t \in Tag \cup {NoTag},
             Upload(r, d, t)
      PROVE FlightInv'
  BY <1>1 DEF Upload, Schedule
<1>2. ASSUME NEW r \in Run, NEW d \in Doc, Retry(r, d) PROVE FlightInv'
  BY <1>2 DEF Retry, Schedule
<1>3. ASSUME NEW r \in Run, Skip(r) PROVE FlightInv'
  BY <1>3 DEF Skip
<1>4. ASSUME NEW r \in Run, StartUnreadable(r) PROVE FlightInv'
  BY <1>4 DEF StartUnreadable, Begin
<1>5. ASSUME NEW r \in Run, StartEmpty(r) PROVE FlightInv'
  BY <1>5 DEF StartEmpty, Begin
<1>6. ASSUME NEW r \in Run, StartChunks(r) PROVE FlightInv'
  BY <1>6 DEF StartChunks, Begin
<1>7. ASSUME NEW r \in Run, ContextsReady(r) PROVE FlightInv'
  BY <1>7 DEF ContextsReady
<1>8. ASSUME NEW r \in Run, AwaitFails(r) PROVE FlightInv'
  BY <1>8 DEF AwaitFails
<1>9. ASSUME NEW r \in Run, Stage(r) PROVE FlightInv'
  BY <1>9 DEF Stage, FirstId
<1>10. ASSUME NEW r \in Run, StageFails(r) PROVE FlightInv'
  BY <1>10 DEF StageFails
<1>11. ASSUME NEW r \in Run, AddVector(r) PROVE FlightInv'
  BY <1>11 DEF AddVector
<1>12. ASSUME NEW r \in Run, AddFails(r) PROVE FlightInv'
  BY <1>12 DEF AddFails, Compensation
<1>13. ASSUME NEW r \in Run, UsageFails(r) PROVE FlightInv'
  BY <1>13 DEF UsageFails, Compensation
<1>14. ASSUME NEW r \in Run, Commit(r) PROVE FlightInv'
  BY <1>14 DEF Commit, Committed, Invalidated, AtCommit, Leave
<1>15. ASSUME NEW r \in Run, CommitFails(r) PROVE FlightInv'
  BY <1>15 DEF CommitFails, Committed, Invalidated, AtCommit
<1>16. ASSUME NEW r \in Run, MarkFailed(r) PROVE FlightInv'
  BY <1>16 DEF MarkFailed, Leave
<1>17. ASSUME NEW r \in Run, DeleteVector(r) PROVE FlightInv'
  BY <1>17 DEF DeleteVector
<1>18. ASSUME NEW r \in Run, DeletesDone(r) PROVE FlightInv'
  BY <1>18 DEF DeletesDone, Leave
<1>19. CASE Rebuild
  BY <1>19 DEF Rebuild
<1>20. CASE Crash
  BY <1>20 DEF Crash
<1>21. CASE UNCHANGED vars
  BY <1>21 DEF vars
<1> QED
  BY <1>1, <1>2, <1>3, <1>4, <1>5, <1>6, <1>7, <1>8, <1>9, <1>10, <1>11, <1>12, <1>13,
     <1>14, <1>15, <1>16, <1>17, <1>18, <1>19, <1>20, <1>21 DEF Next, Request, Work

LEMMA FreshNext == IInv /\ [Next]_vars => FreshInv'
<1> SUFFICES ASSUME IInv, [Next]_vars PROVE FreshInv'
  OBVIOUS
<1> USE DEF IInv, LoopInv, FlightInv, FreshInv, Uncommitted, Before, TypeOK, Status, Job,
   Row, Vector, VectorId, PC, Active, Awaiting, Sync,
             Finished, mysql, local
<1>1. ASSUME NEW r \in Run, NEW d \in Doc, NEW t \in Tag \cup {NoTag},
             Upload(r, d, t)
      PROVE FreshInv'
  BY <1>1 DEF Upload, Schedule
<1>2. ASSUME NEW r \in Run, NEW d \in Doc, Retry(r, d) PROVE FreshInv'
  BY <1>2 DEF Retry, Schedule
<1>3. ASSUME NEW r \in Run, Skip(r) PROVE FreshInv'
  BY <1>3 DEF Skip
<1>4. ASSUME NEW r \in Run, StartUnreadable(r) PROVE FreshInv'
  BY <1>4 DEF StartUnreadable, Begin
<1>5. ASSUME NEW r \in Run, StartEmpty(r) PROVE FreshInv'
  BY <1>5 DEF StartEmpty, Begin
<1>6. ASSUME NEW r \in Run, StartChunks(r) PROVE FreshInv'
  BY <1>6 DEF StartChunks, Begin
<1>7. ASSUME NEW r \in Run, ContextsReady(r) PROVE FreshInv'
  BY <1>7 DEF ContextsReady
<1>8. ASSUME NEW r \in Run, AwaitFails(r) PROVE FreshInv'
  BY <1>8 DEF AwaitFails
<1>9. ASSUME NEW r \in Run, Stage(r) PROVE FreshInv'
  BY <1>9 DEF Stage, FirstId
<1>10. ASSUME NEW r \in Run, StageFails(r) PROVE FreshInv'
  BY <1>10 DEF StageFails
<1>11. ASSUME NEW r \in Run, AddVector(r) PROVE FreshInv'
  BY <1>11 DEF AddVector
<1>12. ASSUME NEW r \in Run, AddFails(r) PROVE FreshInv'
  BY <1>12 DEF AddFails, Compensation
<1>13. ASSUME NEW r \in Run, UsageFails(r) PROVE FreshInv'
  BY <1>13 DEF UsageFails, Compensation
<1>14. ASSUME NEW r \in Run, Commit(r) PROVE FreshInv'
  BY <1>14 DEF Commit, Committed, Invalidated, AtCommit, Leave, NewRows, NewRow, RowsOf
<1>15. ASSUME NEW r \in Run, CommitFails(r) PROVE FreshInv'
  BY <1>15 DEF CommitFails, Committed, Invalidated, AtCommit, NewRows, NewRow, RowsOf
<1>16. ASSUME NEW r \in Run, MarkFailed(r) PROVE FreshInv'
  BY <1>16 DEF MarkFailed, Leave
<1>17. ASSUME NEW r \in Run, DeleteVector(r) PROVE FreshInv'
  BY <1>17 DEF DeleteVector
<1>18. ASSUME NEW r \in Run, DeletesDone(r) PROVE FreshInv'
  BY <1>18 DEF DeletesDone, Leave
<1>19. CASE Rebuild
  BY <1>19 DEF Rebuild
<1>20. CASE Crash
  BY <1>20 DEF Crash
<1>21. CASE UNCHANGED vars
  BY <1>21 DEF vars
<1> QED
  BY <1>1, <1>2, <1>3, <1>4, <1>5, <1>6, <1>7, <1>8, <1>9, <1>10, <1>11, <1>12, <1>13,
     <1>14, <1>15, <1>16, <1>17, <1>18, <1>19, <1>20, <1>21 DEF Next, Request, Work

LEMMA RowsNext == IInv /\ [Next]_vars => RowsInv'
<1> SUFFICES ASSUME IInv, [Next]_vars PROVE RowsInv'
  OBVIOUS
<1> USE DEF IInv, LoopInv, FreshInv, RowsInv, Uncommitted, Before, NewRow, TypeOK, Status,
   Job, Row, Vector, VectorId, PC, Active, Awaiting, Sync,
             Finished, mysql, local
<1>1. ASSUME NEW r \in Run, NEW d \in Doc, NEW t \in Tag \cup {NoTag},
             Upload(r, d, t)
      PROVE RowsInv'
  BY <1>1 DEF Upload, Schedule
<1>2. ASSUME NEW r \in Run, NEW d \in Doc, Retry(r, d) PROVE RowsInv'
  BY <1>2 DEF Retry, Schedule
<1>3. ASSUME NEW r \in Run, Skip(r) PROVE RowsInv'
  BY <1>3 DEF Skip
<1>4. ASSUME NEW r \in Run, StartUnreadable(r) PROVE RowsInv'
  BY <1>4 DEF StartUnreadable, Begin
<1>5. ASSUME NEW r \in Run, StartEmpty(r) PROVE RowsInv'
  BY <1>5 DEF StartEmpty, Begin
<1>6. ASSUME NEW r \in Run, StartChunks(r) PROVE RowsInv'
  BY <1>6 DEF StartChunks, Begin
<1>7. ASSUME NEW r \in Run, ContextsReady(r) PROVE RowsInv'
  BY <1>7 DEF ContextsReady
<1>8. ASSUME NEW r \in Run, AwaitFails(r) PROVE RowsInv'
  BY <1>8 DEF AwaitFails
<1>9. ASSUME NEW r \in Run, Stage(r) PROVE RowsInv'
  BY <1>9 DEF Stage, FirstId
<1>10. ASSUME NEW r \in Run, StageFails(r) PROVE RowsInv'
  BY <1>10 DEF StageFails
<1>11. ASSUME NEW r \in Run, AddVector(r) PROVE RowsInv'
  BY <1>11 DEF AddVector
<1>12. ASSUME NEW r \in Run, AddFails(r) PROVE RowsInv'
  BY <1>12 DEF AddFails, Compensation
<1>13. ASSUME NEW r \in Run, UsageFails(r) PROVE RowsInv'
  BY <1>13 DEF UsageFails, Compensation
<1>14. ASSUME NEW r \in Run, Commit(r) PROVE RowsInv'
  BY <1>14 DEF Commit, Committed, Invalidated, AtCommit, Leave, NewRows, NewRow, RowsOf,
     Vids
<1>15. ASSUME NEW r \in Run, CommitFails(r) PROVE RowsInv'
  BY <1>15 DEF CommitFails, Committed, Invalidated, AtCommit, NewRows, NewRow, RowsOf, Vids
<1>16. ASSUME NEW r \in Run, MarkFailed(r) PROVE RowsInv'
  BY <1>16 DEF MarkFailed, Leave
<1>17. ASSUME NEW r \in Run, DeleteVector(r) PROVE RowsInv'
  BY <1>17 DEF DeleteVector
<1>18. ASSUME NEW r \in Run, DeletesDone(r) PROVE RowsInv'
  BY <1>18 DEF DeletesDone, Leave
<1>19. CASE Rebuild
  BY <1>19 DEF Rebuild
<1>20. CASE Crash
  BY <1>20 DEF Crash
<1>21. CASE UNCHANGED vars
  BY <1>21 DEF vars
<1> QED
  BY <1>1, <1>2, <1>3, <1>4, <1>5, <1>6, <1>7, <1>8, <1>9, <1>10, <1>11, <1>12, <1>13,
     <1>14, <1>15, <1>16, <1>17, <1>18, <1>19, <1>20, <1>21 DEF Next, Request, Work

LEMMA SnapshotNext == IInv /\ [Next]_vars => SnapshotInv'
<1> SUFFICES ASSUME IInv, [Next]_vars PROVE SnapshotInv'
  OBVIOUS
<1> USE DEF IInv, LoopInv, FlightInv, InFlightExact, SnapshotInv, Before, RowsOf,
             Vids, TypeOK, Status, Job, Row, Vector, VectorId, PC, Active, Awaiting, Sync,
             Finished, mysql, local
<1>1. ASSUME NEW r \in Run, NEW d \in Doc, NEW t \in Tag \cup {NoTag},
             Upload(r, d, t)
      PROVE SnapshotInv'
  BY <1>1 DEF Upload, Schedule
<1>2. ASSUME NEW r \in Run, NEW d \in Doc, Retry(r, d) PROVE SnapshotInv'
  BY <1>2 DEF Retry, Schedule
<1>3. ASSUME NEW r \in Run, Skip(r) PROVE SnapshotInv'
  BY <1>3 DEF Skip
<1>4. ASSUME NEW r \in Run, StartUnreadable(r) PROVE SnapshotInv'
  BY <1>4 DEF StartUnreadable, Begin
<1>5. ASSUME NEW r \in Run, StartEmpty(r) PROVE SnapshotInv'
  BY <1>5 DEF StartEmpty, Begin
<1>6. ASSUME NEW r \in Run, StartChunks(r) PROVE SnapshotInv'
  BY <1>6 DEF StartChunks, Begin
<1>7. ASSUME NEW r \in Run, ContextsReady(r) PROVE SnapshotInv'
  BY <1>7 DEF ContextsReady
<1>8. ASSUME NEW r \in Run, AwaitFails(r) PROVE SnapshotInv'
  BY <1>8 DEF AwaitFails
<1>9. ASSUME NEW r \in Run, Stage(r) PROVE SnapshotInv'
  BY <1>9 DEF Stage, FirstId
<1>10. ASSUME NEW r \in Run, StageFails(r) PROVE SnapshotInv'
  BY <1>10 DEF StageFails
<1>11. ASSUME NEW r \in Run, AddVector(r) PROVE SnapshotInv'
  BY <1>11 DEF AddVector
<1>12. ASSUME NEW r \in Run, AddFails(r) PROVE SnapshotInv'
  BY <1>12 DEF AddFails, Compensation
<1>13. ASSUME NEW r \in Run, UsageFails(r) PROVE SnapshotInv'
  BY <1>13 DEF UsageFails, Compensation
<1>14. ASSUME NEW r \in Run, Commit(r) PROVE SnapshotInv'
  BY <1>14 DEF Commit, Committed, Invalidated, AtCommit, Leave, NewRows, NewRow
<1>15. ASSUME NEW r \in Run, CommitFails(r) PROVE SnapshotInv'
  BY <1>15 DEF CommitFails, Committed, Invalidated, AtCommit, NewRows, NewRow
<1>16. ASSUME NEW r \in Run, MarkFailed(r) PROVE SnapshotInv'
  BY <1>16 DEF MarkFailed, Leave
<1>17. ASSUME NEW r \in Run, DeleteVector(r) PROVE SnapshotInv'
  BY <1>17 DEF DeleteVector
<1>18. ASSUME NEW r \in Run, DeletesDone(r) PROVE SnapshotInv'
  BY <1>18 DEF DeletesDone, Leave
<1>19. CASE Rebuild
  BY <1>19 DEF Rebuild
<1>20. CASE Crash
  BY <1>20 DEF Crash
<1>21. CASE UNCHANGED vars
  BY <1>21 DEF vars
<1> QED
  BY <1>1, <1>2, <1>3, <1>4, <1>5, <1>6, <1>7, <1>8, <1>9, <1>10, <1>11, <1>12, <1>13,
     <1>14, <1>15, <1>16, <1>17, <1>18, <1>19, <1>20, <1>21 DEF Next, Request, Work

LEMMA AddedNext == IInv /\ [Next]_vars => AddedInv'
<1> SUFFICES ASSUME IInv, [Next]_vars PROVE AddedInv'
  OBVIOUS
<1> USE DEF IInv, LoopInv, AddedInv, Before, NewVector, TypeOK, Status, Job, Row, Vector,
   VectorId, PC, Active, Awaiting, Sync,
             Finished, mysql, local
<1>1. ASSUME NEW r \in Run, NEW d \in Doc, NEW t \in Tag \cup {NoTag},
             Upload(r, d, t)
      PROVE AddedInv'
  BY <1>1 DEF Upload, Schedule
<1>2. ASSUME NEW r \in Run, NEW d \in Doc, Retry(r, d) PROVE AddedInv'
  BY <1>2 DEF Retry, Schedule
<1>3. ASSUME NEW r \in Run, Skip(r) PROVE AddedInv'
  BY <1>3 DEF Skip
<1>4. ASSUME NEW r \in Run, StartUnreadable(r) PROVE AddedInv'
  BY <1>4 DEF StartUnreadable, Begin
<1>5. ASSUME NEW r \in Run, StartEmpty(r) PROVE AddedInv'
  BY <1>5 DEF StartEmpty, Begin
<1>6. ASSUME NEW r \in Run, StartChunks(r) PROVE AddedInv'
  BY <1>6 DEF StartChunks, Begin
<1>7. ASSUME NEW r \in Run, ContextsReady(r) PROVE AddedInv'
  BY <1>7 DEF ContextsReady
<1>8. ASSUME NEW r \in Run, AwaitFails(r) PROVE AddedInv'
  BY <1>8 DEF AwaitFails
<1>9. ASSUME NEW r \in Run, Stage(r) PROVE AddedInv'
  BY <1>9 DEF Stage, FirstId
<1>10. ASSUME NEW r \in Run, StageFails(r) PROVE AddedInv'
  BY <1>10 DEF StageFails
<1>11. ASSUME NEW r \in Run, AddVector(r) PROVE AddedInv'
  <2>1. pc' = pc /\ size' = size /\ base' = base
    BY <1>11 DEF AddVector
  <2>2. vectors' = vectors \cup {NewVector(r, added[r] + 1)}
    BY <1>11 DEF AddVector
  <2>3. pc[r] = "adding" /\ added[r] < size[r]
    BY <1>11 DEF AddVector
  <2>4. added'[r] = added[r] + 1 /\ \A q \in Run \ {r} : added'[q] = added[q]
    BY <1>11 DEF AddVector
  <2>5. added[r] \in Nat /\ size[r] \in Nat
    OBVIOUS
  <2>6. added'[r] <= size'[r]
    BY <2>1, <2>3, <2>4, <2>5
  <2>7. ASSUME NEW k \in 1..added'[r] PROVE NewVector(r, k)' \in vectors'
    <3>1. k \in 1..added[r] \/ k = added[r] + 1
      BY <2>4, <2>5
    <3> QED
      BY <2>1, <2>2, <2>3, <3>1
  <2> QED
    BY <2>1, <2>2, <2>3, <2>4, <2>6, <2>7
<1>12. ASSUME NEW r \in Run, AddFails(r) PROVE AddedInv'
  BY <1>12 DEF AddFails, Compensation
<1>13. ASSUME NEW r \in Run, UsageFails(r) PROVE AddedInv'
  BY <1>13 DEF UsageFails, Compensation
<1>14. ASSUME NEW r \in Run, Commit(r) PROVE AddedInv'
  BY <1>14 DEF Commit, Committed, Invalidated, AtCommit, Leave
<1>15. ASSUME NEW r \in Run, CommitFails(r) PROVE AddedInv'
  BY <1>15 DEF CommitFails, Committed, Invalidated, AtCommit
<1>16. ASSUME NEW r \in Run, MarkFailed(r) PROVE AddedInv'
  BY <1>16 DEF MarkFailed, Leave
<1>17. ASSUME NEW r \in Run, DeleteVector(r) PROVE AddedInv'
  BY <1>17 DEF DeleteVector
<1>18. ASSUME NEW r \in Run, DeletesDone(r) PROVE AddedInv'
  BY <1>18 DEF DeletesDone, Leave
<1>19. CASE Rebuild
  BY <1>19 DEF Rebuild
<1>20. CASE Crash
  BY <1>20 DEF Crash
<1>21. CASE UNCHANGED vars
  BY <1>21 DEF vars
<1> QED
  BY <1>1, <1>2, <1>3, <1>4, <1>5, <1>6, <1>7, <1>8, <1>9, <1>10, <1>11, <1>12, <1>13,
     <1>14, <1>15, <1>16, <1>17, <1>18, <1>19, <1>20, <1>21 DEF Next, Request, Work

LEMMA TodoNext == IInv /\ [Next]_vars => TodoInv'
<1> SUFFICES ASSUME IInv, [Next]_vars PROVE TodoInv'
  OBVIOUS
<1> USE DEF IInv, LoopInv, FreshInv, TodoInv, Uncommitted, Before, Vids, TypeOK, Status,
   Job, Row, Vector, VectorId, PC, Active, Awaiting, Sync,
             Finished, mysql, local
<1>1. ASSUME NEW r \in Run, NEW d \in Doc, NEW t \in Tag \cup {NoTag},
             Upload(r, d, t)
      PROVE TodoInv'
  BY <1>1 DEF Upload, Schedule
<1>2. ASSUME NEW r \in Run, NEW d \in Doc, Retry(r, d) PROVE TodoInv'
  BY <1>2 DEF Retry, Schedule
<1>3. ASSUME NEW r \in Run, Skip(r) PROVE TodoInv'
  BY <1>3 DEF Skip
<1>4. ASSUME NEW r \in Run, StartUnreadable(r) PROVE TodoInv'
  BY <1>4 DEF StartUnreadable, Begin
<1>5. ASSUME NEW r \in Run, StartEmpty(r) PROVE TodoInv'
  BY <1>5 DEF StartEmpty, Begin
<1>6. ASSUME NEW r \in Run, StartChunks(r) PROVE TodoInv'
  BY <1>6 DEF StartChunks, Begin
<1>7. ASSUME NEW r \in Run, ContextsReady(r) PROVE TodoInv'
  BY <1>7 DEF ContextsReady
<1>8. ASSUME NEW r \in Run, AwaitFails(r) PROVE TodoInv'
  BY <1>8 DEF AwaitFails
<1>9. ASSUME NEW r \in Run, Stage(r) PROVE TodoInv'
  BY <1>9 DEF Stage, FirstId
<1>10. ASSUME NEW r \in Run, StageFails(r) PROVE TodoInv'
  BY <1>10 DEF StageFails
<1>11. ASSUME NEW r \in Run, AddVector(r) PROVE TodoInv'
  BY <1>11 DEF AddVector
<1>12. ASSUME NEW r \in Run, AddFails(r) PROVE TodoInv'
  BY <1>12 DEF AddFails, Compensation
<1>13. ASSUME NEW r \in Run, UsageFails(r) PROVE TodoInv'
  BY <1>13 DEF UsageFails, Compensation
<1>14. ASSUME NEW r \in Run, Commit(r) PROVE TodoInv'
  <2>1. /\ pc[r] = "adding" => rows' = (rows \ RowsOf(job[r].doc)) \cup NewRows(r)
        /\ pc[r] = "empty" => rows' = rows
    BY <1>14, CommitEffect DEF Commit
  <2>2. ASSUME pc[r] = "adding", NEW v \in old[r], NEW row \in rows', row.vid = v
        PROVE  FALSE
    <3>1. PICK w \in rows : w.vid = v /\ w.doc = job[r].doc
      BY <2>2 DEF SnapshotInv, Vids, RowsOf
    <3>2. CASE row \in NewRows(r)
      BY <2>2, <3>1, <3>2 DEF NewRows, NewRow
    <3>3. CASE row \in rows \ RowsOf(job[r].doc)
      BY <2>2, <3>1, <3>3 DEF RowsInv, NewRow, RowsOf
    <3> QED
      BY <2>1, <2>2, <3>2, <3>3
  <2>3. ASSUME NEW q \in Run, pc'[q] \in {"compensating", "cleanup"}
        PROVE  q = r /\ pc[r] = "adding" /\ todo'[r] = old[r]
    BY <1>14, <2>3 DEF Commit, AtCommit, Leave
  <2>4. ASSUME NEW q \in Run, pc'[q] \in Before \cup {"adding", "empty"}
        PROVE  todo'[q] = {}
    BY <1>14, <2>4 DEF Commit, AtCommit, Leave
  <2> QED
    BY <2>2, <2>3, <2>4 DEF Vids
<1>15. ASSUME NEW r \in Run, CommitFails(r) PROVE TodoInv'
  BY <1>15 DEF CommitFails, Committed, Invalidated, AtCommit, NewRows, NewRow, RowsOf, Vids
<1>16. ASSUME NEW r \in Run, MarkFailed(r) PROVE TodoInv'
  BY <1>16 DEF MarkFailed, Leave
<1>17. ASSUME NEW r \in Run, DeleteVector(r) PROVE TodoInv'
  BY <1>17 DEF DeleteVector
<1>18. ASSUME NEW r \in Run, DeletesDone(r) PROVE TodoInv'
  BY <1>18 DEF DeletesDone, Leave
<1>19. CASE Rebuild
  BY <1>19 DEF Rebuild
<1>20. CASE Crash
  BY <1>20 DEF Crash
<1>21. CASE UNCHANGED vars
  BY <1>21 DEF vars
<1> QED
  BY <1>1, <1>2, <1>3, <1>4, <1>5, <1>6, <1>7, <1>8, <1>9, <1>10, <1>11, <1>12, <1>13,
     <1>14, <1>15, <1>16, <1>17, <1>18, <1>19, <1>20, <1>21 DEF Next, Request, Work

LEMMA RowsHaveVectorsNext == IInv /\ [Next]_vars => RowsHaveVectors'
<1> SUFFICES ASSUME IInv, [Next]_vars PROVE RowsHaveVectors'
  OBVIOUS
<1> USE DEF IInv, RowsHaveVectors, Before, NewVector, TypeOK, Status, Job, Row, Vector,
   VectorId, PC, Active, Awaiting, Sync,
             Finished, mysql, local
<1>1. ASSUME NEW r \in Run, NEW d \in Doc, NEW t \in Tag \cup {NoTag},
             Upload(r, d, t)
      PROVE RowsHaveVectors'
  BY <1>1 DEF Upload, Schedule
<1>2. ASSUME NEW r \in Run, NEW d \in Doc, Retry(r, d) PROVE RowsHaveVectors'
  BY <1>2 DEF Retry, Schedule
<1>3. ASSUME NEW r \in Run, Skip(r) PROVE RowsHaveVectors'
  BY <1>3 DEF Skip
<1>4. ASSUME NEW r \in Run, StartUnreadable(r) PROVE RowsHaveVectors'
  BY <1>4 DEF StartUnreadable, Begin
<1>5. ASSUME NEW r \in Run, StartEmpty(r) PROVE RowsHaveVectors'
  BY <1>5 DEF StartEmpty, Begin
<1>6. ASSUME NEW r \in Run, StartChunks(r) PROVE RowsHaveVectors'
  BY <1>6 DEF StartChunks, Begin
<1>7. ASSUME NEW r \in Run, ContextsReady(r) PROVE RowsHaveVectors'
  BY <1>7 DEF ContextsReady
<1>8. ASSUME NEW r \in Run, AwaitFails(r) PROVE RowsHaveVectors'
  BY <1>8 DEF AwaitFails
<1>9. ASSUME NEW r \in Run, Stage(r) PROVE RowsHaveVectors'
  BY <1>9 DEF Stage, FirstId
<1>10. ASSUME NEW r \in Run, StageFails(r) PROVE RowsHaveVectors'
  BY <1>10 DEF StageFails
<1>11. ASSUME NEW r \in Run, AddVector(r) PROVE RowsHaveVectors'
  BY <1>11 DEF AddVector
<1>12. ASSUME NEW r \in Run, AddFails(r) PROVE RowsHaveVectors'
  BY <1>12 DEF AddFails, Compensation
<1>13. ASSUME NEW r \in Run, UsageFails(r) PROVE RowsHaveVectors'
  BY <1>13 DEF UsageFails, Compensation
<1>14. ASSUME NEW r \in Run, Commit(r) PROVE RowsHaveVectors'
  <2>1. AtCommit(r) /\ vectors' = vectors
    BY <1>14 DEF Commit
  <2>2. /\ pc[r] = "adding" => rows' = (rows \ RowsOf(job[r].doc)) \cup NewRows(r)
        /\ pc[r] = "empty" => rows' = rows
    BY <1>14, CommitEffect DEF Commit
  <2>3. ASSUME pc[r] = "adding", NEW row \in NewRows(r)
        PROVE  [vid |-> row.vid, chunk |-> row.id] \in vectors
    BY <2>1, <2>3 DEF AddedInv, NewRows, NewRow, AtCommit
  <2> QED
    BY <2>1, <2>2, <2>3 DEF RowsOf, AtCommit
<1>15. ASSUME NEW r \in Run, CommitFails(r) PROVE RowsHaveVectors'
  <2>1. AtCommit(r) /\ vectors' = vectors
    BY <1>15 DEF CommitFails
  <2>2. \/ /\ pc[r] = "adding" => rows' = (rows \ RowsOf(job[r].doc)) \cup NewRows(r)
           /\ pc[r] = "empty" => rows' = rows
        \/ rows' = rows
    BY <1>15, CommitEffect DEF CommitFails
  <2>3. ASSUME pc[r] = "adding", NEW row \in NewRows(r)
        PROVE  [vid |-> row.vid, chunk |-> row.id] \in vectors
    BY <2>1, <2>3 DEF AddedInv, NewRows, NewRow, AtCommit
  <2> QED
    BY <2>1, <2>2, <2>3 DEF RowsOf, AtCommit
<1>16. ASSUME NEW r \in Run, MarkFailed(r) PROVE RowsHaveVectors'
  BY <1>16 DEF MarkFailed, Leave
<1>17. ASSUME NEW r \in Run, DeleteVector(r) PROVE RowsHaveVectors'
  <2>1. PICK v \in todo[r] : \/ vectors' = {x \in vectors : x.vid # v}
                             \/ vectors' = vectors
    BY <1>17 DEF DeleteVector
  <2>2. rows' = rows /\ v \notin Vids(rows)
    BY <1>17 DEF DeleteVector, TodoInv
  <2> QED
    BY <2>1, <2>2 DEF Vids
<1>18. ASSUME NEW r \in Run, DeletesDone(r) PROVE RowsHaveVectors'
  BY <1>18 DEF DeletesDone, Leave
<1>19. CASE Rebuild
  BY <1>19 DEF Rebuild
<1>20. CASE Crash
  BY <1>20 DEF Crash
<1>21. CASE UNCHANGED vars
  BY <1>21 DEF vars
<1> QED
  BY <1>1, <1>2, <1>3, <1>4, <1>5, <1>6, <1>7, <1>8, <1>9, <1>10, <1>11, <1>12, <1>13,
     <1>14, <1>15, <1>16, <1>17, <1>18, <1>19, <1>20, <1>21 DEF Next, Request, Work

LEMMA DocumentsWholeNext == IInv /\ [Next]_vars => DocumentsWhole'
<1> SUFFICES ASSUME IInv, [Next]_vars PROVE DocumentsWhole'
  OBVIOUS
<1> USE DEF IInv, LoopInv, FreshInv, RowsInv, DocumentsWhole, Uncommitted, Before,
             RowsOf, NewRows, NewRow, TypeOK, Status, Job, Row, Vector, VectorId, PC, Active, Awaiting, Sync,
             Finished, mysql, local
<1>1. ASSUME NEW r \in Run, NEW d \in Doc, NEW t \in Tag \cup {NoTag},
             Upload(r, d, t)
      PROVE DocumentsWhole'
  BY <1>1 DEF Upload, Schedule
<1>2. ASSUME NEW r \in Run, NEW d \in Doc, Retry(r, d) PROVE DocumentsWhole'
  BY <1>2 DEF Retry, Schedule
<1>3. ASSUME NEW r \in Run, Skip(r) PROVE DocumentsWhole'
  BY <1>3 DEF Skip
<1>4. ASSUME NEW r \in Run, StartUnreadable(r) PROVE DocumentsWhole'
  BY <1>4 DEF StartUnreadable, Begin
<1>5. ASSUME NEW r \in Run, StartEmpty(r) PROVE DocumentsWhole'
  BY <1>5 DEF StartEmpty, Begin
<1>6. ASSUME NEW r \in Run, StartChunks(r) PROVE DocumentsWhole'
  BY <1>6 DEF StartChunks, Begin
<1>7. ASSUME NEW r \in Run, ContextsReady(r) PROVE DocumentsWhole'
  BY <1>7 DEF ContextsReady
<1>8. ASSUME NEW r \in Run, AwaitFails(r) PROVE DocumentsWhole'
  BY <1>8 DEF AwaitFails
<1>9. ASSUME NEW r \in Run, Stage(r) PROVE DocumentsWhole'
  BY <1>9 DEF Stage, FirstId
<1>10. ASSUME NEW r \in Run, StageFails(r) PROVE DocumentsWhole'
  BY <1>10 DEF StageFails
<1>11. ASSUME NEW r \in Run, AddVector(r) PROVE DocumentsWhole'
  BY <1>11 DEF AddVector
<1>12. ASSUME NEW r \in Run, AddFails(r) PROVE DocumentsWhole'
  BY <1>12 DEF AddFails, Compensation
<1>13. ASSUME NEW r \in Run, UsageFails(r) PROVE DocumentsWhole'
  BY <1>13 DEF UsageFails, Compensation
<1>14. ASSUME NEW r \in Run, Commit(r) PROVE DocumentsWhole'
  <2>1. AtCommit(r) /\ size' = size /\ base' = base /\ job' = job
    BY <1>14 DEF Commit
  <2>2. CASE rows' = rows
    BY <2>1, <2>2
  <2>3. CASE pc[r] = "adding"
             /\ rows' = (rows \ RowsOf(job[r].doc)) \cup NewRows(r)
    <3>1. ASSUME NEW d \in Doc, d # job[r].doc PROVE RowsOf(d)' = RowsOf(d)
      BY <2>3, <3>1
    <3>2. RowsOf(job[r].doc)' = NewRows(r)
      BY <2>1, <2>3
    <3> QED
      BY <2>1, <3>1, <3>2
  <2> QED
    BY <2>1, <2>2, <2>3, <1>14, CommitEffect DEF Commit, AtCommit
<1>15. ASSUME NEW r \in Run, CommitFails(r) PROVE DocumentsWhole'
  <2>1. AtCommit(r) /\ size' = size /\ base' = base /\ job' = job
    BY <1>15 DEF CommitFails
  <2>2. CASE rows' = rows
    BY <2>1, <2>2
  <2>3. CASE pc[r] = "adding"
             /\ rows' = (rows \ RowsOf(job[r].doc)) \cup NewRows(r)
    <3>1. ASSUME NEW d \in Doc, d # job[r].doc PROVE RowsOf(d)' = RowsOf(d)
      BY <2>3, <3>1
    <3>2. RowsOf(job[r].doc)' = NewRows(r)
      BY <2>1, <2>3
    <3> QED
      BY <2>1, <3>1, <3>2
  <2> QED
    BY <2>1, <2>2, <2>3, <1>15, CommitEffect DEF CommitFails, AtCommit
<1>16. ASSUME NEW r \in Run, MarkFailed(r) PROVE DocumentsWhole'
  BY <1>16 DEF MarkFailed, Leave
<1>17. ASSUME NEW r \in Run, DeleteVector(r) PROVE DocumentsWhole'
  BY <1>17 DEF DeleteVector
<1>18. ASSUME NEW r \in Run, DeletesDone(r) PROVE DocumentsWhole'
  BY <1>18 DEF DeletesDone, Leave
<1>19. CASE Rebuild
  BY <1>19 DEF Rebuild
<1>20. CASE Crash
  BY <1>20 DEF Crash
<1>21. CASE UNCHANGED vars
  BY <1>21 DEF vars
<1> QED
  BY <1>1, <1>2, <1>3, <1>4, <1>5, <1>6, <1>7, <1>8, <1>9, <1>10, <1>11, <1>12, <1>13,
     <1>14, <1>15, <1>16, <1>17, <1>18, <1>19, <1>20, <1>21 DEF Next, Request, Work

LEMMA IndexNext == IInv /\ [Next]_vars => IndexInv'
<1> SUFFICES ASSUME IInv, [Next]_vars PROVE IndexInv'
  OBVIOUS
<1> USE DEF IInv, IndexInv, LoopInv, TypeOK, Status, Job, Row, Vector, VectorId, PC,
   Active, Awaiting, Sync,
             Finished, mysql, local
<1>1. ASSUME NEW r \in Run, NEW d \in Doc, NEW t \in Tag \cup {NoTag},
             Upload(r, d, t)
      PROVE IndexInv'
  BY <1>1 DEF Upload, Schedule
<1>2. ASSUME NEW r \in Run, NEW d \in Doc, Retry(r, d) PROVE IndexInv'
  BY <1>2 DEF Retry, Schedule
<1>3. ASSUME NEW r \in Run, Skip(r) PROVE IndexInv'
  BY <1>3 DEF Skip
<1>4. ASSUME NEW r \in Run, StartUnreadable(r) PROVE IndexInv'
  BY <1>4 DEF StartUnreadable, Begin
<1>5. ASSUME NEW r \in Run, StartEmpty(r) PROVE IndexInv'
  BY <1>5 DEF StartEmpty, Begin
<1>6. ASSUME NEW r \in Run, StartChunks(r) PROVE IndexInv'
  BY <1>6 DEF StartChunks, Begin
<1>7. ASSUME NEW r \in Run, ContextsReady(r) PROVE IndexInv'
  BY <1>7 DEF ContextsReady
<1>8. ASSUME NEW r \in Run, AwaitFails(r) PROVE IndexInv'
  BY <1>8 DEF AwaitFails
<1>9. ASSUME NEW r \in Run, Stage(r) PROVE IndexInv'
  BY <1>9 DEF Stage, FirstId
<1>10. ASSUME NEW r \in Run, StageFails(r) PROVE IndexInv'
  BY <1>10 DEF StageFails
<1>11. ASSUME NEW r \in Run, AddVector(r) PROVE IndexInv'
  BY <1>11 DEF AddVector
<1>12. ASSUME NEW r \in Run, AddFails(r) PROVE IndexInv'
  BY <1>12 DEF AddFails, Compensation
<1>13. ASSUME NEW r \in Run, UsageFails(r) PROVE IndexInv'
  BY <1>13 DEF UsageFails, Compensation
<1>14. ASSUME NEW r \in Run, Commit(r) PROVE IndexInv'
  BY <1>14 DEF Commit, Committed, Invalidated, AtCommit, Leave
<1>15. ASSUME NEW r \in Run, CommitFails(r) PROVE IndexInv'
  BY <1>15 DEF CommitFails, Committed, Invalidated, AtCommit
<1>16. ASSUME NEW r \in Run, MarkFailed(r) PROVE IndexInv'
  BY <1>16 DEF MarkFailed, Leave
<1>17. ASSUME NEW r \in Run, DeleteVector(r) PROVE IndexInv'
  BY <1>17 DEF DeleteVector
<1>18. ASSUME NEW r \in Run, DeletesDone(r) PROVE IndexInv'
  BY <1>18 DEF DeletesDone, Leave
<1>19. CASE Rebuild
  BY <1>19 DEF Rebuild
<1>20. CASE Crash
  BY <1>20 DEF Crash
<1>21. CASE UNCHANGED vars
  BY <1>21 DEF vars
<1> QED
  BY <1>1, <1>2, <1>3, <1>4, <1>5, <1>6, <1>7, <1>8, <1>9, <1>10, <1>11, <1>12, <1>13,
     <1>14, <1>15, <1>16, <1>17, <1>18, <1>19, <1>20, <1>21 DEF Next, Request, Work


LEMMA InvInit == Init => IInv
<1> SUFFICES ASSUME Init PROVE IInv
  OBVIOUS
<1>1. TypeOK
  BY TypeInit
<1> QED
  BY <1>1 DEF Init, IInv, LoopInv, FlightInv, InFlightExact, FreshInv, RowsInv,
     SnapshotInv, AddedInv, TodoInv, RowsHaveVectors, DocumentsWhole, IndexInv,
     Active, Awaiting, Sync, Before, Vids, RowsOf

LEMMA InvNext == IInv /\ [Next]_vars => IInv'
<1>1. IInv => TypeOK
  BY DEF IInv
<1> QED
  BY <1>1, TypeNext, LoopNext, FlightNext, FreshNext, RowsNext, SnapshotNext,
     AddedNext, TodoNext, RowsHaveVectorsNext, DocumentsWholeNext, IndexNext
  DEF IInv

\* Every reachable state satisfies the inductive invariant.
THEOREM Invariance == Spec => []IInv
<1>1. QED BY InvInit, InvNext, PTL DEF Spec

\* Every committed chunk has its vector, through every failure and crash.
THEOREM RowsAlwaysHaveVectors == Spec => []RowsHaveVectors
<1>1. IInv => RowsHaveVectors
  BY DEF IInv
<1> QED
  BY <1>1, Invariance, PTL

\* A document's rows are always all the chunks of one run.
THEOREM DocumentsAlwaysWhole == Spec => []DocumentsWhole
<1>1. IInv => DocumentsWhole
  BY DEF IInv
<1> QED
  BY <1>1, Invariance, PTL

\* When a request can run, the BM25 index was built after the last commit that changed
\* the rows, if from a session's own read view (Rebuild): none outlives an indexing.
THEOREM NoIndexOutlivesCommit == Spec => []IndexSinceCommit
<1>1. IInv => IndexSinceCommit
  BY DEF IInv, IndexInv, IndexSinceCommit
<1> QED
  BY <1>1, Invariance, PTL

\* _IN_FLIGHT is never leaked and never missing an entry.
THEOREM InFlightAlwaysExact == Spec => []InFlightExact
<1>1. IInv => InFlightExact
  BY DEF IInv, FlightInv
<1> QED
  BY <1>1, Invariance, PTL

\* The rows a run replaces are the ones it read, however long ago.
THEOREM SnapshotsStayCurrent == Spec => []SnapshotCurrent
<1>1. IInv => SnapshotCurrent
  BY DEF IInv, SnapshotInv, SnapshotCurrent
<1> QED
  BY <1>1, Invariance, PTL

-----------------------------------------------------------------------------
(***************************************************************************)
(* Chunk ids.  The ids of the run at its store step are the highest ones,  *)
(* so that no vector, committed or left behind, shares one of them.        *)
(***************************************************************************)
IdInv ==
    /\ \A v \in vectors : v.chunk <= lastId
    /\ \A v \in vectors : /\ v = NewVector(v.vid[1], v.vid[2])
                          /\ pc[v.vid[1]] \notin Before
    /\ \A r \in Run : pc[r] = "adding" =>
          /\ base[r] + size[r] = lastId
          /\ \A v \in vectors : v.vid[1] # r => v.chunk <= base[r]
    /\ \A v, w \in vectors : v.chunk = w.chunk => v.vid = w.vid

LEMMA IdNext == IInv /\ IdInv /\ [Next]_vars => IdInv'
<1> SUFFICES ASSUME IInv, IdInv, [Next]_vars PROVE IdInv'
  OBVIOUS
<1> USE DEF IInv, IdInv, LoopInv, AddedInv, Before, NewVector, TypeOK, Status, Job, Row,
   Vector, VectorId, PC, Active, Awaiting, Sync,
             Finished, mysql, local
<1>1. ASSUME NEW r \in Run, NEW d \in Doc, NEW t \in Tag \cup {NoTag},
             Upload(r, d, t)
      PROVE IdInv'
  BY <1>1 DEF Upload, Schedule
<1>2. ASSUME NEW r \in Run, NEW d \in Doc, Retry(r, d) PROVE IdInv'
  BY <1>2 DEF Retry, Schedule
<1>3. ASSUME NEW r \in Run, Skip(r) PROVE IdInv'
  BY <1>3 DEF Skip
<1>4. ASSUME NEW r \in Run, StartUnreadable(r) PROVE IdInv'
  BY <1>4 DEF StartUnreadable, Begin
<1>5. ASSUME NEW r \in Run, StartEmpty(r) PROVE IdInv'
  BY <1>5 DEF StartEmpty, Begin
<1>6. ASSUME NEW r \in Run, StartChunks(r) PROVE IdInv'
  BY <1>6 DEF StartChunks, Begin
<1>7. ASSUME NEW r \in Run, ContextsReady(r) PROVE IdInv'
  BY <1>7 DEF ContextsReady
<1>8. ASSUME NEW r \in Run, AwaitFails(r) PROVE IdInv'
  BY <1>8 DEF AwaitFails
<1>9. ASSUME NEW r \in Run, Stage(r) PROVE IdInv'
  BY <1>9 DEF Stage, FirstId
<1>10. ASSUME NEW r \in Run, StageFails(r) PROVE IdInv'
  BY <1>10 DEF StageFails
<1>11. ASSUME NEW r \in Run, AddVector(r) PROVE IdInv'
  BY <1>11 DEF AddVector
<1>12. ASSUME NEW r \in Run, AddFails(r) PROVE IdInv'
  <2>1. CASE vectors' = vectors \cup {NewVector(r, added[r] + 1)}
    BY <1>12, <2>1 DEF AddFails
  <2>2. CASE vectors' = vectors
    BY <1>12, <2>2 DEF AddFails
  <2>3. vectors' = vectors \cup {NewVector(r, added[r] + 1)} \/ vectors' = vectors
    <3> PICK applied \in BOOLEAN :
          vectors' = vectors \cup IF applied THEN {NewVector(r, added[r] + 1)} ELSE {}
      BY <1>12 DEF AddFails
    <3> QED
      OBVIOUS
  <2> QED
    BY <2>1, <2>2, <2>3
<1>13. ASSUME NEW r \in Run, UsageFails(r) PROVE IdInv'
  BY <1>13 DEF UsageFails, Compensation
<1>14. ASSUME NEW r \in Run, Commit(r) PROVE IdInv'
  BY <1>14 DEF Commit, Committed, Invalidated, AtCommit, Leave
<1>15. ASSUME NEW r \in Run, CommitFails(r) PROVE IdInv'
  BY <1>15 DEF CommitFails, Committed, Invalidated, AtCommit
<1>16. ASSUME NEW r \in Run, MarkFailed(r) PROVE IdInv'
  BY <1>16 DEF MarkFailed, Leave
<1>17. ASSUME NEW r \in Run, DeleteVector(r) PROVE IdInv'
  BY <1>17 DEF DeleteVector
<1>18. ASSUME NEW r \in Run, DeletesDone(r) PROVE IdInv'
  BY <1>18 DEF DeletesDone, Leave
<1>19. CASE Rebuild
  BY <1>19 DEF Rebuild
<1>20. CASE Crash
  BY <1>20 DEF Crash
<1>21. CASE UNCHANGED vars
  BY <1>21 DEF vars
<1> QED
  BY <1>1, <1>2, <1>3, <1>4, <1>5, <1>6, <1>7, <1>8, <1>9, <1>10, <1>11, <1>12, <1>13,
     <1>14, <1>15, <1>16, <1>17, <1>18, <1>19, <1>20, <1>21 DEF Next, Request, Work

LEMMA IdInit == Init => IdInv
BY DEF Init, IdInv

LEMMA IdInvariance == Spec => [](IInv /\ IdInv)
<1>1. Init => IInv /\ IdInv
  BY InvInit, IdInit
<1>2. IInv /\ IdInv /\ [Next]_vars => (IInv /\ IdInv)'
  BY InvNext, IdNext
<1> QED
  BY <1>1, <1>2, PTL DEF Spec

\* A vector hit never resolves to another chunk's row.
THEOREM HitsAlwaysResolveHome == Spec => []HitsResolveHome
<1>1. IInv /\ IdInv => HitsResolveHome
  <2> SUFFICES ASSUME IInv, IdInv, NEW v \in vectors, NEW row \in rows,
                      v.chunk = row.id
               PROVE  v.vid = row.vid
    BY DEF HitsResolveHome
  <2> DEFINE w == [vid |-> row.vid, chunk |-> row.id]
  <2>1. w \in vectors
    BY DEF IInv, RowsHaveVectors
  <2>2. v.chunk = w.chunk => v.vid = w.vid
    BY <2>1 DEF IdInv
  <2> QED
    BY <2>2
<1> QED
  BY <1>1, IdInvariance, PTL

-----------------------------------------------------------------------------
(***************************************************************************)
(* DocIngestion implements SearchIndex.  A commit that replaces rows is    *)
(* the Publish step; ids staged and then given up are a Burn step; every   *)
(* other step leaves what a search finds as it was.                        *)
(***************************************************************************)

\* What is served are the committed rows, all of them.
LEMMA ServedRows ==
    ASSUME RowsHaveVectors
    PROVE  Served = [d \in Doc |-> {row.id : row \in RowsOf(d)}]
<1>1. ASSUME NEW d \in Doc
      PROVE  {w \in RowsOf(d) : [vid |-> w.vid, chunk |-> w.id] \in vectors}
                = RowsOf(d)
  BY DEF RowsHaveVectors, RowsOf
<1> QED
  BY <1>1 DEF Served

LEMMA ServedSame ==
    ASSUME RowsHaveVectors, RowsHaveVectors', rows' = rows
    PROVE  Served' = Served
<1>1. Served = [d \in Doc |-> {row.id : row \in RowsOf(d)}]
  BY ServedRows
<1>2. Served' = [d \in Doc |-> {row.id : row \in RowsOf(d)'}]
  <2>1. ASSUME NEW d \in Doc
        PROVE  {w \in RowsOf(d) : [vid |-> w.vid, chunk |-> w.id] \in vectors}'
                  = RowsOf(d)'
    BY DEF RowsHaveVectors, RowsOf
  <2> QED
    BY <2>1 DEF Served
<1>3. \A d \in Doc : RowsOf(d)' = RowsOf(d)
  BY DEF RowsOf
<1> QED
  BY <1>1, <1>2, <1>3

\* The applied commit of a run with chunks publishes its block of ids.
LEMMA ServedPublished ==
    ASSUME IInv, RowsHaveVectors', NEW r \in Run, pc[r] = "adding",
           rows' = (rows \ RowsOf(job[r].doc)) \cup NewRows(r)
    PROVE  Served' = [Served EXCEPT ![job[r].doc] =
                                        base[r] + 1 .. base[r] + size[r]]
<1> USE DEF IInv, TypeOK
<1>1. Served = [d \in Doc |-> {row.id : row \in RowsOf(d)}]
  BY ServedRows
<1>2. Served' = [d \in Doc |-> {row.id : row \in RowsOf(d)'}]
  <2>1. ASSUME NEW d \in Doc
        PROVE  {w \in RowsOf(d) : [vid |-> w.vid, chunk |-> w.id] \in vectors}'
                  = RowsOf(d)'
    BY DEF RowsHaveVectors, RowsOf
  <2> QED
    BY <2>1 DEF Served
<1>3. ASSUME NEW d \in Doc, d # job[r].doc PROVE RowsOf(d)' = RowsOf(d)
  BY <1>3 DEF RowsOf, NewRows, NewRow
<1>4. ASSUME NEW d \in Doc, d = job[r].doc PROVE RowsOf(d)' = NewRows(r)
  BY <1>4 DEF RowsOf, NewRows, NewRow
<1>5. {row.id : row \in NewRows(r)} = base[r] + 1 .. base[r] + size[r]
  <2>1. base[r] \in Nat /\ size[r] \in Nat
    OBVIOUS
  <2>2. ASSUME NEW i \in base[r] + 1 .. base[r] + size[r]
        PROVE  \E row \in NewRows(r) : i = row.id
    <3>1. i - base[r] \in 1..size[r]
      BY <2>1
    <3>2. NewRow(r, i - base[r]).id = i
      BY <2>1 DEF NewRow
    <3> QED
      BY <3>1, <3>2 DEF NewRows
  <2>3. ASSUME NEW row \in NewRows(r)
        PROVE  row.id \in base[r] + 1 .. base[r] + size[r]
    BY <2>1 DEF NewRows, NewRow
  <2> QED
    BY <2>2, <2>3
<1>6. ASSUME NEW d \in Doc
      PROVE  {row.id : row \in RowsOf(d)'}
                = IF d = job[r].doc THEN base[r] + 1 .. base[r] + size[r]
                  ELSE {row.id : row \in RowsOf(d)}
  BY <1>3, <1>4, <1>5
<1> QED
  BY <1>1, <1>2, <1>6

\* Ids consumed: the holder's block counts only once it has left the store step.
LEMMA ConsumedLeaving ==
    ASSUME IInv, IdInv, NEW r \in Run, pc[r] = "adding",
           ~(loop' # Idle /\ pc'[loop'] = "adding"), lastId' = lastId
    PROVE  /\ Consumed = base[r]
           /\ Consumed' = base[r] + size[r]
           /\ Consumed' \in Consumed + 1 .. Consumed + MaxChunks
<1>1. loop = r /\ loop # Idle
  BY DEF IInv, LoopInv, Sync
<1>2. base[r] \in Nat /\ size[r] \in 1..MaxChunks
  BY DEF IInv, TypeOK, AddedInv
<1>3. Consumed = base[r]
  BY <1>1 DEF Consumed
<1>4. Consumed' = lastId
  BY DEF Consumed
<1>5. lastId = base[r] + size[r]
  BY DEF IdInv
<1> QED
  BY <1>2, <1>3, <1>4, <1>5

LEMMA StepRefines ==
    IInv /\ IdInv /\ IInv' /\ [Next]_vars => [Abstract!Next]_(Abstract!vars)
<1> SUFFICES ASSUME IInv, IdInv, IInv', [Next]_vars
             PROVE  [Abstract!Next]_(Abstract!vars)
  OBVIOUS
<1> DEFINE Stutter == Served' = Served /\ Consumed' = Consumed
           Published(r) == pc[r] = "adding" /\ AtCommit(r) /\ Committed(r)
<1>a. RowsHaveVectors /\ RowsHaveVectors'
  BY DEF IInv
<1>b. rows' = rows => Served' = Served
  BY <1>a, ServedSame
<1>c. ASSUME NEW r \in Run, pc[r] = "adding", lastId' = lastId,
             pc'[r] # "adding", loop' \in {r, Idle}, rows' = rows
      PROVE  Abstract!Burn
  BY <1>b, <1>c, ConsumedLeaving DEF Abstract!Burn
<1>d. ASSUME NEW r \in Run, pc[r] = "adding", lastId' = lastId,
             pc'[r] # "adding", loop' \in {r, Idle}, AtCommit(r), Committed(r)
      PROVE  Abstract!Next
  <2>1. rows' = (rows \ RowsOf(job[r].doc)) \cup NewRows(r)
    BY <1>d, CommitEffect
  <2>2. Served' = [Served EXCEPT ![job[r].doc] =
                                    base[r] + 1 .. base[r] + size[r]]
    BY <1>a, <1>d, <2>1, ServedPublished
  <2>3. /\ Consumed = base[r]
        /\ Consumed' = base[r] + size[r]
        /\ Consumed' \in Consumed + 1 .. Consumed + MaxChunks
    BY <1>d, ConsumedLeaving
  <2>4. job[r].doc \in Doc
    BY <1>d DEF IInv, TypeOK, Job
  <2>5. Abstract!Publish(job[r].doc)
    BY <2>2, <2>3 DEF Abstract!Publish
  <2> QED
    BY <2>4, <2>5 DEF Abstract!Next
<1>e. Stutter => [Abstract!Next]_(Abstract!vars)
  BY DEF Abstract!vars
<1>f. Abstract!Burn => Abstract!Next
  BY DEF Abstract!Next
<1> HIDE DEF Stutter
<1> USE DEF IInv, LoopInv, TypeOK, Sync, Active, Awaiting, mysql, local
<1>1. ASSUME NEW r \in Run, NEW d \in Doc, NEW t \in Tag \cup {NoTag}, Upload(r, d, t)
      PROVE  [Abstract!Next]_(Abstract!vars)
  BY <1>1, <1>b, <1>e DEF Upload, Schedule, Consumed, Stutter
<1>2. ASSUME NEW r \in Run, NEW d \in Doc, Retry(r, d)
      PROVE  [Abstract!Next]_(Abstract!vars)
  BY <1>2, <1>b, <1>e DEF Retry, Schedule, Consumed, Stutter
<1>3. ASSUME NEW r \in Run, Skip(r)
      PROVE  [Abstract!Next]_(Abstract!vars)
  BY <1>3, <1>b, <1>e DEF Skip, Consumed, Stutter
<1>4. ASSUME NEW r \in Run, StartUnreadable(r)
      PROVE  [Abstract!Next]_(Abstract!vars)
  BY <1>4, <1>b, <1>e DEF StartUnreadable, Begin, Consumed, Stutter
<1>5. ASSUME NEW r \in Run, StartEmpty(r)
      PROVE  [Abstract!Next]_(Abstract!vars)
  BY <1>5, <1>b, <1>e DEF StartEmpty, Begin, Consumed, Stutter
<1>6. ASSUME NEW r \in Run, StartChunks(r)
      PROVE  [Abstract!Next]_(Abstract!vars)
  BY <1>6, <1>b, <1>e DEF StartChunks, Begin, Consumed, Stutter
<1>7. ASSUME NEW r \in Run, ContextsReady(r)
      PROVE  [Abstract!Next]_(Abstract!vars)
  BY <1>7, <1>b, <1>e DEF ContextsReady, Consumed, Stutter
<1>8. ASSUME NEW r \in Run, AwaitFails(r)
      PROVE  [Abstract!Next]_(Abstract!vars)
  BY <1>8, <1>b, <1>e DEF AwaitFails, Consumed, Stutter
<1>9. ASSUME NEW r \in Run, Stage(r)
      PROVE  [Abstract!Next]_(Abstract!vars)
  BY <1>9, <1>b, <1>e DEF Stage, FirstId, Consumed, Stutter
<1>10. ASSUME NEW r \in Run, StageFails(r)
      PROVE  [Abstract!Next]_(Abstract!vars)
  BY <1>10, <1>b, <1>e DEF StageFails, Consumed, Stutter
<1>11. ASSUME NEW r \in Run, AddVector(r)
      PROVE  [Abstract!Next]_(Abstract!vars)
  BY <1>11, <1>b, <1>e DEF AddVector, Consumed, Stutter
<1>12. ASSUME NEW r \in Run, AddFails(r)
      PROVE  [Abstract!Next]_(Abstract!vars)
  BY <1>12, <1>c, <1>f DEF AddFails
<1>13. ASSUME NEW r \in Run, UsageFails(r)
      PROVE  [Abstract!Next]_(Abstract!vars)
  BY <1>13, <1>c, <1>f DEF UsageFails
<1>14. ASSUME NEW r \in Run, Commit(r)
      PROVE  [Abstract!Next]_(Abstract!vars)
  <2>1. CASE pc[r] = "adding"
    BY <1>14, <2>1, <1>d DEF Commit, Leave
  <2>2. CASE pc[r] = "empty"
    <3>1. rows' = rows
      BY <1>14, <2>2 DEF Commit, Committed
    <3>2. Consumed' = Consumed
      BY <1>14, <2>2 DEF Commit, Leave, Consumed
    <3> QED
      BY <1>b, <1>e, <3>1, <3>2 DEF Stutter
  <2> QED
    BY <1>14, <2>1, <2>2 DEF Commit, AtCommit
<1>15. ASSUME NEW r \in Run, CommitFails(r)
      PROVE  [Abstract!Next]_(Abstract!vars)
  <2>1. CASE pc[r] = "adding" /\ rows' = rows
    BY <1>15, <2>1, <1>c, <1>f DEF CommitFails
  <2>2. CASE pc[r] = "adding" /\ Committed(r)
    BY <1>15, <2>2, <1>d DEF CommitFails
  <2>3. CASE pc[r] = "empty"
    <3>1. rows' = rows
      BY <1>15, <2>3 DEF CommitFails, Committed
    <3>2. Consumed' = Consumed
      BY <1>15, <2>3 DEF CommitFails, Consumed
    <3> QED
      BY <1>b, <1>e, <3>1, <3>2 DEF Stutter
  <2> QED
    BY <1>15, <2>1, <2>2, <2>3 DEF CommitFails, AtCommit
<1>16. ASSUME NEW r \in Run, MarkFailed(r)
      PROVE  [Abstract!Next]_(Abstract!vars)
  BY <1>16, <1>b, <1>e DEF MarkFailed, Leave, Consumed, Stutter
<1>17. ASSUME NEW r \in Run, DeleteVector(r)
      PROVE  [Abstract!Next]_(Abstract!vars)
  BY <1>17, <1>b, <1>e DEF DeleteVector, Consumed, Stutter
<1>18. ASSUME NEW r \in Run, DeletesDone(r)
      PROVE  [Abstract!Next]_(Abstract!vars)
  BY <1>18, <1>b, <1>e DEF DeletesDone, Leave, Consumed, Stutter
<1>19. CASE Rebuild
  BY <1>19, <1>b, <1>e DEF Rebuild, Consumed, Stutter
<1>20. CASE Crash
  <2>1. CASE loop # Idle /\ pc[loop] = "adding"
    BY <1>20, <2>1, <1>c, <1>f DEF Crash
  <2>2. CASE ~(loop # Idle /\ pc[loop] = "adding")
    BY <1>20, <2>2, <1>b, <1>e DEF Crash, Consumed, Stutter
  <2> QED
    BY <2>1, <2>2
<1>21. CASE UNCHANGED vars
  BY <1>21, <1>b, <1>e DEF vars, Consumed, Stutter
<1> QED
  BY <1>1, <1>2, <1>3, <1>4, <1>5, <1>6, <1>7, <1>8, <1>9, <1>10, <1>11, <1>12, <1>13,
     <1>14, <1>15, <1>16, <1>17, <1>18, <1>19, <1>20, <1>21
  DEF Next, Request, Work

\* Searches see each document's versions whole, in order, one replaced by the
\* next in a single step.
THEOREM Refinement == Spec => Replacement
<1>1. Init => Abstract!Init
  BY DEF Init, Abstract!Init, Served, Consumed, RowsOf
<1>2. IInv /\ IdInv /\ IInv' /\ [Next]_vars => [Abstract!Next]_(Abstract!vars)
  BY StepRefines
<1>3. Spec => [](IInv /\ IdInv)
  BY IdInvariance
<1> QED
  BY <1>1, <1>2, <1>3, PTL DEF Spec, Replacement, Abstract!Spec

-----------------------------------------------------------------------------
(***************************************************************************)
(* Owners' answers next to documents.  With the failures after which a     *)
(* document's run takes back what it did, the vectors without a row are    *)
(* those of the run that holds the loop and those of failed answers.       *)
(***************************************************************************)
USE AnswerAssumption, AnswerChunksAssumption, ConfirmationAssumption

\* No call applies its effect and reports a failure; neither a commit nor a delete
\* fails, and the process lives.
Clean == Faults \cap {"add_applied", "commit", "commit_lost", "delete", "crash"} = {}

AnswerPC == {"new", "queued", "embedding", "adding", "done", "failed"}

TypesInv ==
    /\ docTag \in [Doc -> Tag \cup {NoTag}]
    /\ loop \in Run \cup Answer \cup {Idle}
    /\ pc \in [Run -> PC]
    /\ job \in [Run -> Job \cup {NoJob}]
    /\ \A r \in Run : pc[r] # "new" => job[r] \in Job
    /\ size \in [Run -> 0..MaxChunks] /\ added \in [Run -> 0..MaxChunks]
    /\ old \in [Run -> SUBSET VectorId] /\ todo \in [Run -> SUBSET VectorId]
    /\ apc \in [Answer -> AnswerPC]
    /\ of \in [Answer -> Confirmation \cup {None}]
    /\ \A a \in Answer : apc[a] # "new" => of[a] \in Confirmation
    /\ asize \in [Answer -> 0..MaxAnswerChunks] /\ aadded \in [Answer -> 0..MaxAnswerChunks]

\* Only the holder of the loop, a run of a document or of an answer, stores.
HolderInv == LoopInv /\ \A a \in Answer : apc[a] = "adding" <=> loop = a

\* A run has added nothing before its store step, and has nothing to delete but in the
\* two stretches of code that delete.
ProgressInv ==
    /\ \A r \in Run :
          /\ pc[r] \in Before => added[r] = 0
          /\ pc[r] = "adding" => added[r] <= size[r]
          /\ pc[r] \notin {"compensating", "cleanup"} => todo[r] = {}
    /\ \A a \in Answer :
          /\ apc[a] \in {"new", "queued", "embedding"} => aadded[a] = 0
          /\ aadded[a] <= asize[a]

\* A row belongs to a run that has committed, and is its document's or its answer's.
OwnersInv ==
    \A row \in rows :
        \/ \E r \in Run : \E k \in Nat :
              row.vid = <<r, k>> /\ row.doc = job[r].doc /\ pc[r] \in {"cleanup", "done"}
        \/ \E a \in Answer : \E k \in Nat :
              row.vid = <<a, k>> /\ row.doc = of[a] /\ apc[a] = "done"

\* The vectors without a row that the holder of the loop has still to deal with.
Held ==
    IF loop \in Answer THEN {<<loop, k>> : k \in 1..aadded[loop]}
    ELSE IF loop \notin Run THEN {}
    ELSE IF pc[loop] = "adding" THEN {<<loop, k>> : k \in 1..added[loop]}
    ELSE todo[loop]

ExplainedInv ==
    /\ Vids(rows) \subseteq Vids(vectors)
    /\ Vids(vectors) \ Vids(rows) = Held \cup Abandoned

AInv ==
    /\ TypesInv /\ HolderInv /\ ProgressInv /\ FlightInv /\ SnapshotInv
    /\ OwnersInv /\ ExplainedInv

LEMMA OneMore == ASSUME NEW n \in Nat PROVE 1..(n + 1) = 1..n \cup {n + 1}
OBVIOUS

LEMMA VidsWith == ASSUME NEW R, NEW x PROVE Vids(R \cup {x}) = Vids(R) \cup {x.vid}
BY DEF Vids

LEMMA VidsWithNewVector ==
    ASSUME NEW r, NEW k, vectors' = vectors \cup {NewVector(r, k)}
    PROVE  Vids(vectors)' = Vids(vectors) \cup {<<r, k>>}
<1>1. NewVector(r, k).vid = <<r, k>>
  BY DEF NewVector
<1>2. Vids(vectors)' = Vids(vectors')
  BY DEF Vids
<1> QED
  BY <1>1, <1>2, VidsWith

LEMMA VidsWithAnswerVector ==
    ASSUME NEW a, NEW k, vectors' = vectors \cup {AnswerVector(a, k)}
    PROVE  Vids(vectors)' = Vids(vectors) \cup {<<a, k>>}
<1>1. AnswerVector(a, k).vid = <<a, k>>
  BY DEF AnswerVector
<1>2. Vids(vectors)' = Vids(vectors')
  BY DEF Vids
<1> QED
  BY <1>1, <1>2, VidsWith

LEMMA VidsOfNewRows ==
    ASSUME NEW r PROVE Vids(NewRows(r)) = {<<r, k>> : k \in 1..size[r]}
<1>1. \A k : NewRow(r, k).vid = <<r, k>>
  BY DEF NewRow
<1>2. \A v : v \in Vids(NewRows(r)) <=> \E k \in 1..size[r] : v = NewRow(r, k).vid
  BY DEF Vids, NewRows
<1> QED
  BY <1>1, <1>2

LEMMA VidsOfAnswerRows ==
    ASSUME NEW a PROVE Vids(AnswerRows(a)) = {<<a, k>> : k \in 1..asize[a]}
<1> DEFINE New(k) == [id |-> abase[a] + k, doc |-> of[a], tag |-> NoTag, vid |-> <<a, k>>]
<1>1. \A k : New(k).vid = <<a, k>>
  OBVIOUS
<1>2. AnswerRows(a) = {New(k) : k \in 1..asize[a]}
  BY DEF AnswerRows
<1> HIDE DEF New
<1>3. \A v : v \in Vids(AnswerRows(a)) <=> \E k \in 1..asize[a] : v = New(k).vid
  BY <1>2 DEF Vids
<1> QED
  BY <1>1, <1>3

LEMMA VidsTyped ==
    ASSUME OwnersInv, TypesInv, NEW d \in Doc PROVE Vids(RowsOf(d)) \subseteq VectorId
<1>1. ASSUME NEW row \in rows, row.doc = d PROVE row.vid \in VectorId
  <2>1. ASSUME NEW a \in Answer, row.doc = of[a], apc[a] = "done" PROVE FALSE
    BY <1>1, <2>1, ConfirmationAssumption DEF TypesInv
  <2>2. PICK r \in Run : \E k \in Nat : row.vid = <<r, k>>
    BY <1>1, <2>1 DEF OwnersInv
  <2> QED
    BY <2>2 DEF VectorId
<1> QED
  BY <1>1 DEF Vids, RowsOf

\* The rows of other documents and of answers keep their vector ids when those of a
\* document are replaced.
LEMMA VidsApart ==
    ASSUME OwnersInv, TypesInv, NEW d \in Doc
    PROVE  Vids(rows \ RowsOf(d)) = Vids(rows) \ Vids(RowsOf(d))
<1>1. ASSUME NEW v \in rows, NEW w \in rows, v.vid = w.vid PROVE v.doc = w.doc
  BY <1>1, AnswerAssumption DEF OwnersInv
<1> QED
  BY <1>1 DEF Vids, RowsOf

\* A step that touches neither rows nor vectors.
LEMMA Unmoved ==
    ASSUME ExplainedInv, UNCHANGED <<rows, vectors>>,
           Held' \cup Abandoned' = Held \cup Abandoned
    PROVE  ExplainedInv'
BY DEF ExplainedInv, Vids

LEMMA AbandonedStays == ASSUME UNCHANGED avars PROVE Abandoned' = Abandoned
BY DEF Abandoned, avars

LEMMA HeldWhenIdle == ASSUME loop = Idle PROVE Held = {}
BY DEF Held

LEMMA HeldByRun ==
    ASSUME AInv, NEW r \in Run, pc[r] \in Sync
    PROVE  /\ pc[r] = "adding" => Held = {<<r, k>> : k \in 1..added[r]}
           /\ pc[r] # "adding" => Held = todo[r]
           /\ loop = r
BY DEF AInv, HolderInv, LoopInv, Held

LEMMA HeldByAnswer ==
    ASSUME AInv, NEW a \in Answer, apc[a] = "adding"
    PROVE  Held = {<<a, k>> : k \in 1..aadded[a]} /\ loop = a
BY DEF AInv, HolderInv, Held

\* A run that has not committed, and an answer that is not done, own no row.
LEMMA NoRowYet ==
    ASSUME AInv
    PROVE  /\ \A r \in Run : pc[r] \notin {"cleanup", "done"} =>
                 \A k \in Nat : <<r, k>> \notin Vids(rows)
           /\ \A a \in Answer : apc[a] # "done" =>
                 \A k \in Nat : <<a, k>> \notin Vids(rows)
BY AnswerAssumption DEF AInv, OwnersInv, Vids

LEMMA AnswersTypesNext ==
    ASSUME Clean, AInv, [AnswersNext]_allVars PROVE TypesInv'
 <1> USE DEF AInv, TypesInv, HolderInv, LoopInv, ProgressInv, AnswerPC, VectorId, Job, PC,
    Active, Awaiting, Sync, Finished, mysql, local, avars, Before
<1>1. ASSUME NEW r \in Run, NEW d \in Doc, NEW t \in Tag \cup {NoTag},
             Upload(r, d, t), UNCHANGED avars
       PROVE TypesInv'
  <2>1. PICK u \in Tag \cup {NoTag} : Schedule(r, d, u, FALSE)
    BY <1>1, Zenon DEF Upload
  <2>2. job' \in [Run -> Job \cup {NoJob}] /\ pc' \in [Run -> PC]
    BY <2>1 DEF Schedule
  <2>3. \A q \in Run : pc'[q] # "new" => job'[q] \in Job
    BY <2>1 DEF Schedule
  <2>4. docTag' \in [Doc -> Tag \cup {NoTag}]
    BY <1>1 DEF Upload
  <2> QED
    BY <1>1, <2>2, <2>3, <2>4 DEF Upload
<1>2. ASSUME NEW r \in Run, NEW d \in Doc, Retry(r, d), UNCHANGED avars PROVE TypesInv'
  BY <1>2 DEF Retry, Schedule
<1>3. ASSUME NEW r \in Run, Skip(r), UNCHANGED avars PROVE TypesInv'
  BY <1>3 DEF Skip
<1>4. ASSUME NEW r \in Run, StartUnreadable(r), UNCHANGED avars PROVE TypesInv'
  BY <1>4 DEF StartUnreadable, Begin
<1>5. ASSUME NEW r \in Run, StartEmpty(r), UNCHANGED avars PROVE TypesInv'
  BY <1>5 DEF StartEmpty, Begin
<1>6. ASSUME NEW r \in Run, StartChunks(r), UNCHANGED avars PROVE TypesInv'
  <2>1. Vids(RowsOf(job[r].doc)) \in SUBSET VectorId
    BY <1>6, VidsTyped DEF StartChunks, Begin
  <2> QED
    BY <1>6, <2>1 DEF StartChunks, Begin
<1>7. ASSUME NEW r \in Run, ContextsReady(r), UNCHANGED avars PROVE TypesInv'
  BY <1>7 DEF ContextsReady
<1>8. ASSUME NEW r \in Run, AwaitFails(r), UNCHANGED avars PROVE TypesInv'
  BY <1>8 DEF AwaitFails
<1>9. ASSUME NEW r \in Run, Stage(r), UNCHANGED avars PROVE TypesInv'
  <2>1. Vids(RowsOf(job[r].doc)) \in SUBSET VectorId
    BY <1>9, VidsTyped DEF Stage
  <2> QED
    BY <1>9, <2>1 DEF Stage, FirstId
<1>10. ASSUME NEW r \in Run, StageFails(r), UNCHANGED avars PROVE TypesInv'
  BY <1>10 DEF StageFails
<1>11. ASSUME NEW r \in Run, AddVector(r), UNCHANGED avars PROVE TypesInv'
  BY <1>11 DEF AddVector
<1>12. ASSUME NEW r \in Run, AddFails(r), UNCHANGED avars PROVE TypesInv'
  BY <1>12 DEF AddFails, Compensation, Clean
<1>13. ASSUME NEW r \in Run, UsageFails(r), UNCHANGED avars PROVE TypesInv'
  BY <1>13 DEF UsageFails, Compensation
<1>14. ASSUME NEW r \in Run, Commit(r), UNCHANGED avars PROVE TypesInv'
  BY <1>14 DEF Commit, Committed, Invalidated, AtCommit, Leave
<1>15. ASSUME NEW r \in Run, CommitFails(r), UNCHANGED avars PROVE TypesInv'
  BY <1>15 DEF CommitFails, Clean
<1>16. ASSUME NEW r \in Run, MarkFailed(r), UNCHANGED avars PROVE TypesInv'
  BY <1>16 DEF MarkFailed, Leave
<1>17. ASSUME NEW r \in Run, DeleteVector(r), UNCHANGED avars PROVE TypesInv'
  BY <1>17 DEF DeleteVector, Clean
<1>18. ASSUME NEW r \in Run, DeletesDone(r), UNCHANGED avars PROVE TypesInv'
  BY <1>18 DEF DeletesDone, Leave
<1>19. ASSUME Rebuild, UNCHANGED avars PROVE TypesInv'
  BY <1>19 DEF Rebuild
<1>20. ASSUME Crash PROVE TypesInv'
  BY <1>20 DEF Crash, Clean
<1>21. ASSUME NEW a \in Answer, Submit(a) PROVE TypesInv'
  BY <1>21 DEF Submit, vars
<1>22. ASSUME NEW a \in Answer, StartAnswer(a) PROVE TypesInv'
  BY <1>22 DEF StartAnswer, vars
<1>23. ASSUME NEW a \in Answer, AnswerEmbedFails(a) PROVE TypesInv'
  BY <1>23 DEF AnswerEmbedFails, vars
<1>24. ASSUME NEW a \in Answer, StageAnswer(a) PROVE TypesInv'
  BY <1>24 DEF StageAnswer
<1>25. ASSUME NEW a \in Answer, AddAnswerVector(a) PROVE TypesInv'
  BY <1>25 DEF AddAnswerVector
<1>26. ASSUME NEW a \in Answer, StoreAnswerFails(a) PROVE TypesInv'
  BY <1>26 DEF StoreAnswerFails
<1>27. ASSUME NEW a \in Answer, CommitAnswer(a) PROVE TypesInv'
  BY <1>27 DEF CommitAnswer, AnswerInvalidated
<1>28. ASSUME NEW a \in Answer, CommitAnswerFails(a) PROVE TypesInv'
  BY <1>28 DEF CommitAnswerFails, AnswerInvalidated
<1>29. ASSUME UNCHANGED allVars PROVE TypesInv'
  BY <1>29 DEF allVars, vars
<1> QED
  BY <1>1, <1>2, <1>3, <1>4, <1>5, <1>6, <1>7, <1>8, <1>9, <1>10, <1>11, <1>12, <1>13,
     <1>14, <1>15, <1>16, <1>17, <1>18, <1>19, <1>20, <1>21, <1>22, <1>23, <1>24, <1>25,
     <1>26, <1>27, <1>28, <1>29
  DEF AnswersNext, WorkAnswer, Next, Request, Work

LEMMA AnswersHolderNext ==
    ASSUME Clean, AInv, [AnswersNext]_allVars PROVE HolderInv'
 <1> USE DEF AInv, TypesInv, HolderInv, LoopInv, ProgressInv, AnswerPC, VectorId, Job, PC,
    Active, Awaiting, Sync, Finished, mysql, local, avars, Before
<1>1. ASSUME NEW r \in Run, NEW d \in Doc, NEW t \in Tag \cup {NoTag},
             Upload(r, d, t), UNCHANGED avars
       PROVE HolderInv'
  BY <1>1 DEF Upload, Schedule
<1>2. ASSUME NEW r \in Run, NEW d \in Doc, Retry(r, d), UNCHANGED avars PROVE HolderInv'
  BY <1>2 DEF Retry, Schedule
<1>3. ASSUME NEW r \in Run, Skip(r), UNCHANGED avars PROVE HolderInv'
  BY <1>3 DEF Skip
<1>4. ASSUME NEW r \in Run, StartUnreadable(r), UNCHANGED avars PROVE HolderInv'
  BY <1>4 DEF StartUnreadable, Begin
<1>5. ASSUME NEW r \in Run, StartEmpty(r), UNCHANGED avars PROVE HolderInv'
  BY <1>5 DEF StartEmpty, Begin
<1>6. ASSUME NEW r \in Run, StartChunks(r), UNCHANGED avars PROVE HolderInv'
  BY <1>6 DEF StartChunks, Begin
<1>7. ASSUME NEW r \in Run, ContextsReady(r), UNCHANGED avars PROVE HolderInv'
  BY <1>7 DEF ContextsReady
<1>8. ASSUME NEW r \in Run, AwaitFails(r), UNCHANGED avars PROVE HolderInv'
  BY <1>8 DEF AwaitFails
<1>9. ASSUME NEW r \in Run, Stage(r), UNCHANGED avars PROVE HolderInv'
  BY <1>9 DEF Stage, FirstId
<1>10. ASSUME NEW r \in Run, StageFails(r), UNCHANGED avars PROVE HolderInv'
  BY <1>10 DEF StageFails
<1>11. ASSUME NEW r \in Run, AddVector(r), UNCHANGED avars PROVE HolderInv'
  BY <1>11 DEF AddVector
<1>12. ASSUME NEW r \in Run, AddFails(r), UNCHANGED avars PROVE HolderInv'
  BY <1>12 DEF AddFails, Compensation, Clean
<1>13. ASSUME NEW r \in Run, UsageFails(r), UNCHANGED avars PROVE HolderInv'
  BY <1>13 DEF UsageFails, Compensation
<1>14. ASSUME NEW r \in Run, Commit(r), UNCHANGED avars PROVE HolderInv'
  BY <1>14 DEF Commit, Committed, Invalidated, AtCommit, Leave
<1>15. ASSUME NEW r \in Run, CommitFails(r), UNCHANGED avars PROVE HolderInv'
  BY <1>15 DEF CommitFails, Clean
<1>16. ASSUME NEW r \in Run, MarkFailed(r), UNCHANGED avars PROVE HolderInv'
  BY <1>16 DEF MarkFailed, Leave
<1>17. ASSUME NEW r \in Run, DeleteVector(r), UNCHANGED avars PROVE HolderInv'
  BY <1>17 DEF DeleteVector, Clean
<1>18. ASSUME NEW r \in Run, DeletesDone(r), UNCHANGED avars PROVE HolderInv'
  BY <1>18 DEF DeletesDone, Leave
<1>19. ASSUME Rebuild, UNCHANGED avars PROVE HolderInv'
  BY <1>19 DEF Rebuild
<1>20. ASSUME Crash PROVE HolderInv'
  BY <1>20 DEF Crash, Clean
<1>21. ASSUME NEW a \in Answer, Submit(a) PROVE HolderInv'
  BY <1>21 DEF Submit, vars
<1>22. ASSUME NEW a \in Answer, StartAnswer(a) PROVE HolderInv'
  BY <1>22 DEF StartAnswer, vars
<1>23. ASSUME NEW a \in Answer, AnswerEmbedFails(a) PROVE HolderInv'
  BY <1>23 DEF AnswerEmbedFails, vars
<1>24. ASSUME NEW a \in Answer, StageAnswer(a) PROVE HolderInv'
  BY <1>24 DEF StageAnswer
<1>25. ASSUME NEW a \in Answer, AddAnswerVector(a) PROVE HolderInv'
  BY <1>25 DEF AddAnswerVector
<1>26. ASSUME NEW a \in Answer, StoreAnswerFails(a) PROVE HolderInv'
  BY <1>26 DEF StoreAnswerFails
<1>27. ASSUME NEW a \in Answer, CommitAnswer(a) PROVE HolderInv'
  BY <1>27 DEF CommitAnswer, AnswerInvalidated
<1>28. ASSUME NEW a \in Answer, CommitAnswerFails(a) PROVE HolderInv'
  BY <1>28 DEF CommitAnswerFails, AnswerInvalidated
<1>29. ASSUME UNCHANGED allVars PROVE HolderInv'
  BY <1>29 DEF allVars, vars
<1> QED
  BY <1>1, <1>2, <1>3, <1>4, <1>5, <1>6, <1>7, <1>8, <1>9, <1>10, <1>11, <1>12, <1>13,
     <1>14, <1>15, <1>16, <1>17, <1>18, <1>19, <1>20, <1>21, <1>22, <1>23, <1>24, <1>25,
     <1>26, <1>27, <1>28, <1>29
  DEF AnswersNext, WorkAnswer, Next, Request, Work

LEMMA AnswersProgressNext ==
    ASSUME Clean, AInv, [AnswersNext]_allVars PROVE ProgressInv'
 <1> USE DEF AInv, TypesInv, HolderInv, LoopInv, ProgressInv, AnswerPC, VectorId, Job, PC,
    Active, Awaiting, Sync, Finished, mysql, local, avars, Before
<1>1. ASSUME NEW r \in Run, NEW d \in Doc, NEW t \in Tag \cup {NoTag},
             Upload(r, d, t), UNCHANGED avars
       PROVE ProgressInv'
  BY <1>1 DEF Upload, Schedule
<1>2. ASSUME NEW r \in Run, NEW d \in Doc, Retry(r, d), UNCHANGED avars PROVE ProgressInv'
  BY <1>2 DEF Retry, Schedule
<1>3. ASSUME NEW r \in Run, Skip(r), UNCHANGED avars PROVE ProgressInv'
  BY <1>3 DEF Skip
<1>4. ASSUME NEW r \in Run, StartUnreadable(r), UNCHANGED avars PROVE ProgressInv'
  BY <1>4 DEF StartUnreadable, Begin
<1>5. ASSUME NEW r \in Run, StartEmpty(r), UNCHANGED avars PROVE ProgressInv'
  BY <1>5 DEF StartEmpty, Begin
<1>6. ASSUME NEW r \in Run, StartChunks(r), UNCHANGED avars PROVE ProgressInv'
  BY <1>6 DEF StartChunks, Begin
<1>7. ASSUME NEW r \in Run, ContextsReady(r), UNCHANGED avars PROVE ProgressInv'
  BY <1>7 DEF ContextsReady
<1>8. ASSUME NEW r \in Run, AwaitFails(r), UNCHANGED avars PROVE ProgressInv'
  BY <1>8 DEF AwaitFails
<1>9. ASSUME NEW r \in Run, Stage(r), UNCHANGED avars PROVE ProgressInv'
  BY <1>9 DEF Stage, FirstId
<1>10. ASSUME NEW r \in Run, StageFails(r), UNCHANGED avars PROVE ProgressInv'
  BY <1>10 DEF StageFails
<1>11. ASSUME NEW r \in Run, AddVector(r), UNCHANGED avars PROVE ProgressInv'
  BY <1>11 DEF AddVector
<1>12. ASSUME NEW r \in Run, AddFails(r), UNCHANGED avars PROVE ProgressInv'
  BY <1>12 DEF AddFails, Compensation, Clean
<1>13. ASSUME NEW r \in Run, UsageFails(r), UNCHANGED avars PROVE ProgressInv'
  BY <1>13 DEF UsageFails, Compensation
<1>14. ASSUME NEW r \in Run, Commit(r), UNCHANGED avars PROVE ProgressInv'
  BY <1>14 DEF Commit, Committed, Invalidated, AtCommit, Leave
<1>15. ASSUME NEW r \in Run, CommitFails(r), UNCHANGED avars PROVE ProgressInv'
  BY <1>15 DEF CommitFails, Clean
<1>16. ASSUME NEW r \in Run, MarkFailed(r), UNCHANGED avars PROVE ProgressInv'
  BY <1>16 DEF MarkFailed, Leave
<1>17. ASSUME NEW r \in Run, DeleteVector(r), UNCHANGED avars PROVE ProgressInv'
  BY <1>17 DEF DeleteVector, Clean
<1>18. ASSUME NEW r \in Run, DeletesDone(r), UNCHANGED avars PROVE ProgressInv'
  BY <1>18 DEF DeletesDone, Leave
<1>19. ASSUME Rebuild, UNCHANGED avars PROVE ProgressInv'
  BY <1>19 DEF Rebuild
<1>20. ASSUME Crash PROVE ProgressInv'
  BY <1>20 DEF Crash, Clean
<1>21. ASSUME NEW a \in Answer, Submit(a) PROVE ProgressInv'
  BY <1>21 DEF Submit, vars
<1>22. ASSUME NEW a \in Answer, StartAnswer(a) PROVE ProgressInv'
  BY <1>22 DEF StartAnswer, vars
<1>23. ASSUME NEW a \in Answer, AnswerEmbedFails(a) PROVE ProgressInv'
  BY <1>23 DEF AnswerEmbedFails, vars
<1>24. ASSUME NEW a \in Answer, StageAnswer(a) PROVE ProgressInv'
  BY <1>24 DEF StageAnswer
<1>25. ASSUME NEW a \in Answer, AddAnswerVector(a) PROVE ProgressInv'
  BY <1>25 DEF AddAnswerVector
<1>26. ASSUME NEW a \in Answer, StoreAnswerFails(a) PROVE ProgressInv'
  BY <1>26 DEF StoreAnswerFails
<1>27. ASSUME NEW a \in Answer, CommitAnswer(a) PROVE ProgressInv'
  BY <1>27 DEF CommitAnswer, AnswerInvalidated
<1>28. ASSUME NEW a \in Answer, CommitAnswerFails(a) PROVE ProgressInv'
  BY <1>28 DEF CommitAnswerFails, AnswerInvalidated
<1>29. ASSUME UNCHANGED allVars PROVE ProgressInv'
  BY <1>29 DEF allVars, vars
<1> QED
  BY <1>1, <1>2, <1>3, <1>4, <1>5, <1>6, <1>7, <1>8, <1>9, <1>10, <1>11, <1>12, <1>13,
     <1>14, <1>15, <1>16, <1>17, <1>18, <1>19, <1>20, <1>21, <1>22, <1>23, <1>24, <1>25,
     <1>26, <1>27, <1>28, <1>29
  DEF AnswersNext, WorkAnswer, Next, Request, Work

LEMMA AnswersFlightNext ==
    ASSUME Clean, AInv, [AnswersNext]_allVars PROVE FlightInv'
 <1> USE DEF AInv, TypesInv, HolderInv, LoopInv, ProgressInv, AnswerPC, VectorId, Job, PC,
    Active, Awaiting, Sync, Finished, mysql, local, avars, Before, FlightInv, InFlightExact
<1>1. ASSUME NEW r \in Run, NEW d \in Doc, NEW t \in Tag \cup {NoTag},
             Upload(r, d, t), UNCHANGED avars
       PROVE FlightInv'
  BY SMTT(20), <1>1 DEF Upload, Schedule
<1>2. ASSUME NEW r \in Run, NEW d \in Doc, Retry(r, d), UNCHANGED avars PROVE FlightInv'
  BY <1>2 DEF Retry, Schedule
<1>3. ASSUME NEW r \in Run, Skip(r), UNCHANGED avars PROVE FlightInv'
  BY <1>3 DEF Skip
<1>4. ASSUME NEW r \in Run, StartUnreadable(r), UNCHANGED avars PROVE FlightInv'
  BY <1>4 DEF StartUnreadable, Begin
<1>5. ASSUME NEW r \in Run, StartEmpty(r), UNCHANGED avars PROVE FlightInv'
  BY <1>5 DEF StartEmpty, Begin
<1>6. ASSUME NEW r \in Run, StartChunks(r), UNCHANGED avars PROVE FlightInv'
  BY <1>6 DEF StartChunks, Begin
<1>7. ASSUME NEW r \in Run, ContextsReady(r), UNCHANGED avars PROVE FlightInv'
  BY <1>7 DEF ContextsReady
<1>8. ASSUME NEW r \in Run, AwaitFails(r), UNCHANGED avars PROVE FlightInv'
  BY <1>8 DEF AwaitFails
<1>9. ASSUME NEW r \in Run, Stage(r), UNCHANGED avars PROVE FlightInv'
  BY <1>9 DEF Stage, FirstId
<1>10. ASSUME NEW r \in Run, StageFails(r), UNCHANGED avars PROVE FlightInv'
  BY <1>10 DEF StageFails
<1>11. ASSUME NEW r \in Run, AddVector(r), UNCHANGED avars PROVE FlightInv'
  BY <1>11 DEF AddVector
<1>12. ASSUME NEW r \in Run, AddFails(r), UNCHANGED avars PROVE FlightInv'
  BY <1>12 DEF AddFails, Compensation, Clean
<1>13. ASSUME NEW r \in Run, UsageFails(r), UNCHANGED avars PROVE FlightInv'
  BY <1>13 DEF UsageFails, Compensation
<1>14. ASSUME NEW r \in Run, Commit(r), UNCHANGED avars PROVE FlightInv'
  BY <1>14 DEF Commit, Committed, Invalidated, AtCommit, Leave
<1>15. ASSUME NEW r \in Run, CommitFails(r), UNCHANGED avars PROVE FlightInv'
  BY <1>15 DEF CommitFails, Clean
<1>16. ASSUME NEW r \in Run, MarkFailed(r), UNCHANGED avars PROVE FlightInv'
  BY <1>16 DEF MarkFailed, Leave
<1>17. ASSUME NEW r \in Run, DeleteVector(r), UNCHANGED avars PROVE FlightInv'
  BY <1>17 DEF DeleteVector, Clean
<1>18. ASSUME NEW r \in Run, DeletesDone(r), UNCHANGED avars PROVE FlightInv'
  BY <1>18 DEF DeletesDone, Leave
<1>19. ASSUME Rebuild, UNCHANGED avars PROVE FlightInv'
  BY <1>19 DEF Rebuild
<1>20. ASSUME Crash PROVE FlightInv'
  BY <1>20 DEF Crash, Clean
<1>21. ASSUME NEW a \in Answer, Submit(a) PROVE FlightInv'
  BY <1>21 DEF Submit, vars
<1>22. ASSUME NEW a \in Answer, StartAnswer(a) PROVE FlightInv'
  BY <1>22 DEF StartAnswer, vars
<1>23. ASSUME NEW a \in Answer, AnswerEmbedFails(a) PROVE FlightInv'
  BY <1>23 DEF AnswerEmbedFails, vars
<1>24. ASSUME NEW a \in Answer, StageAnswer(a) PROVE FlightInv'
  BY <1>24 DEF StageAnswer
<1>25. ASSUME NEW a \in Answer, AddAnswerVector(a) PROVE FlightInv'
  BY <1>25 DEF AddAnswerVector
<1>26. ASSUME NEW a \in Answer, StoreAnswerFails(a) PROVE FlightInv'
  BY <1>26 DEF StoreAnswerFails
<1>27. ASSUME NEW a \in Answer, CommitAnswer(a) PROVE FlightInv'
  BY <1>27 DEF CommitAnswer, AnswerInvalidated
<1>28. ASSUME NEW a \in Answer, CommitAnswerFails(a) PROVE FlightInv'
  BY <1>28 DEF CommitAnswerFails, AnswerInvalidated
<1>29. ASSUME UNCHANGED allVars PROVE FlightInv'
  BY <1>29 DEF allVars, vars
<1> QED
  BY <1>1, <1>2, <1>3, <1>4, <1>5, <1>6, <1>7, <1>8, <1>9, <1>10, <1>11, <1>12, <1>13,
     <1>14, <1>15, <1>16, <1>17, <1>18, <1>19, <1>20, <1>21, <1>22, <1>23, <1>24, <1>25,
     <1>26, <1>27, <1>28, <1>29
  DEF AnswersNext, WorkAnswer, Next, Request, Work

LEMMA AnswersOwnersNext ==
    ASSUME Clean, AInv, [AnswersNext]_allVars PROVE OwnersInv'
 <1> USE DEF AInv, TypesInv, HolderInv, LoopInv, ProgressInv, AnswerPC, VectorId, Job, PC,
    Active, Awaiting, Sync, Finished, mysql, local, avars, Before, OwnersInv
<1>1. ASSUME NEW r \in Run, NEW d \in Doc, NEW t \in Tag \cup {NoTag},
             Upload(r, d, t), UNCHANGED avars
       PROVE OwnersInv'
  BY <1>1 DEF Upload, Schedule
<1>2. ASSUME NEW r \in Run, NEW d \in Doc, Retry(r, d), UNCHANGED avars PROVE OwnersInv'
  BY <1>2 DEF Retry, Schedule
<1>3. ASSUME NEW r \in Run, Skip(r), UNCHANGED avars PROVE OwnersInv'
  BY <1>3 DEF Skip
<1>4. ASSUME NEW r \in Run, StartUnreadable(r), UNCHANGED avars PROVE OwnersInv'
  BY <1>4 DEF StartUnreadable, Begin
<1>5. ASSUME NEW r \in Run, StartEmpty(r), UNCHANGED avars PROVE OwnersInv'
  BY <1>5 DEF StartEmpty, Begin
<1>6. ASSUME NEW r \in Run, StartChunks(r), UNCHANGED avars PROVE OwnersInv'
  BY <1>6 DEF StartChunks, Begin
<1>7. ASSUME NEW r \in Run, ContextsReady(r), UNCHANGED avars PROVE OwnersInv'
  BY <1>7 DEF ContextsReady
<1>8. ASSUME NEW r \in Run, AwaitFails(r), UNCHANGED avars PROVE OwnersInv'
  BY <1>8 DEF AwaitFails
<1>9. ASSUME NEW r \in Run, Stage(r), UNCHANGED avars PROVE OwnersInv'
  BY <1>9 DEF Stage, FirstId
<1>10. ASSUME NEW r \in Run, StageFails(r), UNCHANGED avars PROVE OwnersInv'
  BY SMTT(20), <1>10 DEF StageFails
<1>11. ASSUME NEW r \in Run, AddVector(r), UNCHANGED avars PROVE OwnersInv'
  BY <1>11 DEF AddVector
<1>12. ASSUME NEW r \in Run, AddFails(r), UNCHANGED avars PROVE OwnersInv'
  BY <1>12 DEF AddFails, Compensation, Clean
<1>13. ASSUME NEW r \in Run, UsageFails(r), UNCHANGED avars PROVE OwnersInv'
  BY <1>13 DEF UsageFails, Compensation
<1>14. ASSUME NEW r \in Run, Commit(r), UNCHANGED avars PROVE OwnersInv'
  BY <1>14 DEF Commit, Committed, Invalidated, AtCommit, Leave, RowsOf, NewRows, NewRow
<1>15. ASSUME NEW r \in Run, CommitFails(r), UNCHANGED avars PROVE OwnersInv'
  BY <1>15 DEF CommitFails, Clean
<1>16. ASSUME NEW r \in Run, MarkFailed(r), UNCHANGED avars PROVE OwnersInv'
  BY <1>16 DEF MarkFailed, Leave
<1>17. ASSUME NEW r \in Run, DeleteVector(r), UNCHANGED avars PROVE OwnersInv'
  BY <1>17 DEF DeleteVector, Clean
<1>18. ASSUME NEW r \in Run, DeletesDone(r), UNCHANGED avars PROVE OwnersInv'
  BY <1>18 DEF DeletesDone, Leave
<1>19. ASSUME Rebuild, UNCHANGED avars PROVE OwnersInv'
  BY <1>19 DEF Rebuild
<1>20. ASSUME Crash PROVE OwnersInv'
  BY <1>20 DEF Crash, Clean
<1>21. ASSUME NEW a \in Answer, Submit(a) PROVE OwnersInv'
  BY <1>21 DEF Submit, vars
<1>22. ASSUME NEW a \in Answer, StartAnswer(a) PROVE OwnersInv'
  BY <1>22 DEF StartAnswer, vars
<1>23. ASSUME NEW a \in Answer, AnswerEmbedFails(a) PROVE OwnersInv'
  BY <1>23 DEF AnswerEmbedFails, vars
<1>24. ASSUME NEW a \in Answer, StageAnswer(a) PROVE OwnersInv'
  BY <1>24 DEF StageAnswer
<1>25. ASSUME NEW a \in Answer, AddAnswerVector(a) PROVE OwnersInv'
  BY <1>25 DEF AddAnswerVector
<1>26. ASSUME NEW a \in Answer, StoreAnswerFails(a) PROVE OwnersInv'
  BY <1>26 DEF StoreAnswerFails
<1>27. ASSUME NEW a \in Answer, CommitAnswer(a) PROVE OwnersInv'
  BY <1>27 DEF CommitAnswer, AnswerInvalidated, AnswerRows
<1>28. ASSUME NEW a \in Answer, CommitAnswerFails(a) PROVE OwnersInv'
  BY <1>28 DEF CommitAnswerFails, AnswerInvalidated
<1>29. ASSUME UNCHANGED allVars PROVE OwnersInv'
  BY <1>29 DEF allVars, vars
<1> QED
  BY <1>1, <1>2, <1>3, <1>4, <1>5, <1>6, <1>7, <1>8, <1>9, <1>10, <1>11, <1>12, <1>13,
     <1>14, <1>15, <1>16, <1>17, <1>18, <1>19, <1>20, <1>21, <1>22, <1>23, <1>24, <1>25,
     <1>26, <1>27, <1>28, <1>29
  DEF AnswersNext, WorkAnswer, Next, Request, Work

LEMMA AnswersSnapshotNext ==
    ASSUME Clean, AInv, [AnswersNext]_allVars PROVE SnapshotInv'
 <1> USE DEF AInv, TypesInv, HolderInv, LoopInv, ProgressInv, AnswerPC, VectorId, Job, PC,
    Active, Awaiting, Sync, Finished, mysql, local, avars, Before, FlightInv, SnapshotInv,
    Vids, RowsOf
<1>1. ASSUME NEW r \in Run, NEW d \in Doc, NEW t \in Tag \cup {NoTag},
             Upload(r, d, t), UNCHANGED avars
       PROVE SnapshotInv'
  BY <1>1 DEF Upload, Schedule
<1>2. ASSUME NEW r \in Run, NEW d \in Doc, Retry(r, d), UNCHANGED avars PROVE SnapshotInv'
  BY <1>2 DEF Retry, Schedule
<1>3. ASSUME NEW r \in Run, Skip(r), UNCHANGED avars PROVE SnapshotInv'
  BY <1>3 DEF Skip
<1>4. ASSUME NEW r \in Run, StartUnreadable(r), UNCHANGED avars PROVE SnapshotInv'
  BY <1>4 DEF StartUnreadable, Begin
<1>5. ASSUME NEW r \in Run, StartEmpty(r), UNCHANGED avars PROVE SnapshotInv'
  BY <1>5 DEF StartEmpty, Begin
<1>6. ASSUME NEW r \in Run, StartChunks(r), UNCHANGED avars PROVE SnapshotInv'
  BY <1>6 DEF StartChunks, Begin
<1>7. ASSUME NEW r \in Run, ContextsReady(r), UNCHANGED avars PROVE SnapshotInv'
  BY <1>7 DEF ContextsReady
<1>8. ASSUME NEW r \in Run, AwaitFails(r), UNCHANGED avars PROVE SnapshotInv'
  BY <1>8 DEF AwaitFails
<1>9. ASSUME NEW r \in Run, Stage(r), UNCHANGED avars PROVE SnapshotInv'
  BY <1>9 DEF Stage, FirstId
<1>10. ASSUME NEW r \in Run, StageFails(r), UNCHANGED avars PROVE SnapshotInv'
  BY <1>10 DEF StageFails
<1>11. ASSUME NEW r \in Run, AddVector(r), UNCHANGED avars PROVE SnapshotInv'
  BY <1>11 DEF AddVector
<1>12. ASSUME NEW r \in Run, AddFails(r), UNCHANGED avars PROVE SnapshotInv'
  BY <1>12 DEF AddFails, Compensation, Clean
<1>13. ASSUME NEW r \in Run, UsageFails(r), UNCHANGED avars PROVE SnapshotInv'
  BY <1>13 DEF UsageFails, Compensation
<1>14. ASSUME NEW r \in Run, Commit(r), UNCHANGED avars PROVE SnapshotInv'
  BY <1>14 DEF Commit, Committed, Invalidated, AtCommit, Leave, NewRows, NewRow
<1>15. ASSUME NEW r \in Run, CommitFails(r), UNCHANGED avars PROVE SnapshotInv'
  BY <1>15 DEF CommitFails, Clean
<1>16. ASSUME NEW r \in Run, MarkFailed(r), UNCHANGED avars PROVE SnapshotInv'
  BY <1>16 DEF MarkFailed, Leave
<1>17. ASSUME NEW r \in Run, DeleteVector(r), UNCHANGED avars PROVE SnapshotInv'
  BY <1>17 DEF DeleteVector, Clean
<1>18. ASSUME NEW r \in Run, DeletesDone(r), UNCHANGED avars PROVE SnapshotInv'
  BY SMTT(20), <1>18 DEF DeletesDone, Leave
<1>19. ASSUME Rebuild, UNCHANGED avars PROVE SnapshotInv'
  BY <1>19 DEF Rebuild
<1>20. ASSUME Crash PROVE SnapshotInv'
  BY <1>20 DEF Crash, Clean
<1>21. ASSUME NEW a \in Answer, Submit(a) PROVE SnapshotInv'
  BY <1>21 DEF Submit, vars
<1>22. ASSUME NEW a \in Answer, StartAnswer(a) PROVE SnapshotInv'
  BY <1>22 DEF StartAnswer, vars
<1>23. ASSUME NEW a \in Answer, AnswerEmbedFails(a) PROVE SnapshotInv'
  BY <1>23 DEF AnswerEmbedFails, vars
<1>24. ASSUME NEW a \in Answer, StageAnswer(a) PROVE SnapshotInv'
  BY <1>24 DEF StageAnswer
<1>25. ASSUME NEW a \in Answer, AddAnswerVector(a) PROVE SnapshotInv'
  BY <1>25 DEF AddAnswerVector
<1>26. ASSUME NEW a \in Answer, StoreAnswerFails(a) PROVE SnapshotInv'
  BY <1>26 DEF StoreAnswerFails
<1>27. ASSUME NEW a \in Answer, CommitAnswer(a) PROVE SnapshotInv'
  BY <1>27 DEF CommitAnswer, AnswerInvalidated, AnswerRows
<1>28. ASSUME NEW a \in Answer, CommitAnswerFails(a) PROVE SnapshotInv'
  BY <1>28 DEF CommitAnswerFails, AnswerInvalidated
<1>29. ASSUME UNCHANGED allVars PROVE SnapshotInv'
  BY <1>29 DEF allVars, vars
<1> QED
  BY <1>1, <1>2, <1>3, <1>4, <1>5, <1>6, <1>7, <1>8, <1>9, <1>10, <1>11, <1>12, <1>13,
     <1>14, <1>15, <1>16, <1>17, <1>18, <1>19, <1>20, <1>21, <1>22, <1>23, <1>24, <1>25,
     <1>26, <1>27, <1>28, <1>29
  DEF AnswersNext, WorkAnswer, Next, Request, Work

\* What an answer has added when it fails is left behind.
LEMMA LeftBehind ==
    ASSUME AInv, NEW a \in Answer, apc[a] = "adding",
           apc' = [apc EXCEPT ![a] = "failed"], UNCHANGED aadded
    PROVE  Abandoned' = Held \cup Abandoned
<1>1. Held = {<<a, k>> : k \in 1..aadded[a]}
  BY HeldByAnswer
<1>2. aadded[a] \in 0..MaxAnswerChunks /\ apc \in [Answer -> AnswerPC]
  BY DEF AInv, TypesInv
<1>3. ASSUME NEW v PROVE v \in Abandoned' <=> v \in Held \/ v \in Abandoned
  BY <1>1, <1>2 DEF Abandoned
<1> QED
  BY <1>3

LEMMA AnswersExplainedNext ==
    ASSUME Clean, AInv, [AnswersNext]_allVars PROVE ExplainedInv'
 <1> USE DEF AInv, TypesInv, HolderInv, LoopInv, ProgressInv, AnswerPC, VectorId, Job, PC,
    Active, Awaiting, Sync, Finished, mysql, local, avars, Before
<1>1. ASSUME NEW r \in Run, NEW d \in Doc, NEW t \in Tag \cup {NoTag},
             Upload(r, d, t), UNCHANGED avars
       PROVE ExplainedInv'
  BY ZenonT(40), <1>1 DEF Upload, Schedule, ExplainedInv, Held, Abandoned, Vids
<1>2. ASSUME NEW r \in Run, NEW d \in Doc, Retry(r, d), UNCHANGED avars PROVE ExplainedInv'
  BY <1>2 DEF Retry, Schedule, ExplainedInv, Held, Abandoned, Vids
<1>3. ASSUME NEW r \in Run, Skip(r), UNCHANGED avars PROVE ExplainedInv'
  BY ZenonT(40), <1>3 DEF Skip, ExplainedInv, Held, Abandoned, Vids
<1>4. ASSUME NEW r \in Run, StartUnreadable(r), UNCHANGED avars PROVE ExplainedInv'
  BY ZenonT(40), <1>4 DEF StartUnreadable, Begin, ExplainedInv, Held, Abandoned, Vids
<1>5. ASSUME NEW r \in Run, StartEmpty(r), UNCHANGED avars PROVE ExplainedInv'
  BY ZenonT(40), <1>5 DEF StartEmpty, Begin, ExplainedInv, Held, Abandoned, Vids
<1>6. ASSUME NEW r \in Run, StartChunks(r), UNCHANGED avars PROVE ExplainedInv'
  BY ZenonT(40), <1>6 DEF StartChunks, Begin, ExplainedInv, Held, Abandoned, Vids
<1>7. ASSUME NEW r \in Run, ContextsReady(r), UNCHANGED avars PROVE ExplainedInv'
  BY ZenonT(40), <1>7 DEF ContextsReady, ExplainedInv, Held, Abandoned, Vids
<1>8. ASSUME NEW r \in Run, AwaitFails(r), UNCHANGED avars PROVE ExplainedInv'
  BY ZenonT(40), <1>8 DEF AwaitFails, ExplainedInv, Held, Abandoned, Vids
<1>9. ASSUME NEW r \in Run, Stage(r), UNCHANGED avars PROVE ExplainedInv'
  <2>1. Held = {} /\ Abandoned' = Abandoned
    BY <1>9, HeldWhenIdle, AbandonedStays DEF Stage
  <2>2. loop' = r /\ pc'[r] = "adding" /\ added'[r] = 0
    BY <1>9 DEF Stage
  <2>3. Held' = {}
    BY <2>2 DEF Held
  <2> QED
    BY <1>9, <2>1, <2>3, Unmoved DEF Stage
<1>10. ASSUME NEW r \in Run, StageFails(r), UNCHANGED avars PROVE ExplainedInv'
  BY ZenonT(40), <1>10 DEF StageFails, ExplainedInv, Held, Abandoned, Vids
<1>11. ASSUME NEW r \in Run, AddVector(r), UNCHANGED avars PROVE ExplainedInv'
  <2>1. loop = r /\ Held = {<<r, k>> : k \in 1..added[r]} /\ Abandoned' = Abandoned
    BY <1>11, HeldByRun, AbandonedStays DEF AddVector
  <2>2. added'[r] = added[r] + 1 /\ added[r] \in Nat /\ loop' = r /\ pc'[r] = "adding"
    BY <1>11, <2>1 DEF AddVector
  <2>3. 1..added'[r] = 1..added[r] \cup {added[r] + 1}
    BY <2>2, OneMore
  <2>4. Held' = Held \cup {<<r, added[r] + 1>>}
    BY <2>1, <2>2, <2>3 DEF Held
  <2>5. Vids(vectors)' = Vids(vectors) \cup {<<r, added[r] + 1>>} /\ Vids(rows)' = Vids(rows)
    BY <1>11, VidsWithNewVector DEF AddVector, Vids
  <2>6. <<r, added[r] + 1>> \notin Vids(rows)
    BY <1>11, <2>2, NoRowYet DEF AddVector
  <2> QED
    BY <2>1, <2>4, <2>5, <2>6 DEF ExplainedInv
<1>12. ASSUME NEW r \in Run, AddFails(r), UNCHANGED avars PROVE ExplainedInv'
  <2>1. loop = r /\ Held = {<<r, k>> : k \in 1..added[r]} /\ Abandoned' = Abandoned
    BY <1>12, HeldByRun, AbandonedStays DEF AddFails
  <2>2. loop' = r /\ pc'[r] = "compensating" /\ todo'[r] = {<<r, k>> : k \in 1..added[r]}
    BY <1>12, <2>1 DEF AddFails, Compensation
  <2>3. Held' = Held
    BY <2>1, <2>2 DEF Held
  <2>4. UNCHANGED <<rows, vectors>>
    BY <1>12 DEF AddFails, Clean
  <2> QED
    BY <2>1, <2>3, <2>4, Unmoved
<1>13. ASSUME NEW r \in Run, UsageFails(r), UNCHANGED avars PROVE ExplainedInv'
  <2>1. loop = r /\ Held = {<<r, k>> : k \in 1..added[r]} /\ Abandoned' = Abandoned
    BY <1>13, HeldByRun, AbandonedStays DEF UsageFails
  <2>2. loop' = r /\ pc'[r] = "compensating" /\ todo'[r] = {<<r, k>> : k \in 1..added[r]}
    BY <1>13, <2>1 DEF UsageFails, Compensation
  <2>3. Held' = Held
    BY <2>1, <2>2 DEF Held
  <2>4. UNCHANGED <<rows, vectors>>
    BY <1>13 DEF UsageFails
  <2> QED
    BY <2>1, <2>3, <2>4, Unmoved
<1>14. ASSUME NEW r \in Run, Commit(r), UNCHANGED avars PROVE ExplainedInv'
  <2>1. Abandoned' = Abandoned /\ Vids(vectors)' = Vids(vectors)
    BY <1>14, AbandonedStays DEF Commit, Vids
  <2>2. CASE pc[r] = "empty"
    <3>1. Held = {}
      BY <2>2, HeldByRun
    <3>2. Held' = {}
      BY <1>14, <2>2 DEF Commit, Leave, Held
    <3> QED
      BY <1>14, <2>1, <2>2, <3>1, <3>2, Unmoved DEF Commit, Committed
  <2>3. CASE pc[r] = "adding"
    <3>1. added[r] = size[r] /\ job[r].doc \in Doc /\ old[r] = Vids(RowsOf(job[r].doc))
      BY <1>14, <2>3 DEF Commit, AtCommit, SnapshotInv
    <3>2. Held = {<<r, k>> : k \in 1..size[r]} /\ loop = r
      BY <2>3, <3>1, HeldByRun
    <3>3. ASSUME NEW row \in RowsOf(job[r].doc) PROVE row.vid \in old[r]
      BY <3>1 DEF Vids
    <3>4. rows' = (rows \ RowsOf(job[r].doc)) \cup NewRows(r)
      BY <1>14, <2>3, <3>3 DEF Commit, Committed
    <3>5. Vids(NewRows(r)) = Held
      BY <3>2, VidsOfNewRows
    <3>6. Vids(rows)' = Vids(rows \ RowsOf(job[r].doc)) \cup Vids(NewRows(r))
      BY <3>4 DEF Vids
    <3>7. Vids(rows)' = (Vids(rows) \ old[r]) \cup Held
      BY <3>1, <3>5, <3>6, VidsApart
    <3>8. Held' = old[r]
      <4>1. CASE old[r] = {}
        BY <1>14, <2>3, <4>1 DEF Commit, Leave, Held
      <4>2. CASE old[r] # {}
        <5>1. loop' = r /\ pc'[r] = "cleanup" /\ todo'[r] = old[r]
          BY <1>14, <2>3, <4>2, <3>2 DEF Commit
        <5> QED
          BY <5>1 DEF Held
      <4> QED
        BY <4>1, <4>2
    <3>9. old[r] \subseteq Vids(rows)
      BY <3>1 DEF Vids, RowsOf
    <3>10. Abandoned \cap Held = {}
      BY <3>2, AnswerAssumption DEF Abandoned
    <3> QED
      BY <2>1, <3>7, <3>8, <3>9, <3>10 DEF ExplainedInv
  <2> QED
    BY <1>14, <2>2, <2>3 DEF Commit, AtCommit
<1>15. ASSUME NEW r \in Run, CommitFails(r), UNCHANGED avars PROVE ExplainedInv'
  BY <1>15 DEF CommitFails, Clean, ExplainedInv, Held, Abandoned, Vids
<1>16. ASSUME NEW r \in Run, MarkFailed(r), UNCHANGED avars PROVE ExplainedInv'
  <2>1. Held = {} /\ Abandoned' = Abandoned
    BY <1>16, HeldByRun, AbandonedStays DEF MarkFailed
  <2>2. Held' = {}
    BY <1>16 DEF MarkFailed, Leave, Held
  <2> QED
    BY <1>16, <2>1, <2>2, Unmoved DEF MarkFailed
<1>17. ASSUME NEW r \in Run, DeleteVector(r), UNCHANGED avars PROVE ExplainedInv'
  <2>1. loop = r /\ Held = todo[r] /\ Abandoned' = Abandoned /\ Vids(rows)' = Vids(rows)
    BY <1>17, HeldByRun, AbandonedStays DEF DeleteVector, Vids
  <2>2. PICK v \in todo[r] : todo' = [todo EXCEPT ![r] = @ \ {v}]
                           /\ vectors' = {x \in vectors : x.vid # v}
    BY <1>17 DEF DeleteVector, Clean
  <2>3. Held' = Held \ {v}
    BY <1>17, <2>1, <2>2 DEF DeleteVector, Held
  <2>4. Vids(vectors)' = Vids(vectors) \ {v}
    BY <2>2 DEF Vids
  <2>5. v \notin Abandoned
    <3>1. v \in VectorId
      OBVIOUS
    <3> QED
      BY <3>1, AnswerAssumption DEF Abandoned
  <2> QED
    BY <2>1, <2>2, <2>3, <2>4, <2>5 DEF ExplainedInv
<1>18. ASSUME NEW r \in Run, DeletesDone(r), UNCHANGED avars PROVE ExplainedInv'
  <2>1. loop = r /\ Held = {} /\ Abandoned' = Abandoned
    BY <1>18, HeldByRun, AbandonedStays DEF DeletesDone
  <2>2. Held' = {}
    BY <1>18, <2>1 DEF DeletesDone, Leave, Held
  <2> QED
    BY <1>18, <2>1, <2>2, Unmoved DEF DeletesDone
<1>19. ASSUME Rebuild, UNCHANGED avars PROVE ExplainedInv'
  BY <1>19 DEF Rebuild, ExplainedInv, Held, Abandoned, Vids
<1>20. ASSUME Crash PROVE ExplainedInv'
  BY <1>20 DEF Crash, Clean
<1>21. ASSUME NEW a \in Answer, Submit(a) PROVE ExplainedInv'
  BY ZenonT(40), <1>21 DEF Submit, vars, ExplainedInv, Held, Abandoned, Vids
<1>22. ASSUME NEW a \in Answer, StartAnswer(a) PROVE ExplainedInv'
  BY ZenonT(40), <1>22 DEF StartAnswer, vars, ExplainedInv, Held, Abandoned, Vids
<1>23. ASSUME NEW a \in Answer, AnswerEmbedFails(a) PROVE ExplainedInv'
  <2>1. Held = {} /\ Held' = {}
    BY <1>23 DEF AnswerEmbedFails, Held, vars
  <2>2. aadded[a] = 0
    BY <1>23 DEF AnswerEmbedFails
  <2>3. Abandoned' = Abandoned
    BY <1>23, <2>2 DEF AnswerEmbedFails, Abandoned
  <2> QED
    BY <1>23, <2>1, <2>3, Unmoved DEF AnswerEmbedFails, vars
<1>24. ASSUME NEW a \in Answer, StageAnswer(a) PROVE ExplainedInv'
  <2>1. Held = {} /\ aadded'[a] = 0 /\ loop' = a
    BY <1>24, HeldWhenIdle DEF StageAnswer
  <2>2. Held' = {}
    BY <2>1 DEF Held
  <2>3. Abandoned' = Abandoned
    BY <1>24 DEF StageAnswer, Abandoned
  <2> QED
    BY <1>24, <2>1, <2>2, <2>3, Unmoved DEF StageAnswer
<1>25. ASSUME NEW a \in Answer, AddAnswerVector(a) PROVE ExplainedInv'
  <2>1. loop = a /\ Held = {<<a, k>> : k \in 1..aadded[a]}
    BY <1>25, HeldByAnswer DEF AddAnswerVector
  <2>2. aadded'[a] = aadded[a] + 1 /\ aadded[a] \in Nat /\ loop' = a
    BY <1>25, <2>1 DEF AddAnswerVector
  <2>3. 1..aadded'[a] = 1..aadded[a] \cup {aadded[a] + 1}
    BY <2>2, OneMore
  <2>4. Held' = Held \cup {<<a, aadded[a] + 1>>}
    BY <2>1, <2>2, <2>3 DEF Held
  <2>5. Vids(vectors)' = Vids(vectors) \cup {<<a, aadded[a] + 1>>} /\ Vids(rows)' = Vids(rows)
    BY <1>25, VidsWithAnswerVector DEF AddAnswerVector, Vids
  <2>6. <<a, aadded[a] + 1>> \notin Vids(rows)
    BY <1>25, <2>2, NoRowYet DEF AddAnswerVector
  <2>7. Abandoned' = Abandoned
    BY <1>25 DEF AddAnswerVector, Abandoned
  <2> QED
    BY <2>4, <2>5, <2>6, <2>7 DEF ExplainedInv
<1>26. ASSUME NEW a \in Answer, StoreAnswerFails(a) PROVE ExplainedInv'
  <2>1. Held \cup Abandoned = Abandoned'
    BY <1>26, LeftBehind DEF StoreAnswerFails
  <2>2. Held' = {}
    BY <1>26 DEF StoreAnswerFails, Held
  <2> QED
    BY <1>26, <2>1, <2>2, Unmoved DEF StoreAnswerFails
<1>27. ASSUME NEW a \in Answer, CommitAnswer(a) PROVE ExplainedInv'
  <2>1. Held = {<<a, k>> : k \in 1..asize[a]} /\ Held' = {}
    BY <1>27, HeldByAnswer DEF CommitAnswer, Held
  <2>2. Vids(AnswerRows(a)) = Held
    BY <2>1, VidsOfAnswerRows
  <2>3. Vids(rows)' = Vids(rows) \cup Held /\ Vids(vectors)' = Vids(vectors)
    BY <1>27, <2>2 DEF CommitAnswer, Vids
  <2>4. Abandoned' = Abandoned
    BY <1>27 DEF CommitAnswer, Abandoned
  <2>5. Held \cap Abandoned = {}
    BY <1>27, <2>1 DEF CommitAnswer, Abandoned
  <2> QED
    BY <2>1, <2>3, <2>4, <2>5 DEF ExplainedInv
<1>28. ASSUME NEW a \in Answer, CommitAnswerFails(a) PROVE ExplainedInv'
  <2>1. Held \cup Abandoned = Abandoned'
    BY <1>28, LeftBehind DEF CommitAnswerFails
  <2>2. Held' = {}
    BY <1>28 DEF CommitAnswerFails, Held
  <2> QED
    BY <1>28, <2>1, <2>2, Unmoved DEF CommitAnswerFails
<1>29. ASSUME UNCHANGED allVars PROVE ExplainedInv'
  <2>1. Held' = Held /\ Abandoned' = Abandoned
    BY <1>29 DEF allVars, vars, avars, Held, Abandoned
  <2> QED
    BY <1>29, <2>1, Unmoved DEF allVars, vars
<1> QED
  BY <1>1, <1>2, <1>3, <1>4, <1>5, <1>6, <1>7, <1>8, <1>9, <1>10, <1>11, <1>12, <1>13,
     <1>14, <1>15, <1>16, <1>17, <1>18, <1>19, <1>20, <1>21, <1>22, <1>23, <1>24, <1>25,
     <1>26, <1>27, <1>28, <1>29
  DEF AnswersNext, WorkAnswer, Next, Request, Work


LEMMA AnswersInvInit == AnswersInit => AInv
<1> SUFFICES ASSUME AnswersInit PROVE AInv
  OBVIOUS
<1> USE DEF AnswersInit, Init, Active, Awaiting, Sync, Finished
<1>1. TypesInv
  BY DEF TypesInv, PC, NoJob, AnswerPC
<1>2. HolderInv /\ ProgressInv
  BY DEF HolderInv, LoopInv, ProgressInv, Before
<1>3. FlightInv /\ SnapshotInv
  BY DEF FlightInv, InFlightExact, SnapshotInv
<1>4. OwnersInv
  BY DEF OwnersInv
<1>5. ExplainedInv
  BY DEF ExplainedInv, Held, Abandoned, Vids
<1> QED
  BY <1>1, <1>2, <1>3, <1>4, <1>5 DEF AInv

LEMMA AnswersInvNext == Clean /\ AInv /\ [AnswersNext]_allVars => AInv'
BY AnswersTypesNext, AnswersHolderNext, AnswersProgressNext, AnswersFlightNext,
   AnswersSnapshotNext, AnswersOwnersNext, AnswersExplainedNext
DEF AInv

\* With failures after which a document's run takes back what it did, Chroma holds
\* the vectors of the committed rows and, besides them, exactly those that answers had
\* added before they failed, whenever a request can run.
THEOREM IndexIsExplained == ASSUME Clean PROVE AnswersFairSpec => []IndexExplained
<1>1. AInv => IndexExplained
  <2> SUFFICES ASSUME AInv, loop = Idle PROVE IndexExplained
    BY DEF IndexExplained
  <2>1. Held = {}
    BY HeldWhenIdle
  <2> QED
    BY <2>1 DEF AInv, ExplainedInv, IndexExplained
<1>2. AInv /\ [AnswersNext]_allVars => AInv'
  BY AnswersInvNext
<1> QED
  BY <1>1, <1>2, AnswersInvInit, PTL DEF AnswersFairSpec

LEMMA AnswersIndexNext ==
    ASSUME IndexInv, [AnswersNext]_allVars PROVE IndexInv'
 <1> USE DEF IndexInv, mysql, local, avars
<1>1. ASSUME NEW r \in Run, NEW d \in Doc, NEW t \in Tag \cup {NoTag},
             Upload(r, d, t), UNCHANGED avars
       PROVE IndexInv'
  BY <1>1 DEF Upload, Schedule
<1>2. ASSUME NEW r \in Run, NEW d \in Doc, Retry(r, d), UNCHANGED avars PROVE IndexInv'
  BY <1>2 DEF Retry, Schedule
<1>3. ASSUME NEW r \in Run, Skip(r), UNCHANGED avars PROVE IndexInv'
  BY <1>3 DEF Skip
<1>4. ASSUME NEW r \in Run, StartUnreadable(r), UNCHANGED avars PROVE IndexInv'
  BY <1>4 DEF StartUnreadable, Begin
<1>5. ASSUME NEW r \in Run, StartEmpty(r), UNCHANGED avars PROVE IndexInv'
  BY <1>5 DEF StartEmpty, Begin
<1>6. ASSUME NEW r \in Run, StartChunks(r), UNCHANGED avars PROVE IndexInv'
  BY <1>6 DEF StartChunks, Begin
<1>7. ASSUME NEW r \in Run, ContextsReady(r), UNCHANGED avars PROVE IndexInv'
  BY <1>7 DEF ContextsReady
<1>8. ASSUME NEW r \in Run, AwaitFails(r), UNCHANGED avars PROVE IndexInv'
  BY <1>8 DEF AwaitFails
<1>9. ASSUME NEW r \in Run, Stage(r), UNCHANGED avars PROVE IndexInv'
  BY <1>9 DEF Stage, FirstId
<1>10. ASSUME NEW r \in Run, StageFails(r), UNCHANGED avars PROVE IndexInv'
  BY <1>10 DEF StageFails
<1>11. ASSUME NEW r \in Run, AddVector(r), UNCHANGED avars PROVE IndexInv'
  BY <1>11 DEF AddVector
<1>12. ASSUME NEW r \in Run, AddFails(r), UNCHANGED avars PROVE IndexInv'
  BY <1>12 DEF AddFails, Compensation
<1>13. ASSUME NEW r \in Run, UsageFails(r), UNCHANGED avars PROVE IndexInv'
  BY <1>13 DEF UsageFails, Compensation
<1>14. ASSUME NEW r \in Run, Commit(r), UNCHANGED avars PROVE IndexInv'
  BY <1>14 DEF Commit, Committed, Invalidated, AtCommit, Leave
<1>15. ASSUME NEW r \in Run, CommitFails(r), UNCHANGED avars PROVE IndexInv'
  BY <1>15 DEF CommitFails, Committed, Invalidated, AtCommit
<1>16. ASSUME NEW r \in Run, MarkFailed(r), UNCHANGED avars PROVE IndexInv'
  BY <1>16 DEF MarkFailed, Leave
<1>17. ASSUME NEW r \in Run, DeleteVector(r), UNCHANGED avars PROVE IndexInv'
  BY <1>17 DEF DeleteVector
<1>18. ASSUME NEW r \in Run, DeletesDone(r), UNCHANGED avars PROVE IndexInv'
  BY <1>18 DEF DeletesDone, Leave
<1>19. ASSUME Rebuild, UNCHANGED avars PROVE IndexInv'
  BY <1>19 DEF Rebuild
<1>20. ASSUME Crash PROVE IndexInv'
  BY <1>20 DEF Crash
<1>21. ASSUME NEW a \in Answer, Submit(a) PROVE IndexInv'
  BY <1>21 DEF Submit, vars
<1>22. ASSUME NEW a \in Answer, StartAnswer(a) PROVE IndexInv'
  BY <1>22 DEF StartAnswer, vars
<1>23. ASSUME NEW a \in Answer, AnswerEmbedFails(a) PROVE IndexInv'
  BY <1>23 DEF AnswerEmbedFails, vars
<1>24. ASSUME NEW a \in Answer, StageAnswer(a) PROVE IndexInv'
  BY <1>24 DEF StageAnswer
<1>25. ASSUME NEW a \in Answer, AddAnswerVector(a) PROVE IndexInv'
  BY <1>25 DEF AddAnswerVector
<1>26. ASSUME NEW a \in Answer, StoreAnswerFails(a) PROVE IndexInv'
  BY <1>26 DEF StoreAnswerFails
<1>27. ASSUME NEW a \in Answer, CommitAnswer(a) PROVE IndexInv'
  BY <1>27 DEF CommitAnswer, AnswerInvalidated
<1>28. ASSUME NEW a \in Answer, CommitAnswerFails(a) PROVE IndexInv'
  BY <1>28 DEF CommitAnswerFails, AnswerInvalidated
<1>29. ASSUME UNCHANGED allVars PROVE IndexInv'
  BY <1>29 DEF allVars, vars
<1> QED
  BY <1>1, <1>2, <1>3, <1>4, <1>5, <1>6, <1>7, <1>8, <1>9, <1>10, <1>11, <1>12, <1>13,
     <1>14, <1>15, <1>16, <1>17, <1>18, <1>19, <1>20, <1>21, <1>22, <1>23, <1>24, <1>25,
     <1>26, <1>27, <1>28, <1>29
  DEF AnswersNext, WorkAnswer, Next, Request, Work

\* Whatever fails, no BM25 index outlives a commit, also with answers that commit
\* between the runs of documents.
THEOREM NoIndexOutlivesAnswer == AnswersFairSpec => []IndexSinceCommit
<1>1. AnswersInit => IndexInv
  BY DEF AnswersInit, Init, IndexInv
<1>2. IndexInv /\ [AnswersNext]_allVars => IndexInv'
  BY AnswersIndexNext
<1>3. IndexInv => IndexSinceCommit
  BY DEF IndexInv, IndexSinceCommit
<1> QED
  BY <1>1, <1>2, <1>3, PTL DEF AnswersFairSpec
=============================================================================
