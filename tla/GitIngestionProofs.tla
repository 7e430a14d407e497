------------------------- MODULE GitIngestionProofs -------------------------
(***************************************************************************)
(* Proofs about GitIngestion, for any number of batches and commits and    *)
(* whatever fails: no index outlives a commit, every vector is            *)
(* accounted for, commits are indexed whole and once and appear with their *)
(* batch (the refinement of CommitIndex), and the cap holds.               *)
(***************************************************************************)
EXTENDS GitIngestion, FiniteSetTheorems, SequenceTheorems, TLAPS

-----------------------------------------------------------------------------
\* Lemmas about the operators.

\* A bounded set of numbers has the maximum Max chooses.
LEMMA MaxIsIn ==
    ASSUME NEW S \in SUBSET Nat, S # {}, NEW n \in Nat, \A s \in S : s <= n
    PROVE  Max(S) \in S /\ \A s \in S : Max(S) >= s
<1> DEFINE T == {n - s : s \in S}
<1>1. T \subseteq Nat /\ T # {}
  <2>1. \A s \in S : n - s \in Nat
    OBVIOUS
  <2>2. \E s \in S : n - s \in T
    OBVIOUS
  <2> QED
    BY <2>1, <2>2
<1>2. \E x \in T : \A y \in T : ~(y < x)
  <2> HIDE DEF T
  <2>1. \E x \in T : \A y \in T : <<y, x>> \notin OpToRel(<, Nat)
    BY <1>1, NatLessThanWellFounded, WFMin
  <2> QED
    BY <1>1, <2>1 DEF OpToRel
<1>3. PICK m \in S : \A y \in T : ~(y < n - m)
  BY <1>2
<1>4. ASSUME NEW s \in S PROVE m >= s
  <2>1. n - s \in T
    OBVIOUS
  <2>2. ~(n - s < n - m)
    BY <2>1, <1>3
  <2> QED
    BY <2>2
<1> QED
  BY <1>4 DEF Max

-----------------------------------------------------------------------------
\* Types, and where a batch stands.

Flow(b) ==
    /\ pc[b] \in {"new", "queued"} =>
         at[b] = 1 /\ indexed[b] = <<>> /\ failed[b] = {} /\ attempts[b] = 0
    /\ pc[b] # "new" => batch[b] \in Payloads /\ at[b] <= Len(batch[b]) + 1
    /\ pc[b] \in {"author", "embedding"} => at[b] <= Len(batch[b])
    /\ pc[b] = "analyzing" => at[b] = Len(batch[b]) + 1
    /\ pc[b] \in {"new", "queued", "next", "author"} => ~new[b]

TypeInv ==
    /\ settings \in Settings
    /\ db \in [Hash -> Row]
    /\ usage \in Nat \cup {NoUsage}
    /\ vectors \subseteq Chunk /\ undeleted \subseteq Chunk
    /\ seen \subseteq SUBSET Chunk
    /\ bm25 \subseteq [from : SUBSET Chunk, since : SUBSET Chunk]
    /\ loop \in Batch \cup {Idle}
    /\ pc \in [Batch -> {"new", "queued"} \cup Active \cup Ended]
    /\ batch \in [Batch -> {None} \cup Payloads]
    /\ at \in [Batch -> Nat \ {0}]
    /\ view \in [Batch -> [rows : [Hash -> Row], usage : Nat \cup {NoUsage}]]
    /\ locks \in [Batch -> SUBSET Hash]
    /\ new \in [Batch -> BOOLEAN]
    /\ indexed \in [Batch -> Seq(Item)]
    /\ failed \in [Batch -> SUBSET Nat]
    /\ attempts \in [Batch -> Nat] /\ tokens \in [Batch -> Nat]
    /\ \A b \in Batch : pc[b] = "next" <=> loop = b
    /\ \A b \in Batch : Flow(b)

LEMMA TypesStart == Init => TypeInv
<1> SUFFICES ASSUME Init PROVE TypeInv
  OBVIOUS
<1>1. EmptyDb \in [Hash -> Row]
  BY DEF EmptyDb, Row
<1>2. <<>> \in Seq(Item)
  OBVIOUS
<1> QED
  BY <1>1, <1>2, IdleAssumption DEF Init, TypeInv, Flow, Active, Suspended, Ended, Committed

\* A batch that is under way has a commit at hand.
LEMMA CurrentIs ==
    ASSUME TypeInv, NEW b \in Batch, pc[b] # "new", at[b] <= Len(Commits(b))
    PROVE  /\ Commits(b) \in Seq(Hash) /\ Commits(b) = batch[b]
           /\ at[b] \in DOMAIN Commits(b) /\ at[b] \in 1..Len(Commits(b))
           /\ Current(b) \in Hash /\ Mine(b) \in Row
<1>1. Commits(b) \in Seq(Hash)
  BY PayloadAssumption DEF TypeInv, Flow, Commits
<1>2. at[b] \in 1..Len(Commits(b)) /\ DOMAIN Commits(b) = 1..Len(Commits(b))
  BY <1>1 DEF TypeInv
<1>3. Current(b) \in Hash
  BY <1>1, <1>2 DEF Current
<1> QED
  BY <1>1, <1>2, <1>3 DEF Mine, TypeInv, Commits

LEMMA ChunksOfAre ==
    ASSUME NEW b \in Batch, NEW i \in Nat
    PROVE  /\ ChunksOf(b, i) \subseteq Chunk /\ ChunksOf(b, i) # {}
           /\ \A v \in ChunksOf(b, i) : v[1] = b /\ v[2] = i
<1>1. \A n \in 1..ChunkCount : <<b, i, n>> \in Chunk
  BY DEF Chunk
<1>2. <<b, i, 1>> \in ChunksOf(b, i)
  BY CountAssumption DEF ChunksOf
<1>3. ASSUME NEW v \in ChunksOf(b, i) PROVE v \in Chunk /\ v[1] = b /\ v[2] = i
  <2>1. PICK n \in 1..ChunkCount : v = <<b, i, n>>
    BY <1>3 DEF ChunksOf
  <2> QED
    BY <2>1, <1>1
<1> QED
  BY <1>2, <1>3

\* What the end of a batch leaves of a commit.
OwnChunks(b, h) == {v \in view[b].rows[h].chunks : v[1] = b}

LEMMA WrittenIs ==
    ASSUME TypeInv, NEW b \in Batch, NEW saved \in SUBSET DOMAIN indexed[b],
           NEW how \in [saved -> {"llm", "fallback"}], NEW h \in Hash
    PROVE  LET w == Written(b, saved, how) IN
           /\ w \in [Hash -> Row]
           /\ w[h].exists <=> (db[h].exists \/ view[b].rows[h].exists)
           /\ w[h].chunks = db[h].chunks \cup OwnChunks(b, h)
           /\ w[h].analysis \in {db[h].analysis, "llm", "fallback"}
           /\ \A k \in saved : indexed[b][k].hash = h => w[h].analysis # NoAnalysis
<1>1. /\ indexed[b] \in Seq(Item) /\ DOMAIN indexed[b] = 1..Len(indexed[b])
      /\ Len(indexed[b]) \in Nat
  BY DEF TypeInv
<1> DEFINE ks(g) == {k \in saved : indexed[b][k].hash = g}
           w == Written(b, saved, how)
           an(g) == IF ks(g) = {} THEN db[g].analysis ELSE how[Max(ks(g))]
<1>2. ASSUME NEW g \in Hash, ks(g) # {} PROVE how[Max(ks(g))] \in {"llm", "fallback"}
  <2> DEFINE S == ks(g)
  <2>1. S \in SUBSET Nat /\ S # {} /\ S \subseteq saved /\ \A k \in S : k <= Len(indexed[b])
    BY <1>1, <1>2
  <2> HIDE DEF S
  <2>2. Max(S) \in S
    BY <2>1, <1>1, MaxIsIn
  <2>3. Max(S) \in saved
    BY <2>1, <2>2
  <2>4. how[Max(S)] \in {"llm", "fallback"}
    BY <2>3
  <2> QED
    BY <2>4 DEF S
<1>3. ASSUME NEW g \in Hash
      PROVE  /\ an(g) \in {db[g].analysis, "llm", "fallback"}
             /\ ks(g) # {} => an(g) # NoAnalysis
  <2>1. CASE ks(g) = {}
    BY <2>1
  <2>2. CASE ks(g) # {}
    BY <2>2, <1>2, IdleAssumption
  <2> QED
    BY <2>1, <2>2
<1>4. ASSUME NEW g \in Hash
      PROVE  /\ db[g] \in Row /\ view[b].rows[g] \in Row
             /\ db[g].exists \in BOOLEAN /\ view[b].rows[g].exists \in BOOLEAN
             /\ db[g].chunks \subseteq Chunk /\ OwnChunks(b, g) \subseteq Chunk
             /\ db[g].analysis \in {"llm", "fallback", NoAnalysis}
  BY DEF TypeInv, Row, OwnChunks
<1> DEFINE row(g) == [exists |-> db[g].exists \/ view[b].rows[g].exists,
                      chunks |-> db[g].chunks \cup OwnChunks(b, g), analysis |-> an(g)]
<1>5. w = [g \in Hash |-> row(g)]
  BY DEF Written, OwnChunks
<1>6. ASSUME NEW g \in Hash
      PROVE  /\ row(g) \in Row
             /\ row(g).exists = (db[g].exists \/ view[b].rows[g].exists)
             /\ row(g).chunks = db[g].chunks \cup OwnChunks(b, g) /\ row(g).analysis = an(g)
  <2>1. an(g) \in {"llm", "fallback", NoAnalysis}
    BY <1>3, <1>4
  <2> HIDE DEF an
  <2> QED
    BY <2>1, <1>4 DEF Row
<1> HIDE DEF w, row, an
<1>7. w \in [Hash -> Row] /\ w[h] = row(h)
  BY <1>5, <1>6
<1>8. \A k \in saved : indexed[b][k].hash = h => ks(h) # {}
  OBVIOUS
<1>9. /\ w \in [Hash -> Row]
      /\ w[h].exists <=> (db[h].exists \/ view[b].rows[h].exists)
      /\ w[h].chunks = db[h].chunks \cup OwnChunks(b, h)
      /\ w[h].analysis \in {db[h].analysis, "llm", "fallback"}
      /\ \A k \in saved : indexed[b][k].hash = h => w[h].analysis # NoAnalysis
  BY <1>3, <1>6, <1>7, <1>8
<1> QED
  BY <1>9 DEF w

-----------------------------------------------------------------------------
\* A step of one batch leaves what the others keep.

Elsewhere(b) ==
    \A c \in Batch \ {b} :
        /\ pc'[c] = pc[c] /\ batch'[c] = batch[c] /\ at'[c] = at[c]
        /\ view'[c] = view[c] /\ locks'[c] = locks[c] /\ new'[c] = new[c]
        /\ indexed'[c] = indexed[c] /\ failed'[c] = failed[c]
        /\ attempts'[c] = attempts[c] /\ tokens'[c] = tokens[c]

LEMMA StepsElsewhere ==
    ASSUME TypeInv, NEW b \in Batch, Accept(b) \/ Work(b)
    PROVE  Elsewhere(b)
<1> USE DEF TypeInv, Elsewhere
<1>1. CASE Accept(b)
  BY <1>1 DEF Accept
<1>2. CASE Start(b)
  BY <1>2 DEF Start
<1>3. CASE LookupAuthor(b) \/ Reuse(b) \/ Analyze(b)
  BY <1>3 DEF LookupAuthor, Reuse, Analyze, own, Suspend
<1>4. CASE Insert(b)
  BY <1>4 DEF Insert, Suspend
<1>5. CASE InsertFails(b)
  BY <1>5 DEF InsertFails, GoOn
<1>6. CASE Skip(b)
  BY <1>6 DEF Skip, GoOn, CountAttempt, Append1
<1>7. CASE SkipFails(b)
  BY <1>7 DEF SkipFails, GoOn, CountAttempt
<1>8. CASE Index(b)
  BY <1>8 DEF Index, GoOn, CountAttempt, Append1
<1>9. CASE IndexFails(b)
  BY <1>9 DEF IndexFails, GoOn, RolledBack
<1>10. CASE Finish(b)
  <2>1. /\ \E result : pc' = [pc EXCEPT ![b] = result]
        /\ locks' = [locks EXCEPT ![b] = {}]
        /\ UNCHANGED <<batch, at, view, new, indexed, failed, attempts, tokens>>
    BY <1>10 DEF Finish, Suspend
  <2> QED
    BY <2>1
<1>11. CASE FinishFails(b)
  BY <1>11 DEF FinishFails, Suspend
<1> QED
  BY <1>1, <1>2, <1>3, <1>4, <1>5, <1>6, <1>7, <1>8, <1>9, <1>10, <1>11 DEF Work

\* What a step does to the state of its own batch, apart from its rows.
LEMMA FlowOfOthers ==
    ASSUME TypeInv, NEW b \in Batch, Elsewhere(b), Flow(b)',
           loop \in {b, Idle}, loop' \in {b, Idle}, pc'[b] = "next" <=> loop' = b
    PROVE  /\ \A c \in Batch : pc'[c] = "next" <=> loop' = c
           /\ \A c \in Batch : Flow(c)'
<1>1. ASSUME NEW c \in Batch \ {b} PROVE Flow(c)'
  <2>1. /\ pc'[c] = pc[c] /\ batch'[c] = batch[c] /\ at'[c] = at[c] /\ new'[c] = new[c]
        /\ indexed'[c] = indexed[c] /\ failed'[c] = failed[c] /\ attempts'[c] = attempts[c]
    BY DEF Elsewhere
  <2>2. Flow(c)
    BY DEF TypeInv
  <2> QED
    BY ONLY <2>1, <2>2 DEF Flow
<1>2. ASSUME NEW c \in Batch \ {b} PROVE pc'[c] = "next" <=> loop' = c
  BY IdleAssumption DEF TypeInv, Elsewhere
<1> QED
  BY <1>1, <1>2

-----------------------------------------------------------------------------
\* The rows a batch sees, before and after it has written one.

Views == [Batch -> [rows : [Hash -> Row], usage : Nat \cup {NoUsage}]]

\* Only the existence of the row of h changes.
ExistsIs(b, h, there) ==
    /\ view' \in Views
    /\ view'[b].rows[h].exists = there
    /\ view'[b].rows[h].chunks = view[b].rows[h].chunks
    /\ view'[b].rows[h].analysis = view[b].rows[h].analysis
    /\ \A g \in Hash \ {h} : view'[b].rows[g] = view[b].rows[g]

\* Only the chunks of h change, by those in C.
ChunksGrow(b, h, C) ==
    /\ view' \in Views
    /\ view'[b].rows[h].exists = view[b].rows[h].exists
    /\ view'[b].rows[h].chunks = view[b].rows[h].chunks \cup C
    /\ view'[b].rows[h].analysis = view[b].rows[h].analysis
    /\ \A g \in Hash \ {h} : view'[b].rows[g] = view[b].rows[g]

LEMMA SetExists ==
    ASSUME view \in Views, NEW b \in Batch, NEW h \in Hash, NEW there \in BOOLEAN,
           view' = [view EXCEPT ![b].rows[h].exists = there]
    PROVE  ExistsIs(b, h, there)
<1> DEFINE row == [view[b].rows[h] EXCEPT !.exists = there]
           rows == [view[b].rows EXCEPT ![h] = row]
           mine == [view[b] EXCEPT !.rows = rows]
<1>1. view[b].rows[h] \in Row /\ view[b].rows \in [Hash -> Row]
      /\ view[b] \in [rows : [Hash -> Row], usage : Nat \cup {NoUsage}]
  BY DEF Views
<1>2. row \in Row /\ row.exists = there /\ row.chunks = view[b].rows[h].chunks
      /\ row.analysis = view[b].rows[h].analysis
  BY <1>1 DEF Row
<1>3. view' = [view EXCEPT ![b] = mine]
  OBVIOUS
<1> HIDE DEF row
<1>4. rows \in [Hash -> Row] /\ rows[h] = row /\ \A g \in Hash \ {h} : rows[g] = view[b].rows[g]
  BY <1>1, <1>2
<1> HIDE DEF rows
<1>5. mine \in [rows : [Hash -> Row], usage : Nat \cup {NoUsage}] /\ mine.rows = rows
  BY <1>1, <1>4
<1> HIDE DEF mine
<1>6. view' \in Views /\ view'[b].rows = rows
  BY <1>3, <1>5 DEF Views
<1> QED
  BY <1>2, <1>4, <1>6 DEF ExistsIs

LEMMA GrowChunks ==
    ASSUME view \in Views, NEW b \in Batch, NEW h \in Hash, NEW C \in SUBSET Chunk,
           view' = [view EXCEPT ![b].rows[h].chunks = @ \cup C]
    PROVE  ChunksGrow(b, h, C)
<1> DEFINE row == [view[b].rows[h] EXCEPT !.chunks = @ \cup C]
           rows == [view[b].rows EXCEPT ![h] = row]
           mine == [view[b] EXCEPT !.rows = rows]
<1>1. view[b].rows[h] \in Row /\ view[b].rows \in [Hash -> Row]
      /\ view[b] \in [rows : [Hash -> Row], usage : Nat \cup {NoUsage}]
  BY DEF Views
<1>2. row \in Row /\ row.exists = view[b].rows[h].exists
      /\ row.chunks = view[b].rows[h].chunks \cup C
      /\ row.analysis = view[b].rows[h].analysis
  BY <1>1 DEF Row
<1>3. view' = [view EXCEPT ![b] = mine]
  OBVIOUS
<1> HIDE DEF row
<1>4. rows \in [Hash -> Row] /\ rows[h] = row /\ \A g \in Hash \ {h} : rows[g] = view[b].rows[g]
  BY <1>1, <1>2
<1> HIDE DEF rows
<1>5. mine \in [rows : [Hash -> Row], usage : Nat \cup {NoUsage}] /\ mine.rows = rows
  BY <1>1, <1>4
<1> HIDE DEF mine
<1>6. view' \in Views /\ view'[b].rows = rows
  BY <1>3, <1>5 DEF Views
<1> QED
  BY <1>2, <1>4, <1>6 DEF ChunksGrow

-----------------------------------------------------------------------------
\* Every step keeps the types.

LEMMA AcceptTypes ==
    ASSUME TypeInv, NEW b \in Batch, Accept(b)
    PROVE  TypeInv'
<1>1. PICK s \in Payloads : batch' = [batch EXCEPT ![b] = s]
  BY DEF Accept
<1>2. /\ pc[b] = "new" /\ loop = Idle /\ loop' = loop
      /\ pc' = [pc EXCEPT ![b] = "queued"]
      /\ UNCHANGED <<stores, bm25, at, view, locks, new, indexed, failed, attempts, tokens>>
  BY DEF Accept
<1>3. s \in Seq(Hash) /\ Len(s) \in Nat
  BY PayloadAssumption
<1>4. Flow(b)'
  BY <1>1, <1>2, <1>3 DEF TypeInv, Flow
<1>5. Elsewhere(b)
  BY StepsElsewhere
<1>6. pc'[b] = "next" <=> loop' = b
  BY <1>2, IdleAssumption DEF TypeInv
<1>7. /\ \A c \in Batch : pc'[c] = "next" <=> loop' = c
      /\ \A c \in Batch : Flow(c)'
  BY <1>2, <1>4, <1>5, <1>6, FlowOfOthers
<1> QED
  BY <1>1, <1>2, <1>7 DEF TypeInv, stores

LEMMA StartTypes ==
    ASSUME TypeInv, NEW b \in Batch, Start(b)
    PROVE  TypeInv'
<1>1. /\ pc[b] = "queued" /\ loop = Idle /\ loop' = b
      /\ pc' = [pc EXCEPT ![b] = "next"]
      /\ view' = [view EXCEPT ![b] = [rows |-> db, usage |-> usage]]
      /\ UNCHANGED <<stores, bm25, batch, at, locks, new, indexed, failed, attempts, tokens>>
  BY DEF Start
<1>2. view' \in [Batch -> [rows : [Hash -> Row], usage : Nat \cup {NoUsage}]]
  BY <1>1 DEF TypeInv
<1>3. Flow(b)'
  BY <1>1 DEF TypeInv, Flow
<1>4. Elsewhere(b)
  BY StepsElsewhere DEF Work
<1>5. pc'[b] = "next" <=> loop' = b
  BY <1>1 DEF TypeInv
<1>6. /\ \A c \in Batch : pc'[c] = "next" <=> loop' = c
      /\ \A c \in Batch : Flow(c)'
  BY <1>1, <1>3, <1>4, <1>5, FlowOfOthers
<1> QED
  BY <1>1, <1>2, <1>6 DEF TypeInv, stores, Active

\* The batch waits: nothing else changes.
LEMMA WaitTypes ==
    ASSUME TypeInv, NEW b \in Batch, LookupAuthor(b) \/ Reuse(b) \/ Analyze(b)
    PROVE  TypeInv'
<1>1. /\ pc[b] = "next" /\ loop' = Idle /\ UNCHANGED <<stores, bm25, own>>
      /\ \E stage \in Suspended :
           /\ pc' = [pc EXCEPT ![b] = stage]
           /\ stage \in {"author", "embedding"} => at[b] <= Len(batch[b])
           /\ stage = "analyzing" => at[b] > Len(batch[b])
  BY DEF LookupAuthor, Reuse, Analyze, AtCommit, PhaseOver, Commits, Suspend, Suspended
<1>2. PICK stage \in Suspended :
        /\ pc' = [pc EXCEPT ![b] = stage]
        /\ stage \in {"author", "embedding"} => at[b] <= Len(batch[b])
        /\ stage = "analyzing" => at[b] > Len(batch[b])
  BY <1>1
<1>3. loop = b
  BY <1>1 DEF TypeInv
<1>4. Len(batch[b]) \in Nat
  BY <1>1, PayloadAssumption DEF TypeInv, Flow
<1>5. Flow(b)'
  BY <1>1, <1>2, <1>4 DEF TypeInv, Flow, own, Suspended
<1>6. Elsewhere(b)
  BY StepsElsewhere DEF Work
<1>7. pc'[b] = "next" <=> loop' = b
  BY <1>1, <1>2, IdleAssumption DEF TypeInv, Suspended
<1>8. /\ \A c \in Batch : pc'[c] = "next" <=> loop' = c
      /\ \A c \in Batch : Flow(c)'
  BY <1>1, <1>3, <1>5, <1>6, <1>7, FlowOfOthers
<1> QED
  BY <1>1, <1>2, <1>8 DEF TypeInv, stores, own, Active

\* A batch that inserts waits for the author or has the loop.
LEMMA InsertsAt ==
    ASSUME TypeInv, NEW b \in Batch, AtInsert(b)
    PROVE  /\ pc[b] \in {"author", "next"} /\ at[b] <= Len(Commits(b))
           /\ loop \in {b, Idle}
BY DEF TypeInv, Flow, AtInsert, AtCommit, Commits

LEMMA InsertTypes ==
    ASSUME TypeInv, NEW b \in Batch, Insert(b)
    PROVE  TypeInv' /\ ExistsIs(b, Current(b), TRUE)
<1>1. /\ pc[b] \in {"author", "next"} /\ at[b] <= Len(Commits(b)) /\ loop \in {b, Idle}
      /\ Current(b) \in Hash /\ Commits(b) = batch[b]
  BY InsertsAt, CurrentIs DEF Insert
<1>2. /\ loop' = Idle /\ pc' = [pc EXCEPT ![b] = "embedding"]
      /\ view' = [view EXCEPT ![b].rows[Current(b)].exists = TRUE]
      /\ locks' = [locks EXCEPT ![b] = @ \cup {Current(b)}]
      /\ new' = [new EXCEPT ![b] = TRUE]
      /\ UNCHANGED <<stores, bm25, batch, at, indexed, failed, attempts, tokens>>
  BY DEF Insert, Suspend
<1>3. ExistsIs(b, Current(b), TRUE)
  BY <1>1, <1>2, SetExists DEF TypeInv, Views
<1>4. Flow(b)'
  BY <1>1, <1>2 DEF TypeInv, Flow
<1>5. Elsewhere(b)
  BY StepsElsewhere DEF Work
<1>6. pc'[b] = "next" <=> loop' = b
  BY <1>2, IdleAssumption DEF TypeInv
<1>7. /\ \A c \in Batch : pc'[c] = "next" <=> loop' = c
      /\ \A c \in Batch : Flow(c)'
  BY <1>1, <1>2, <1>4, <1>5, <1>6, FlowOfOthers
<1>8. view' \in [Batch -> [rows : [Hash -> Row], usage : Nat \cup {NoUsage}]]
  BY <1>3 DEF ExistsIs, Views
<1>9. /\ loop' \in Batch \cup {Idle} /\ locks' \in [Batch -> SUBSET Hash]
      /\ new' \in [Batch -> BOOLEAN]
      /\ pc' \in [Batch -> {"new", "queued"} \cup Active \cup Ended]
  BY <1>1, <1>2 DEF TypeInv, Active, Suspended
<1>10. TypeInv'
  BY <1>2, <1>7, <1>8, <1>9 DEF TypeInv, stores
<1> QED
  BY <1>3, <1>10

\* The batch goes on to its next commit.
LEMMA GoesOn ==
    ASSUME TypeInv, NEW b \in Batch, GoOn(b), batch' = batch, Elsewhere(b),
           pc[b] # "new", at[b] <= Len(Commits(b)), loop \in {b, Idle}
    PROVE  /\ pc' \in [Batch -> {"new", "queued"} \cup Active \cup Ended]
           /\ at' \in [Batch -> Nat \ {0}] /\ new' \in [Batch -> BOOLEAN]
           /\ loop' \in Batch \cup {Idle}
           /\ at'[b] = at[b] + 1 /\ ~new'[b] /\ pc'[b] = "next"
           /\ \A c \in Batch : pc'[c] = "next" <=> loop' = c
           /\ \A c \in Batch : Flow(c)'
<1>1. /\ pc' = [pc EXCEPT ![b] = "next"] /\ loop' = b
      /\ at' = [at EXCEPT ![b] = @ + 1] /\ new' = [new EXCEPT ![b] = FALSE]
  BY DEF GoOn
<1>2. at[b] \in 1..Len(batch[b]) /\ Len(batch[b]) \in Nat
  BY CurrentIs DEF Commits
<1>3. /\ pc' \in [Batch -> {"new", "queued"} \cup Active \cup Ended]
      /\ at' \in [Batch -> Nat \ {0}] /\ new' \in [Batch -> BOOLEAN]
      /\ at'[b] = at[b] + 1 /\ ~new'[b] /\ pc'[b] = "next"
  BY <1>1 DEF TypeInv, Active
<1>4. batch[b] \in Payloads
  BY DEF TypeInv, Flow
<1>5. Flow(b)'
  BY <1>2, <1>3, <1>4 DEF Flow
<1>6. /\ \A c \in Batch : pc'[c] = "next" <=> loop' = c
      /\ \A c \in Batch : Flow(c)'
  BY <1>1, <1>3, <1>5, FlowOfOthers
<1> QED
  BY <1>1, <1>3, <1>6

LEMMA InsertFailsTypes ==
    ASSUME TypeInv, NEW b \in Batch, InsertFails(b)
    PROVE  TypeInv'
<1>1. /\ pc[b] \in {"author", "next"} /\ at[b] <= Len(Commits(b)) /\ loop \in {b, Idle}
  BY InsertsAt DEF InsertFails
<1>2. /\ GoOn(b) /\ failed' = [failed EXCEPT ![b] = @ \cup {at[b]}]
      /\ UNCHANGED <<stores, bm25, batch, view, locks, indexed, attempts, tokens>>
  BY DEF InsertFails
<1>3. Elsewhere(b)
  BY StepsElsewhere DEF Work
<1>4. failed' \in [Batch -> SUBSET Nat]
  BY <1>2 DEF TypeInv
<1> QED
  BY <1>1, <1>2, <1>3, <1>4, GoesOn DEF TypeInv, stores

\* The item of a commit that is through phase 1.
NewItem(b) == [index |-> at[b], hash |-> Current(b), llm |-> Attempt(b)]

LEMMA Appends ==
    ASSUME TypeInv, NEW b \in Batch, pc[b] # "new", at[b] <= Len(Commits(b)),
           CountAttempt(b), Append1(b)
    PROVE  /\ NewItem(b) \in Item
           /\ NewItem(b).index = at[b] /\ NewItem(b).hash = Current(b)
           /\ NewItem(b).llm = Attempt(b) /\ Attempt(b) \in BOOLEAN
           /\ indexed[b] \in Seq(Item)
           /\ indexed'[b] = Append(indexed[b], NewItem(b))
           /\ indexed' \in [Batch -> Seq(Item)] /\ attempts' \in [Batch -> Nat]
           /\ attempts'[b] = IF Attempt(b) THEN attempts[b] + 1 ELSE attempts[b]
<1>1. Attempt(b) \in BOOLEAN
  BY SettingsAssumption DEF TypeInv, Attempt, LlmEnabled
<1>2. at[b] \in Nat /\ Current(b) \in Hash
  BY CurrentIs DEF TypeInv
<1>3. NewItem(b) \in Item
  BY <1>1, <1>2 DEF NewItem, Item
<1>4. indexed' = [indexed EXCEPT ![b] = Append(@, NewItem(b))]
  BY DEF Append1, NewItem
<1>5. NewItem(b).index = at[b] /\ NewItem(b).hash = Current(b) /\ NewItem(b).llm = Attempt(b)
  BY DEF NewItem
<1>6. indexed[b] \in Seq(Item) /\ Append(indexed[b], NewItem(b)) \in Seq(Item)
  BY <1>3, AppendProperties DEF TypeInv
<1>7. /\ indexed'[b] = Append(indexed[b], NewItem(b))
      /\ indexed' \in [Batch -> Seq(Item)]
  BY <1>4, <1>6 DEF TypeInv
<1>8. /\ attempts' \in [Batch -> Nat]
      /\ attempts'[b] = IF Attempt(b) THEN attempts[b] + 1 ELSE attempts[b]
  BY DEF TypeInv, CountAttempt
<1> QED
  BY <1>1, <1>3, <1>5, <1>6, <1>7, <1>8

LEMMA SkipTypes ==
    ASSUME TypeInv, NEW b \in Batch, Skip(b) \/ SkipFails(b)
    PROVE  TypeInv'
<1>1. pc[b] = "next" /\ at[b] <= Len(Commits(b)) /\ loop = b
  BY DEF Skip, SkipFails, AtCommit, TypeInv
<1>2. GoOn(b) /\ batch' = batch
  BY DEF Skip, SkipFails
<1>3. Elsewhere(b)
  BY StepsElsewhere DEF Work
<1>4. CASE Skip(b)
  <2>1. /\ CountAttempt(b) /\ Append1(b)
        /\ UNCHANGED <<stores, bm25, batch, view, failed, tokens>>
    BY <1>4 DEF Skip
  <2>2. locks' \in [Batch -> SUBSET Hash]
    BY <1>1, <1>4, CurrentIs DEF Skip, TypeInv
  <2> QED
    BY <1>1, <1>2, <1>3, <2>1, <2>2, GoesOn, Appends DEF TypeInv, stores
<1>5. CASE SkipFails(b)
  <2>1. /\ CountAttempt(b) /\ failed' = [failed EXCEPT ![b] = @ \cup {at[b]}]
        /\ UNCHANGED <<stores, bm25, batch, view, locks, indexed, tokens>>
    BY <1>5 DEF SkipFails
  <2>2. failed' \in [Batch -> SUBSET Nat] /\ attempts' \in [Batch -> Nat]
    BY <2>1 DEF TypeInv, CountAttempt
  <2> QED
    BY <1>1, <1>2, <1>3, <2>1, <2>2, GoesOn DEF TypeInv, stores
<1> QED
  BY <1>4, <1>5

LEMMA IndexTypes ==
    ASSUME TypeInv, NEW b \in Batch, Index(b)
    PROVE  TypeInv' /\ ChunksGrow(b, Current(b), ChunksOf(b, at[b]))
<1>1. pc[b] = "embedding" /\ loop = Idle /\ at[b] <= Len(Commits(b))
  BY DEF Index, TypeInv, Flow, Commits
<1>2. Current(b) \in Hash /\ at[b] \in Nat
  BY <1>1, CurrentIs DEF TypeInv
<1>3. ChunksOf(b, at[b]) \in SUBSET Chunk
  BY <1>2, ChunksOfAre
<1>4. /\ view' = [view EXCEPT ![b].rows[Current(b)].chunks = @ \cup ChunksOf(b, at[b])]
      /\ vectors' = vectors \cup ChunksOf(b, at[b])
      /\ tokens' = [tokens EXCEPT ![b] = @ + 1]
      /\ GoOn(b) /\ CountAttempt(b) /\ Append1(b)
      /\ UNCHANGED <<settings, db, usage, seen, undeleted, bm25, batch, failed>>
  BY DEF Index
<1>5. ChunksGrow(b, Current(b), ChunksOf(b, at[b]))
  BY <1>2, <1>3, <1>4, GrowChunks DEF TypeInv, Views
<1>6. locks' \in [Batch -> SUBSET Hash]
  BY <1>2 DEF Index, TypeInv
<1>7. tokens' \in [Batch -> Nat]
  BY <1>4 DEF TypeInv
<1>8. Elsewhere(b)
  BY StepsElsewhere DEF Work
<1>9. view' \in Views
  BY <1>5 DEF ChunksGrow
<1> QED
  BY <1>1, <1>3, <1>4, <1>5, <1>6, <1>7, <1>8, <1>9, GoesOn, Appends DEF TypeInv, Views

\* A savepoint that is rolled back takes the row it has inserted with it.
RollsBack(b) ==
    /\ view' \in Views /\ locks' \in [Batch -> SUBSET Hash]
    /\ \/ new[b] /\ ExistsIs(b, Current(b), FALSE) /\ locks'[b] = locks[b] \ {Current(b)}
       \/ ~new[b] /\ view'[b] = view[b] /\ locks'[b] = locks[b]

LEMMA IndexFailsTypes ==
    ASSUME TypeInv, NEW b \in Batch, IndexFails(b)
    PROVE  TypeInv' /\ RollsBack(b)
<1>1. pc[b] = "embedding" /\ loop = Idle /\ at[b] <= Len(Commits(b))
  BY DEF IndexFails, TypeInv, Flow, Commits
<1>2. Current(b) \in Hash /\ at[b] \in Nat
  BY <1>1, CurrentIs DEF TypeInv
<1>3. ChunksOf(b, at[b]) \in SUBSET Chunk
  BY <1>2, ChunksOfAre
<1>4. /\ RolledBack(b) /\ GoOn(b) /\ failed' = [failed EXCEPT ![b] = @ \cup {at[b]}]
      /\ UNCHANGED <<settings, db, usage, seen, bm25, batch, indexed, attempts, tokens>>
  BY DEF IndexFails
<1>5. vectors' \subseteq Chunk /\ undeleted' \subseteq Chunk
  BY <1>3 DEF IndexFails, Cleaned, TypeInv
<1>6. RollsBack(b)
  <2>1. CASE new[b]
    <3>1. ExistsIs(b, Current(b), FALSE)
      BY <1>2, <1>4, <2>1, SetExists DEF TypeInv, Views, RolledBack
    <3>2. locks' = [locks EXCEPT ![b] = @ \ {Current(b)}]
      BY <1>4, <2>1 DEF RolledBack
    <3> QED
      BY <2>1, <3>1, <3>2 DEF RollsBack, TypeInv, ExistsIs
  <2>2. CASE ~new[b]
    BY <1>4, <2>2 DEF RolledBack, RollsBack, TypeInv, Views
  <2> QED
    BY <2>1, <2>2
<1>7. Elsewhere(b)
  BY StepsElsewhere DEF Work
<1>8. failed' \in [Batch -> SUBSET Nat]
  BY <1>4, <1>2 DEF TypeInv
<1> QED
  BY <1>1, <1>4, <1>5, <1>6, <1>7, <1>8, GoesOn DEF TypeInv, RollsBack, Views

\* The end of a batch: which items are saved, and what becomes of the rows.
Finishes(b, lost, saved, how) ==
    /\ lost \subseteq DOMAIN indexed[b] /\ saved = DOMAIN indexed[b] \ lost
    /\ Blocked(b) \subseteq lost
    /\ how \in [saved -> {"llm", "fallback"}]
    /\ db' = Written(b, saved, how)
    /\ pc' = [pc EXCEPT ![b] = Result(b, lost)]

LEMMA FinishIs ==
    ASSUME NEW b \in Batch, Finish(b)
    PROVE  \E lost \in SUBSET DOMAIN indexed[b] :
             \E how \in [DOMAIN indexed[b] \ lost -> {"llm", "fallback"}] :
                Finishes(b, lost, DOMAIN indexed[b] \ lost, how)
<1>1. PICK raised \in SUBSET DOMAIN indexed[b] :
      \E unsaved \in SUBSET (DOMAIN indexed[b] \ raised) :
         LET lost == raised \cup unsaved
             saved == DOMAIN indexed[b] \ lost
         IN /\ Blocked(b) \subseteq lost
            /\ \E how \in [saved -> {"llm", "fallback"}] : db' = Written(b, saved, how)
            /\ Suspend(b, Result(b, lost))
  BY DEF Finish
<1>2. PICK unsaved \in SUBSET (DOMAIN indexed[b] \ raised) :
         LET lost == raised \cup unsaved
             saved == DOMAIN indexed[b] \ lost
         IN /\ Blocked(b) \subseteq lost
            /\ \E how \in [saved -> {"llm", "fallback"}] : db' = Written(b, saved, how)
            /\ Suspend(b, Result(b, lost))
  BY <1>1
<1> DEFINE lost == raised \cup unsaved
<1>3. PICK how \in [DOMAIN indexed[b] \ lost -> {"llm", "fallback"}] :
         db' = Written(b, DOMAIN indexed[b] \ lost, how)
  BY <1>2
<1>4. Finishes(b, lost, DOMAIN indexed[b] \ lost, how)
  BY <1>2, <1>3 DEF Finishes, Suspend
<1>5. lost \in SUBSET DOMAIN indexed[b]
  OBVIOUS
<1> QED
  BY <1>4, <1>5

\* The rows it leaves.
LEMMA FinishRows ==
    ASSUME TypeInv, NEW b \in Batch, NEW lost \in SUBSET DOMAIN indexed[b],
           NEW how \in [DOMAIN indexed[b] \ lost -> {"llm", "fallback"}],
           Finishes(b, lost, DOMAIN indexed[b] \ lost, how), NEW h \in Hash
    PROVE  /\ db' \in [Hash -> Row]
           /\ db'[h].exists <=> (db[h].exists \/ view[b].rows[h].exists)
           /\ db'[h].chunks = db[h].chunks \cup OwnChunks(b, h)
           /\ db'[h].analysis \in {db[h].analysis, "llm", "fallback"}
           /\ \A k \in DOMAIN indexed[b] \ lost :
                indexed[b][k].hash = h => db'[h].analysis # NoAnalysis
<1> DEFINE saved == DOMAIN indexed[b] \ lost
<1>1. saved \in SUBSET DOMAIN indexed[b] /\ how \in [saved -> {"llm", "fallback"}]
  OBVIOUS
<1>2. db' = Written(b, saved, how)
  BY DEF Finishes
<1> HIDE DEF saved
<1>3. /\ db' \in [Hash -> Row]
      /\ db'[h].exists <=> (db[h].exists \/ view[b].rows[h].exists)
      /\ db'[h].chunks = db[h].chunks \cup OwnChunks(b, h)
      /\ db'[h].analysis \in {db[h].analysis, "llm", "fallback"}
      /\ \A k \in saved : indexed[b][k].hash = h => db'[h].analysis # NoAnalysis
  <2>1. LET w == Written(b, saved, how) IN
        /\ w \in [Hash -> Row]
        /\ w[h].exists <=> (db[h].exists \/ view[b].rows[h].exists)
        /\ w[h].chunks = db[h].chunks \cup OwnChunks(b, h)
        /\ w[h].analysis \in {db[h].analysis, "llm", "fallback"}
        /\ \A k \in saved : indexed[b][k].hash = h => w[h].analysis # NoAnalysis
    BY <1>1, WrittenIs
  <2> QED
    BY <1>2, <2>1
<1> QED
  BY <1>3 DEF saved

LEMMA EndsAt ==
    ASSUME TypeInv, NEW b \in Batch, AtEnd(b)
    PROVE  pc[b] \in {"analyzing", "next"} /\ at[b] > Len(Commits(b)) /\ loop \in {b, Idle}
           /\ Commits(b) \in Seq(Hash) /\ at[b] = Len(Commits(b)) + 1
<1>1. pc[b] \in {"analyzing", "next"} /\ loop \in {b, Idle}
  BY DEF AtEnd, PhaseOver, TypeInv
<1>2. Commits(b) \in Seq(Hash) /\ Len(Commits(b)) \in Nat
  BY <1>1, PayloadAssumption DEF TypeInv, Flow, Commits
<1>3. at[b] > Len(Commits(b)) /\ at[b] <= Len(Commits(b)) + 1
  BY <1>1, <1>2 DEF AtEnd, PhaseOver, TypeInv, Flow, Commits
<1> QED
  BY <1>1, <1>2, <1>3 DEF TypeInv

LEMMA FinishTypes ==
    ASSUME TypeInv, NEW b \in Batch, Finish(b)
    PROVE  TypeInv'
<1>1. PICK lost \in SUBSET DOMAIN indexed[b] :
             \E how \in [DOMAIN indexed[b] \ lost -> {"llm", "fallback"}] :
                Finishes(b, lost, DOMAIN indexed[b] \ lost, how)
  BY FinishIs
<1>2. PICK how \in [DOMAIN indexed[b] \ lost -> {"llm", "fallback"}] :
                Finishes(b, lost, DOMAIN indexed[b] \ lost, how)
  BY <1>1
<1>3. db' \in [Hash -> Row]
  <2>1. ASSUME NEW h \in Hash PROVE db' \in [Hash -> Row]
    BY <1>2, WrittenIs DEF Finishes
  <2>2. CASE Hash = {}
    BY <1>2, <2>2 DEF Finishes, Written
  <2> QED
    BY <2>1, <2>2
<1>4. pc' = [pc EXCEPT ![b] = Result(b, lost)] /\ Result(b, lost) \in Committed
  BY <1>2 DEF Finishes, Result, Committed
<1>5. /\ usage' = Logged(b) /\ Invalidated(b) /\ loop' = Idle /\ seen' = seen \cup {Chunks'}
      /\ locks' = [locks EXCEPT ![b] = {}]
      /\ UNCHANGED <<settings, vectors, undeleted, batch, at, view, new, indexed, failed,
                     attempts, tokens>>
  BY DEF Finish, Suspend
<1>6. usage' \in Nat \cup {NoUsage}
  <2>1. tokens[b] \in Nat /\ usage \in Nat \cup {NoUsage} /\ view[b].usage \in Nat \cup {NoUsage}
    BY DEF TypeInv
  <2> QED
    BY <1>5, <2>1 DEF Logged
<1>7. bm25' \subseteq [from : SUBSET Chunk, since : SUBSET Chunk]
  BY <1>5 DEF Invalidated, TypeInv
<1>14. seen' \subseteq SUBSET Chunk
  <2>1. Chunks' \subseteq Chunk
    BY <1>3 DEF Chunks, Row
  <2> QED
    BY <1>5, <2>1 DEF TypeInv
<1>8. pc[b] \in {"analyzing", "next"} /\ loop \in {b, Idle}
  BY EndsAt DEF Finish
<1>9. Flow(b)'
  BY <1>4, <1>5, <1>8 DEF TypeInv, Flow, Committed
<1>10. Elsewhere(b)
  BY StepsElsewhere DEF Work
<1>11. pc'[b] = "next" <=> loop' = b
  BY <1>4, <1>5, IdleAssumption DEF TypeInv, Committed
<1>12. /\ \A c \in Batch : pc'[c] = "next" <=> loop' = c
       /\ \A c \in Batch : Flow(c)'
  BY <1>5, <1>8, <1>9, <1>10, <1>11, FlowOfOthers
<1>13. /\ pc' \in [Batch -> {"new", "queued"} \cup Active \cup Ended]
       /\ locks' \in [Batch -> SUBSET Hash] /\ loop' \in Batch \cup {Idle}
  BY <1>4, <1>5 DEF TypeInv, Ended
<1> QED
  BY <1>3, <1>5, <1>6, <1>7, <1>12, <1>13, <1>14 DEF TypeInv

LEMMA FinishFailsTypes ==
    ASSUME TypeInv, NEW b \in Batch, FinishFails(b)
    PROVE  TypeInv'
<1>1. /\ pc' = [pc EXCEPT ![b] = "broken"] /\ Invalidated(b) /\ loop' = Idle
      /\ locks' = [locks EXCEPT ![b] = {}]
      /\ UNCHANGED <<stores, batch, at, view, new, indexed, failed, attempts, tokens>>
  BY DEF FinishFails, Suspend
<1>2. pc[b] \in {"analyzing", "next"} /\ loop \in {b, Idle}
  BY EndsAt DEF FinishFails
<1>3. bm25' \subseteq [from : SUBSET Chunk, since : SUBSET Chunk]
  BY <1>1 DEF Invalidated, TypeInv
<1>4. Flow(b)'
  BY <1>1, <1>2 DEF TypeInv, Flow
<1>5. Elsewhere(b)
  BY StepsElsewhere DEF Work
<1>6. pc'[b] = "next" <=> loop' = b
  BY <1>1, IdleAssumption DEF TypeInv
<1>7. /\ \A c \in Batch : pc'[c] = "next" <=> loop' = c
      /\ \A c \in Batch : Flow(c)'
  BY <1>1, <1>2, <1>4, <1>5, <1>6, FlowOfOthers
<1> QED
  BY <1>1, <1>3, <1>7 DEF TypeInv, stores, Ended

LEMMA ChunksTyped == TypeInv => Chunks \subseteq Chunk
BY DEF TypeInv, Chunks, Row

LEMMA RebuildTypes ==
    ASSUME TypeInv, Rebuild
    PROVE  TypeInv'
BY ChunksTyped DEF Rebuild, stores, own, TypeInv, Flow

\* The stage of each batch after a crash.
LEMMA CrashIs ==
    ASSUME TypeInv, Crash
    PROVE  /\ \A c \in Batch :
                pc'[c] = IF pc[c] \in Active \cup {"queued"} THEN "dead" ELSE pc[c]
           /\ pc' \in [Batch -> {"new", "queued"} \cup Active \cup Ended]
           /\ \A c \in Batch : pc'[c] # "next" /\ pc'[c] \notin Active /\ pc'[c] # "queued"
           /\ loop' = Idle /\ bm25' = {} /\ seen' = {Chunks} /\ locks' = [c \in Batch |-> {}]
           /\ vectors \subseteq vectors' /\ vectors' \subseteq Chunk
           /\ \A v \in vectors' \ vectors : v[1] \in Batch /\ pc[v[1]] = "embedding"
<1>1. pc' = [c \in Batch |-> IF pc[c] \in Active \cup {"queued"} THEN "dead" ELSE pc[c]]
  BY DEF Crash
<1>2. \/ UNCHANGED vectors
      \/ \E b \in Batch : /\ pc[b] = "embedding"
                          /\ \E some \in SUBSET ChunksOf(b, at[b]) :
                                vectors' = vectors \cup some
  BY DEF Crash
<1>3. /\ vectors \subseteq vectors' /\ vectors' \subseteq Chunk
      /\ \A v \in vectors' \ vectors : v[1] \in Batch /\ pc[v[1]] = "embedding"
  <2>1. CASE UNCHANGED vectors
    BY <2>1 DEF TypeInv
  <2>2. CASE ~UNCHANGED vectors
    <3>1. PICK b \in Batch : /\ pc[b] = "embedding"
                             /\ \E some \in SUBSET ChunksOf(b, at[b]) :
                                   vectors' = vectors \cup some
      BY <1>2, <2>2
    <3>2. at[b] \in Nat
      BY DEF TypeInv
    <3> QED
      BY <3>1, <3>2, ChunksOfAre DEF TypeInv
  <2> QED
    BY <2>1, <2>2
<1>4. /\ pc' \in [Batch -> {"new", "queued"} \cup Active \cup Ended]
      /\ \A c \in Batch : pc'[c] # "next" /\ pc'[c] \notin Active /\ pc'[c] # "queued"
  BY <1>1 DEF TypeInv, Active, Suspended, Ended, Committed
<1> QED
  BY <1>1, <1>3, <1>4 DEF Crash

LEMMA CrashTypes ==
    ASSUME TypeInv, Crash
    PROVE  TypeInv'
<1>1. UNCHANGED <<settings, db, usage, undeleted, batch, at, view, new, indexed, failed,
                  attempts, tokens>>
  BY DEF Crash
<1>2. ASSUME NEW c \in Batch PROVE Flow(c)'
  <2>1. pc'[c] = IF pc[c] \in Active \cup {"queued"} THEN "dead" ELSE pc[c]
    BY CrashIs
  <2>2. pc'[c] = pc[c] \/ (pc'[c] = "dead" /\ pc[c] # "new")
    BY <2>1 DEF Active, Suspended
  <2> QED
    BY <1>1, <2>2 DEF TypeInv, Flow
<1>3. \A c \in Batch : pc'[c] = "next" <=> loop' = c
  BY CrashIs, IdleAssumption
<1>4. locks' \in [Batch -> SUBSET Hash]
  BY CrashIs
<1> QED
  BY <1>1, <1>2, <1>3, <1>4, CrashIs, ChunksTyped DEF TypeInv

LEMMA StepTypes ==
    ASSUME TypeInv, [Next]_vars
    PROVE  TypeInv'
<1>1. CASE UNCHANGED vars
  BY <1>1 DEF vars, TypeInv, Flow
<1>2. ASSUME NEW b \in Batch, Work(b) PROVE TypeInv'
  BY <1>2, StartTypes, WaitTypes, InsertTypes, InsertFailsTypes, SkipTypes, IndexTypes,
     IndexFailsTypes, FinishTypes, FinishFailsTypes DEF Work
<1> QED
  BY <1>1, <1>2, AcceptTypes, RebuildTypes, CrashTypes DEF Next

\* Every variable has its type, a batch has the event loop exactly when it is
\* between two of its suspensions, and it is within its payload.
THEOREM TypesHold == Spec => []TypeInv
BY TypesStart, StepTypes, PTL DEF Spec

-----------------------------------------------------------------------------
\* The cap of the analyses.

\* The indices that come before i when the largest commits are taken first.
BeforeOf(s, i) == {j \in DOMAIN s : \/ SizeOf[s[j]] > SizeOf[s[i]]
                                    \/ SizeOf[s[j]] = SizeOf[s[i]] /\ j < i}

\* They are totally ordered.
LEMMA BeforeOrders ==
    ASSUME NEW s \in Seq(Hash)
    PROVE  /\ \A i \in DOMAIN s : i \notin BeforeOf(s, i)
           /\ \A i, j \in DOMAIN s : i \in BeforeOf(s, j) => BeforeOf(s, i) \subseteq BeforeOf(s, j)
           /\ \A i, j \in DOMAIN s : i = j \/ i \in BeforeOf(s, j) \/ j \in BeforeOf(s, i)
           /\ \A i \in DOMAIN s : IsFiniteSet(BeforeOf(s, i))
                                  /\ Cardinality(BeforeOf(s, i)) \in Nat
<1>1. DOMAIN s = 1..Len(s) /\ Len(s) \in Nat
  OBVIOUS
<1>2. \A i \in DOMAIN s : SizeOf[s[i]] \in Nat
  BY SizeAssumption
<1>3. IsFiniteSet(DOMAIN s)
  BY <1>1, FS_Interval
<1>4. ASSUME NEW i \in DOMAIN s
      PROVE  IsFiniteSet(BeforeOf(s, i)) /\ Cardinality(BeforeOf(s, i)) \in Nat
  <2>1. BeforeOf(s, i) \in SUBSET DOMAIN s
    BY DEF BeforeOf
  <2> QED
    BY <2>1, <1>3, FS_Subset, FS_CardinalityType
<1>5. \A i \in DOMAIN s : i \notin BeforeOf(s, i)
  BY <1>1, <1>2 DEF BeforeOf
<1>6. \A i, j \in DOMAIN s : i \in BeforeOf(s, j) => BeforeOf(s, i) \subseteq BeforeOf(s, j)
  BY <1>1, <1>2 DEF BeforeOf
<1>7. \A i, j \in DOMAIN s : i = j \/ i \in BeforeOf(s, j) \/ j \in BeforeOf(s, i)
  BY <1>1, <1>2 DEF BeforeOf
<1> QED
  BY <1>4, <1>5, <1>6, <1>7

\* _select_llm_commit_indices selects no more than the cap.
LEMMA PreselectedFew ==
    ASSUME NEW s \in Seq(Hash), NEW cap \in Nat \ {0}
    PROVE  LET pre == {i \in DOMAIN s : Cardinality(BeforeOf(s, i)) < cap}
           IN  IsFiniteSet(pre) /\ Cardinality(pre) \in Nat /\ Cardinality(pre) <= cap
<1> DEFINE pre == {i \in DOMAIN s : Cardinality(BeforeOf(s, i)) < cap}
           rank(i) == Cardinality(BeforeOf(s, i))
<1>1. IsFiniteSet(pre) /\ Cardinality(pre) \in Nat
  <2>1. IsFiniteSet(DOMAIN s)
    <3>1. DOMAIN s = 1..Len(s) /\ Len(s) \in Nat
      OBVIOUS
    <3> QED
      BY <3>1, FS_Interval
  <2>2. pre \in SUBSET DOMAIN s
    OBVIOUS
  <2> QED
    BY <2>1, <2>2, FS_Subset, FS_CardinalityType
<1>2. CASE pre = {}
  <2>1. Cardinality(pre) = 0
    <3> HIDE DEF pre
    <3> QED
      BY <1>1, <1>2, FS_EmptySet
  <2> QED
    BY <1>1, <2>1
<1>3. CASE pre # {}
  <2> DEFINE ranks == {rank(i) : i \in pre}
  <2>1. ranks \in SUBSET Nat /\ ranks # {} /\ \A r \in ranks : r <= cap
    BY <1>3, BeforeOrders
  <2>2. PICK x \in pre : \A y \in pre : rank(y) <= rank(x)
    <3> HIDE DEF rank
    <3>1. Max(ranks) \in ranks /\ \A r \in ranks : Max(ranks) >= r
      <4> HIDE DEF ranks
      <4> QED
        BY <2>1, MaxIsIn
    <3>2. PICK x \in pre : rank(x) = Max(ranks)
      BY <3>1
    <3>3. \A y \in pre : rank(y) \in ranks
      OBVIOUS
    <3>4. \A y \in pre : rank(y) \in Nat
      BY BeforeOrders DEF rank
    <3> QED
      BY <3>1, <3>2, <3>3, <3>4
  <2>3. ASSUME NEW y \in pre \ {x} PROVE y \in BeforeOf(s, x)
    <3>1. SUFFICES ASSUME x \in BeforeOf(s, y) PROVE FALSE
      BY BeforeOrders
    <3>2. BeforeOf(s, x) \cup {x} \subseteq BeforeOf(s, y)
      BY <3>1, BeforeOrders
    <3>3. x \notin BeforeOf(s, x) /\ IsFiniteSet(BeforeOf(s, x)) /\ IsFiniteSet(BeforeOf(s, y))
          /\ rank(x) \in Nat /\ rank(y) \in Nat
      BY BeforeOrders
    <3>4. Cardinality(BeforeOf(s, x) \cup {x}) = rank(x) + 1
      BY <3>3, FS_AddElement
    <3>5. Cardinality(BeforeOf(s, x) \cup {x}) <= rank(y)
      BY <3>2, <3>3, FS_Subset
    <3>6. rank(y) <= rank(x)
      BY <2>2
    <3> QED
      BY <3>3, <3>4, <3>5, <3>6
  <2>4. Cardinality(pre \ {x}) = Cardinality(pre) - 1
    BY <1>1, FS_RemoveElement
  <2>5. Cardinality(pre \ {x}) <= rank(x)
    <3>1. pre \ {x} \subseteq BeforeOf(s, x)
      BY <2>3
    <3>2. IsFiniteSet(BeforeOf(s, x))
      BY BeforeOrders
    <3> HIDE DEF pre
    <3> QED
      BY <3>1, <3>2, FS_Subset
  <2>6. rank(x) < cap /\ rank(x) \in Nat
    BY BeforeOrders
  <2> QED
    BY <1>1, <2>4, <2>5, <2>6
<1> QED
  BY <1>1, <1>2, <1>3

LEMMA PreselectedIs ==
    ASSUME NEW b
    PROVE  Preselected(b) = {i \in DOMAIN Commits(b) :
                                Cardinality(BeforeOf(Commits(b), i)) < Cap}
BY DEF Preselected, BeforeOf

BySize == Cap > 0 /\ Priority = "size"
ByOrder == Cap > 0 /\ Priority # "size"

\* An item is of a commit before the current one, and is analyzed by the model
\* as the cap has it.
ItemInv(b, item) ==
    /\ item.index \in 1..Len(batch[b]) /\ item.index < at[b]
    /\ item.hash = batch[b][item.index]
    /\ BySize => (item.llm <=> (LlmEnabled /\ item.index \in Preselected(b)))
    /\ Cap = 0 => (item.llm <=> LlmEnabled)

Asked(b) == {k \in DOMAIN indexed[b] : indexed[b][k].llm}

ItemsInv(b) ==
    /\ \A k \in DOMAIN indexed[b] : ItemInv(b, indexed[b][k])
    /\ \A k, m \in DOMAIN indexed[b] : indexed[b][k].index = indexed[b][m].index => k = m
    /\ ByOrder => attempts[b] <= Cap /\ Cardinality(Asked(b)) <= attempts[b]

CapInv == \A b \in Batch : ItemsInv(b)

LEMMA AskedFinite ==
    ASSUME TypeInv, NEW b \in Batch
    PROVE  IsFiniteSet(Asked(b)) /\ Cardinality(Asked(b)) \in Nat
<1>1. DOMAIN indexed[b] = 1..Len(indexed[b]) /\ Len(indexed[b]) \in Nat
  BY DEF TypeInv
<1>2. IsFiniteSet(DOMAIN indexed[b])
  BY <1>1, FS_Interval
<1>3. Asked(b) \in SUBSET DOMAIN indexed[b]
  BY DEF Asked
<1> QED
  BY <1>2, <1>3, FS_Subset, FS_CardinalityType

\* Nothing of a batch that the cap is about changes.
LEMMA ItemsStay ==
    ASSUME TypeInv, NEW b \in Batch, ItemsInv(b), settings' = settings, batch'[b] = batch[b],
           at'[b] \in Nat, at'[b] >= at[b], indexed'[b] = indexed[b],
           ByOrder => attempts'[b] = attempts[b] \/ (attempts'[b] = attempts[b] + 1 /\ attempts[b] < Cap)
    PROVE  ItemsInv(b)'
<1>1. /\ Preselected(b)' = Preselected(b) /\ Cap' = Cap /\ LlmEnabled' = LlmEnabled
      /\ BySize' = BySize /\ ByOrder' = ByOrder
  BY DEF Preselected, Commits, Cap, LlmEnabled, BySize, ByOrder, Priority
<1>2. indexed[b] \in Seq(Item) /\ at[b] \in Nat /\ attempts[b] \in Nat
  BY DEF TypeInv
<1>3. ASSUME NEW k \in DOMAIN indexed[b] PROVE ItemInv(b, indexed[b][k])'
  <2>1. ItemInv(b, indexed[b][k])
    BY DEF ItemsInv
  <2>2. indexed[b][k].index \in Nat
    BY <2>1 DEF ItemInv
  <2> QED
    BY <1>1, <1>2, <2>1, <2>2 DEF ItemInv
<1>4. Asked(b)' = Asked(b)
  BY DEF Asked
<1>5. Cardinality(Asked(b)) \in Nat
  BY AskedFinite
<1>6. ByOrder => attempts'[b] <= Cap /\ Cardinality(Asked(b)) <= attempts'[b]
  <2>1. Cap \in Nat
    BY SettingsAssumption DEF TypeInv, Cap
  <2> QED
    BY <1>2, <1>5, <2>1 DEF ItemsInv
<1> QED
  BY <1>1, <1>3, <1>4, <1>6 DEF ItemsInv

\* A commit gets its item.
LEMMA ItemsGrow ==
    ASSUME TypeInv, NEW b \in Batch, ItemsInv(b), pc[b] # "new", at[b] <= Len(Commits(b)),
           CountAttempt(b), Append1(b), settings' = settings, batch' = batch,
           at'[b] = at[b] + 1
    PROVE  ItemsInv(b)'
<1>1. PICK item \in Item, n \in Nat :
      /\ n = Len(indexed[b]) + 1
      /\ item.index = at[b] /\ item.hash = Current(b)
      /\ item.llm = Attempt(b) /\ Attempt(b) \in BOOLEAN
      /\ indexed[b] \in Seq(Item)
      /\ indexed'[b] = Append(indexed[b], item)
      /\ attempts'[b] = IF Attempt(b) THEN attempts[b] + 1 ELSE attempts[b]
  <2>1. Len(indexed[b]) + 1 \in Nat
    BY DEF TypeInv
  <2> QED
    BY <2>1, Appends
<1>2. /\ Preselected(b)' = Preselected(b) /\ Cap' = Cap /\ LlmEnabled' = LlmEnabled
      /\ BySize' = BySize /\ ByOrder' = ByOrder
  BY DEF Preselected, Commits, Cap, LlmEnabled, BySize, ByOrder, Priority
<1>3. at[b] \in 1..Len(batch[b]) /\ at[b] \in Nat /\ attempts[b] \in Nat
  BY CurrentIs DEF TypeInv, Commits
<1>4. Cap \in Nat
  BY SettingsAssumption DEF TypeInv, Cap
<1>5. /\ DOMAIN indexed'[b] = DOMAIN indexed[b] \cup {n} /\ n \notin DOMAIN indexed[b]
      /\ \A k \in DOMAIN indexed[b] : indexed'[b][k] = indexed[b][k]
      /\ indexed'[b][n] = item
  BY <1>1
<1>6. ItemInv(b, indexed[b][n])'
  <2>1. Attempt(b) <=> LlmEnabled /\ ~Capped(b)
    BY DEF Attempt
  <2>2. /\ BySize => (Capped(b) <=> at[b] \notin Preselected(b))
        /\ Cap = 0 => ~Capped(b)
    BY <1>4 DEF Capped, BySize
  <2> QED
    BY <1>1, <1>2, <1>3, <1>5, <2>1, <2>2 DEF ItemInv, Current, Commits
<1>7. ASSUME NEW k \in DOMAIN indexed[b]
      PROVE  ItemInv(b, indexed[b][k])' /\ indexed[b][k].index # at[b]
  <2>1. ItemInv(b, indexed[b][k])
    BY DEF ItemsInv
  <2>2. indexed[b][k].index \in Nat
    BY <2>1 DEF ItemInv
  <2>3. indexed'[b][k] = indexed[b][k]
    BY <1>5
  <2>4. indexed[b][k].index < at[b] /\ indexed[b][k].index < at'[b]
    BY <1>3, <2>1, <2>2 DEF ItemInv
  <2>5. ItemInv(b, indexed[b][k])'
    BY <1>2, <2>1, <2>3, <2>4 DEF ItemInv
  <2> QED
    BY <1>3, <2>2, <2>4, <2>5
<1>8. ASSUME ByOrder PROVE attempts'[b] <= Cap /\ Cardinality(Asked(b)') <= attempts'[b]
  <2>1. IsFiniteSet(Asked(b)) /\ Cardinality(Asked(b)) \in Nat
    BY AskedFinite
  <2>2. attempts[b] <= Cap /\ Cardinality(Asked(b)) <= attempts[b]
    BY <1>8 DEF ItemsInv
  <2>3. CASE Attempt(b)
    <3>1. Asked(b)' = Asked(b) \cup {n}
      BY <1>1, <1>5, <2>3 DEF Asked
    <3>2. n \notin Asked(b)
      BY <1>5 DEF Asked
    <3>3. Cardinality(Asked(b)') = Cardinality(Asked(b)) + 1
      BY <2>1, <3>1, <3>2, FS_AddElement
    <3>4. attempts[b] < Cap
      BY <1>3, <1>4, <1>8, <2>3 DEF Attempt, Capped, ByOrder
    <3> QED
      BY <1>1, <1>3, <1>4, <2>1, <2>2, <2>3, <3>3, <3>4
  <2>4. CASE ~Attempt(b)
    <3>1. Asked(b)' = Asked(b)
      BY <1>1, <1>5, <2>4 DEF Asked
    <3> QED
      BY <1>1, <2>2, <2>4, <3>1
  <2> QED
    BY <2>3, <2>4
<1>9. \A k \in DOMAIN indexed'[b] : ItemInv(b, indexed[b][k])'
  BY <1>5, <1>6, <1>7
<1>10. \A k, m \in DOMAIN indexed'[b] : indexed'[b][k].index = indexed'[b][m].index => k = m
  BY <1>1, <1>5, <1>7 DEF ItemsInv
<1> QED
  BY <1>2, <1>8, <1>9, <1>10 DEF ItemsInv

LEMMA NoItems ==
    ASSUME TypeInv, NEW b \in Batch, indexed[b] = <<>>, attempts[b] = 0
    PROVE  ItemsInv(b)
<1>1. DOMAIN indexed[b] = {}
  OBVIOUS
<1>2. Asked(b) = {}
  BY <1>1 DEF Asked
<1>3. Cap \in Nat
  BY SettingsAssumption DEF TypeInv, Cap
<1> QED
  BY <1>1, <1>2, <1>3, FS_EmptySet DEF ItemsInv, ByOrder

LEMMA CapStarts == Init => CapInv
<1>1. ASSUME Init, NEW b \in Batch PROVE ItemsInv(b)
  BY <1>1, TypesStart, NoItems DEF Init
<1> QED
  BY <1>1 DEF CapInv

\* In the order of the batch an attempt is made only below the cap.
LEMMA AttemptBelowCap ==
    ASSUME TypeInv, NEW b \in Batch, CountAttempt(b), ByOrder
    PROVE  attempts'[b] = attempts[b] \/ (attempts'[b] = attempts[b] + 1 /\ attempts[b] < Cap)
<1>1. Cap \in Nat /\ attempts[b] \in Nat
  BY SettingsAssumption DEF TypeInv, Cap
<1>2. Attempt(b) => attempts[b] < Cap
  BY <1>1 DEF Attempt, Capped, ByOrder
<1> QED
  BY <1>1, <1>2 DEF CountAttempt, TypeInv

LEMMA StepCap ==
    ASSUME TypeInv, CapInv, [Next]_vars
    PROVE  CapInv'
<1>1. TypeInv'
  BY StepTypes
<1>2. \A c \in Batch : ItemsInv(c) /\ at[c] \in Nat /\ at'[c] \in Nat /\ indexed[c] \in Seq(Item)
  BY <1>1 DEF CapInv, TypeInv
<1>3. settings' = settings
  BY DEF Next, Accept, Work, Start, LookupAuthor, Insert, InsertFails, Reuse, Skip, SkipFails,
         Index, IndexFails, Analyze, Finish, FinishFails, Rebuild, Crash, stores, vars
<1>4. ASSUME NEW b \in Batch, Accept(b) \/ Work(b), NEW c \in Batch \ {b} PROVE ItemsInv(c)'
  <2>1. Elsewhere(b)
    BY <1>4, StepsElsewhere
  <2>2. /\ batch'[c] = batch[c] /\ at'[c] = at[c] /\ indexed'[c] = indexed[c]
        /\ attempts'[c] = attempts[c]
    BY <2>1 DEF Elsewhere
  <2> QED
    BY <1>2, <1>3, <2>2, ItemsStay
<1>5. ASSUME NEW b \in Batch, Accept(b) PROVE ItemsInv(b)'
  <2>1. indexed[b] = <<>> /\ attempts[b] = 0 /\ indexed' = indexed /\ attempts' = attempts
    BY <1>5 DEF Accept, TypeInv, Flow
  <2>2. DOMAIN indexed'[b] = {} /\ Asked(b)' = {}
    BY <2>1 DEF Asked
  <2>3. Cap' \in Nat
    BY <1>1, <1>3, SettingsAssumption DEF TypeInv, Cap
  <2> QED
    BY <2>1, <2>2, <2>3, FS_EmptySet DEF ItemsInv, ByOrder
<1>6. ASSUME NEW b \in Batch, Skip(b) \/ Index(b) PROVE ItemsInv(b)'
  <2>1. pc[b] # "new" /\ at[b] <= Len(Commits(b))
    BY <1>6 DEF Skip, Index, AtCommit, TypeInv, Flow, Commits
  <2>2. CountAttempt(b) /\ Append1(b) /\ batch' = batch /\ at'[b] = at[b] + 1
    BY <1>6 DEF Skip, Index, GoOn, TypeInv
  <2> QED
    BY <1>2, <1>3, <2>1, <2>2, ItemsGrow
<1>7. ASSUME NEW b \in Batch, InsertFails(b) \/ SkipFails(b) \/ IndexFails(b) PROVE ItemsInv(b)'
  <2>1. batch' = batch /\ indexed' = indexed /\ at'[b] = at[b] + 1
    BY <1>7 DEF InsertFails, SkipFails, IndexFails, GoOn, TypeInv
  <2>2. attempts' = attempts \/ CountAttempt(b)
    BY <1>7 DEF InsertFails, SkipFails, IndexFails
  <2>3. ByOrder => attempts'[b] = attempts[b] \/ (attempts'[b] = attempts[b] + 1 /\ attempts[b] < Cap)
    BY <2>2, AttemptBelowCap
  <2> QED
    BY <1>2, <1>3, <2>1, <2>3, ItemsStay
<1>8. ASSUME UNCHANGED <<batch, at, indexed, attempts>>, NEW b \in Batch PROVE ItemsInv(b)'
  BY <1>2, <1>3, <1>8, ItemsStay
<1>9. ASSUME NEW b \in Batch,
             \/ Start(b) \/ LookupAuthor(b) \/ Insert(b) \/ Reuse(b) \/ Analyze(b)
             \/ Finish(b) \/ FinishFails(b)
      PROVE  UNCHANGED <<batch, at, indexed, attempts>>
  BY <1>9 DEF Start, LookupAuthor, Insert, Reuse, Analyze, Finish, FinishFails, own
<1>10. ASSUME NEW b \in Batch, Accept(b) \/ Work(b) PROVE CapInv'
  <2>1. ItemsInv(b)'
    BY <1>5, <1>6, <1>7, <1>8, <1>9, <1>10 DEF Work
  <2> QED
    BY <1>4, <1>10, <2>1 DEF CapInv
<1>11. ASSUME Rebuild \/ Crash \/ UNCHANGED vars PROVE CapInv'
  <2>1. UNCHANGED <<batch, at, indexed, attempts>>
    BY <1>11 DEF Rebuild, Crash, vars, own
  <2> QED
    BY <1>8, <2>1 DEF CapInv
<1> QED
  BY <1>10, <1>11 DEF Next

LEMMA CapIsRespected == TypeInv /\ CapInv => CapRespected
<1> SUFFICES ASSUME TypeInv, CapInv, NEW b \in Batch
             PROVE  LET asked == {k \in DOMAIN indexed[b] : indexed[b][k].llm}
                        sizeOf(k) == SizeOf[indexed[b][k].hash]
                    IN /\ Cap > 0 => Cardinality(asked) <= Cap
                       /\ (LlmEnabled /\ Priority = "size") =>
                             \A k \in asked, m \in DOMAIN indexed[b] \ asked : sizeOf(k) >= sizeOf(m)
  BY DEF CapRespected
<1> DEFINE s == Commits(b)
<1>1. Cap \in Nat /\ attempts[b] \in Nat /\ indexed[b] \in Seq(Item)
  BY SettingsAssumption DEF TypeInv, Cap
<1>2. \A k \in DOMAIN indexed[b] : ItemInv(b, indexed[b][k])
  BY DEF CapInv, ItemsInv
<1>3. IsFiniteSet(Asked(b)) /\ Cardinality(Asked(b)) \in Nat
  BY AskedFinite
<1>4. indexed[b] # <<>> => s \in Seq(Hash)
  <2>1. indexed[b] # <<>> => pc[b] # "new"
    BY DEF TypeInv, Flow
  <2> QED
    BY <2>1, PayloadAssumption DEF TypeInv, Flow, Commits
<1>5. ASSUME ByOrder PROVE Cardinality(Asked(b)) <= Cap
  BY <1>1, <1>3, <1>5 DEF CapInv, ItemsInv
<1>6. ASSUME BySize PROVE Cardinality(Asked(b)) <= Cap
  <2>1. CASE Asked(b) = {}
    BY <1>1, <1>6, <2>1, FS_EmptySet DEF BySize
  <2>2. CASE Asked(b) # {}
    <3>1. s \in Seq(Hash) /\ Cap \in Nat \ {0}
      BY <1>1, <1>4, <1>6, <2>2 DEF Asked, BySize
    <3>2. /\ IsFiniteSet(Preselected(b)) /\ Cardinality(Preselected(b)) \in Nat
          /\ Cardinality(Preselected(b)) <= Cap
      BY <3>1, PreselectedFew, PreselectedIs
    <3> DEFINE of == [k \in Asked(b) |-> indexed[b][k].index]
    <3>3. \A k \in Asked(b) : indexed[b][k].index \in Preselected(b)
      BY <1>2, <1>6 DEF Asked, ItemInv
    <3>4. \A k, m \in Asked(b) : indexed[b][k].index = indexed[b][m].index => k = m
      BY DEF CapInv, ItemsInv, Asked
    <3>5. of \in Injection(Asked(b), Preselected(b))
      BY <3>3, <3>4 DEF Injection, IsInjective
    <3>6. Cardinality(Asked(b)) <= Cardinality(Preselected(b))
      <4> HIDE DEF of
      <4> QED
        BY <3>2, <3>5, FS_Injection
    <3> QED
      BY <1>1, <1>3, <3>2, <3>6
  <2> QED
    BY <2>1, <2>2
<1>7. ASSUME LlmEnabled, Priority = "size", NEW k \in Asked(b),
             NEW m \in DOMAIN indexed[b] \ Asked(b)
      PROVE  SizeOf[indexed[b][k].hash] >= SizeOf[indexed[b][m].hash]
  <2>1. BySize
    BY <1>1, <1>2, <1>7 DEF Asked, ItemInv, BySize
  <2>2. s \in Seq(Hash)
    BY <1>4, <1>7 DEF Asked
  <2> DEFINE i == indexed[b][k].index
             j == indexed[b][m].index
  <2>3. /\ i \in DOMAIN s /\ j \in DOMAIN s
        /\ indexed[b][k].hash = s[i] /\ indexed[b][m].hash = s[j]
    BY <1>2, <2>2 DEF Asked, ItemInv, Commits
  <2>4. i \in Preselected(b) /\ j \notin Preselected(b)
    BY <1>2, <1>7, <2>1 DEF Asked, ItemInv
  <2>5. Cardinality(BeforeOf(s, i)) < Cap /\ ~(Cardinality(BeforeOf(s, j)) < Cap)
    BY <2>3, <2>4, PreselectedIs
  <2>6. SizeOf[s[i]] \in Nat /\ SizeOf[s[j]] \in Nat
    BY <2>2, <2>3, SizeAssumption
  <2>7. ASSUME SizeOf[s[j]] > SizeOf[s[i]] PROVE FALSE
    <3>1. j \in BeforeOf(s, i)
      BY <2>3, <2>7 DEF BeforeOf
    <3>2. BeforeOf(s, j) \subseteq BeforeOf(s, i)
      BY <2>2, <2>3, <3>1, BeforeOrders
    <3>3. /\ IsFiniteSet(BeforeOf(s, i)) /\ Cardinality(BeforeOf(s, i)) \in Nat
          /\ Cardinality(BeforeOf(s, j)) \in Nat
      BY <2>2, <2>3, BeforeOrders
    <3>4. Cardinality(BeforeOf(s, j)) <= Cardinality(BeforeOf(s, i))
      BY <3>2, <3>3, FS_Subset
    <3> QED
      BY <1>1, <2>5, <3>3, <3>4
  <2> QED
    BY <2>3, <2>6, <2>7
<1> QED
  BY <1>1, <1>5, <1>6, <1>7 DEF Asked, ByOrder, BySize

\* No batch asks the model for more analyses than commit_analysis_max_per_batch,
\* and with the priority "size" no commit goes without one for the sake of a
\* smaller one (_select_llm_commit_indices, llm_attempts), for batches and caps
\* of any size.
THEOREM CapHolds == Spec => []CapRespected
<1>1. Init => TypeInv /\ CapInv
  BY TypesStart, CapStarts
<1>2. TypeInv /\ CapInv /\ [Next]_vars => (TypeInv /\ CapInv)'
  BY StepTypes, StepCap
<1> QED
  BY <1>1, <1>2, CapIsRespected, PTL DEF Spec

-----------------------------------------------------------------------------
\* Chunks, vectors and the BM25 index.

\* Where the vectors of a batch come from, before, during and after its run.
TraceInv(b) ==
    /\ pc[b] \in {"new", "queued"} => \A v \in vectors : v[1] = b => v \in undeleted
    /\ pc[b] \in Active =>
         /\ \A h \in Hash : \A v \in OwnChunks(b, h) :
              v \in vectors /\ v[2] < at[b] /\ indexed[b] # <<>>
         /\ \A v \in vectors :
              v[1] = b => v \in undeleted \/ \E h \in Hash : v \in OwnChunks(b, h)
    /\ pc[b] \in Committed => \A v \in vectors : v[1] = b => v \in undeleted \cup Chunks

\* A committed chunk has its vector and comes from a batch that was committed.
ChunksInv == \A h \in Hash : \A v \in db[h].chunks : v \in vectors /\ pc[v[1]] \in Committed

VectorInv ==
    /\ ChunksInv
    /\ \A i \in bm25 : i.since = Chunks
    /\ \A b \in Batch : TraceInv(b)

LEMMA VectorsStart == Init => VectorInv
BY DEF Init, EmptyDb, VectorInv, ChunksInv, TraceInv, Active, Suspended, Committed

LEMMA ChunkParts ==
    /\ \A v \in Chunk : v[1] \in Batch /\ v[2] \in Nat
    /\ TypeInv => \A h \in Hash : \A v \in db[h].chunks : v \in Chunk /\ v[1] \in Batch
<1>1. \A v \in Chunk : v[1] \in Batch /\ v[2] \in Nat
  BY DEF Chunk
<1>2. ASSUME TypeInv, NEW h \in Hash PROVE db[h].chunks \subseteq Chunk
  BY <1>2 DEF TypeInv, Row
<1> QED
  BY <1>1, <1>2

\* What the other batches keep of it.
LEMMA TraceOfOther ==
    ASSUME TypeInv, NEW c \in Batch, TraceInv(c),
           pc'[c] = pc[c], view'[c] = view[c], at'[c] = at[c], indexed'[c] = indexed[c],
           \A v \in Chunk : v[1] = c => (v \in vectors' <=> v \in vectors),
           vectors' \subseteq Chunk,
           undeleted \subseteq undeleted', Chunks \subseteq Chunks'
    PROVE  TraceInv(c)'
<1>1. \A h \in Hash : OwnChunks(c, h)' = OwnChunks(c, h)
  BY DEF OwnChunks
<1>2. \A v \in vectors' : v[1] = c => v \in vectors
  OBVIOUS
<1>3. \A h \in Hash : \A v \in OwnChunks(c, h) : v[1] = c /\ v \in Chunk
  BY DEF OwnChunks, TypeInv, Row
<1>4. pc[c] \in {"new", "queued"} => \A v \in vectors' : v[1] = c => v \in undeleted'
  BY <1>2 DEF TraceInv
<1>5. pc[c] \in Committed => \A v \in vectors' : v[1] = c => v \in undeleted' \cup Chunks'
  BY <1>2 DEF TraceInv
<1>6. pc[c] \in Active =>
         \A h \in Hash : \A v \in OwnChunks(c, h) :
              v \in vectors' /\ v[2] < at[c] /\ indexed[c] # <<>>
  BY <1>3 DEF TraceInv
<1>7. pc[c] \in Active =>
         \A v \in vectors' : v[1] = c => v \in undeleted' \/ \E h \in Hash : v \in OwnChunks(c, h)
  BY <1>2 DEF TraceInv
<1> QED
  BY <1>1, <1>4, <1>5, <1>6, <1>7 DEF TraceInv

\* Steps that leave the stores alone, and of the rows a batch sees the chunks.
LEMMA TraceStays ==
    ASSUME TypeInv, VectorInv, NEW b \in Batch, TypeInv', Elsewhere(b),
           UNCHANGED <<vectors, undeleted, db, bm25>>,
           pc[b] \notin Committed, pc'[b] \notin Committed,
           \/ pc[b] = "new" /\ pc'[b] = "queued"
           \/ /\ pc[b] \in Active /\ pc'[b] \in Active
              /\ \A h \in Hash : OwnChunks(b, h)' = OwnChunks(b, h)
              /\ at'[b] >= at[b] /\ (indexed[b] # <<>> => indexed'[b] # <<>>)
    PROVE  VectorInv'
<1>1. Chunks' = Chunks
  BY DEF Chunks
<1>2. ASSUME NEW c \in Batch \ {b} PROVE TraceInv(c)'
  BY <1>1, TraceOfOther DEF VectorInv, Elsewhere, TypeInv
<1>3. TraceInv(b)'
  <2>1. CASE pc[b] = "new" /\ pc'[b] = "queued"
    BY <2>1 DEF VectorInv, TraceInv, Active, Suspended
  <2>2. CASE pc[b] \in Active /\ pc'[b] \in Active
    <3>1. /\ \A h \in Hash : OwnChunks(b, h)' = OwnChunks(b, h)
          /\ at'[b] >= at[b] /\ (indexed[b] # <<>> => indexed'[b] # <<>>)
      BY <2>2 DEF Active, Suspended
    <3>2. at[b] \in Nat /\ at'[b] \in Nat
      BY DEF TypeInv
    <3>3. \A h \in Hash : \A v \in OwnChunks(b, h) : v \in Chunk /\ v[2] \in Nat
      BY DEF OwnChunks, TypeInv, Row, Chunk
    <3>4. \A h \in Hash : \A v \in OwnChunks(b, h) :
              v \in vectors' /\ v[2] < at'[b] /\ indexed'[b] # <<>>
      BY <2>2, <3>1, <3>2, <3>3 DEF VectorInv, TraceInv
    <3>5. \A v \in vectors' :
            v[1] = b => v \in undeleted' \/ \E h \in Hash : v \in OwnChunks(b, h)
      BY <2>2 DEF VectorInv, TraceInv
    <3>6. pc'[b] \notin {"new", "queued"}
      BY <2>2 DEF Active, Suspended
    <3> QED
      BY <3>1, <3>4, <3>5, <3>6 DEF TraceInv
  <2> QED
    BY <2>1, <2>2
<1>4. ChunksInv'
  <2>1. ASSUME NEW h \in Hash, NEW v \in db[h].chunks PROVE v \in vectors' /\ pc'[v[1]] \in Committed
    <3>1. v \in vectors /\ pc[v[1]] \in Committed /\ v[1] \in Batch
      BY ChunkParts DEF VectorInv, ChunksInv
    <3> QED
      BY <3>1 DEF Elsewhere
  <2> QED
    BY <2>1 DEF ChunksInv
<1> QED
  BY <1>1, <1>2, <1>3, <1>4 DEF VectorInv

\* The transaction begins: no chunk it sees is the batch's own.
LEMMA StartVectors ==
    ASSUME TypeInv, VectorInv, NEW b \in Batch, Start(b)
    PROVE  VectorInv'
<1>1. /\ pc[b] = "queued" /\ pc' = [pc EXCEPT ![b] = "next"]
      /\ view' = [view EXCEPT ![b] = [rows |-> db, usage |-> usage]]
      /\ UNCHANGED <<stores, bm25, at, indexed>>
  BY DEF Start
<1>2. Chunks' = Chunks /\ UNCHANGED <<db, vectors, undeleted, bm25>>
  BY <1>1 DEF Chunks, stores
<1>3. Elsewhere(b)
  BY StepsElsewhere DEF Work
<1>4. ASSUME NEW c \in Batch \ {b} PROVE TraceInv(c)'
  BY <1>2, <1>3, TraceOfOther DEF VectorInv, Elsewhere, TypeInv
<1>5. pc'[b] = "next" /\ view'[b].rows = db
  BY <1>1 DEF TypeInv
<1>6. \A h \in Hash : OwnChunks(b, h)' = {}
  <2>1. \A h \in Hash : \A v \in db[h].chunks : v[1] # b
    BY <1>1 DEF VectorInv, ChunksInv, Committed
  <2> QED
    BY <1>5, <2>1 DEF OwnChunks
<1>7. TraceInv(b)'
  BY <1>1, <1>2, <1>5, <1>6 DEF VectorInv, TraceInv, Committed
<1>8. ChunksInv'
  <2>1. ASSUME NEW h \in Hash, NEW v \in db[h].chunks PROVE v \in vectors' /\ pc'[v[1]] \in Committed
    BY <1>1, <1>2, <1>3, ChunkParts DEF VectorInv, ChunksInv, Elsewhere, Committed
  <2> QED
    BY <1>2, <2>1 DEF ChunksInv
<1> QED
  BY <1>2, <1>4, <1>7, <1>8 DEF VectorInv

LEMMA IndexVectors ==
    ASSUME TypeInv, VectorInv, NEW b \in Batch, Index(b)
    PROVE  VectorInv'
<1>1. /\ pc[b] = "embedding" /\ vectors' = vectors \cup ChunksOf(b, at[b])
      /\ GoOn(b) /\ CountAttempt(b) /\ Append1(b)
      /\ UNCHANGED <<db, undeleted, bm25>>
  BY DEF Index
<1>2. Current(b) \in Hash /\ pc[b] # "new" /\ at[b] <= Len(Commits(b))
  BY <1>1, CurrentIs DEF TypeInv, Flow, Commits
<1>3. PICK h0 \in Hash : h0 = Current(b)
  BY <1>2
<1>4. PICK C \in SUBSET Chunk :
        /\ C = ChunksOf(b, at[b])
        /\ \A v \in C : v[1] = b /\ v[2] = at[b]
  BY ChunksOfAre DEF TypeInv
<1>5. TypeInv' /\ ChunksGrow(b, h0, C)
  BY <1>3, <1>4, IndexTypes
<1>6. at[b] \in Nat /\ at'[b] = at[b] + 1 /\ pc'[b] = "next" /\ vectors' = vectors \cup C
  BY <1>1, <1>4 DEF TypeInv, GoOn
<1>7. Chunks' = Chunks
  BY <1>1 DEF Chunks
<1>8. Elsewhere(b)
  BY StepsElsewhere DEF Work
<1>9. ASSUME NEW c \in Batch \ {b} PROVE TraceInv(c)'
  <2>1. \A v \in Chunk : v[1] = c => (v \in vectors' <=> v \in vectors)
    BY <1>4, <1>6
  <2> QED
    BY <1>1, <1>5, <1>7, <1>8, <2>1, TraceOfOther DEF VectorInv, Elsewhere, TypeInv
<1>10. indexed'[b] # <<>>
  BY <1>1, <1>2, Appends
<1>11. /\ OwnChunks(b, h0)' = OwnChunks(b, h0) \cup C
       /\ \A h \in Hash \ {h0} : OwnChunks(b, h)' = OwnChunks(b, h)
  BY <1>4, <1>5 DEF OwnChunks, ChunksGrow
<1>12. \A h \in Hash : \A v \in OwnChunks(b, h) : v \in vectors /\ v[2] < at[b] /\ v[2] \in Nat
  <2>1. \A h \in Hash : OwnChunks(b, h) \subseteq Chunk
    BY DEF OwnChunks, TypeInv, Row
  <2> QED
    BY <1>1, <2>1, ChunkParts DEF VectorInv, TraceInv, Active, Suspended
<1>13. \A h \in Hash : \A v \in OwnChunks(b, h)' : v \in vectors' /\ v[2] < at'[b]
  BY <1>4, <1>6, <1>11, <1>12
<1>14. ASSUME NEW v \in vectors', v[1] = b
       PROVE  v \in undeleted' \/ \E h \in Hash : v \in OwnChunks(b, h)'
  <2>1. CASE v \in C
    BY <1>11, <2>1
  <2>2. CASE v \in vectors
    <3>1. v \in undeleted \/ \E h \in Hash : v \in OwnChunks(b, h)
      BY <1>1, <1>14, <2>2 DEF VectorInv, TraceInv, Active, Suspended
    <3>2. \A h \in Hash : OwnChunks(b, h) \subseteq OwnChunks(b, h)'
      BY <1>11
    <3> QED
      BY <1>1, <3>1, <3>2
  <2> QED
    BY <1>6, <2>1, <2>2
<1>15. TraceInv(b)'
  BY <1>6, <1>10, <1>13, <1>14 DEF TraceInv, Committed
<1>16. ChunksInv'
  <2>1. ASSUME NEW h \in Hash, NEW v \in db[h].chunks PROVE v \in vectors' /\ pc'[v[1]] \in Committed
    BY <1>1, <1>6, <1>8, ChunkParts DEF VectorInv, ChunksInv, Elsewhere, Committed
  <2> QED
    BY <1>1, <2>1 DEF ChunksInv
<1> QED
  BY <1>1, <1>7, <1>9, <1>15, <1>16 DEF VectorInv

\* A failed commit takes back its own vectors, which no row records.
LEMMA IndexFailsVectors ==
    ASSUME TypeInv, VectorInv, NEW b \in Batch, IndexFails(b)
    PROVE  VectorInv'
<1>1. /\ pc[b] = "embedding" /\ GoOn(b)
      /\ UNCHANGED <<db, bm25, indexed>>
  BY DEF IndexFails
<1>2. PICK C \in SUBSET Chunk :
        /\ C = ChunksOf(b, at[b])
        /\ \A v \in C : v[1] = b /\ v[2] = at[b]
  BY ChunksOfAre DEF TypeInv
<1>3. \/ UNCHANGED <<vectors, undeleted>>
      \/ \E left \in SUBSET C : /\ vectors' = (vectors \ C) \cup left
                                /\ undeleted' = undeleted \cup left
  BY <1>2 DEF IndexFails, Cleaned
<1>4. TypeInv' /\ RollsBack(b)
  BY IndexFailsTypes
<1>5. Current(b) \in Hash
  BY <1>1, CurrentIs DEF TypeInv, Flow, Commits
<1>6. \A h \in Hash : OwnChunks(b, h)' = OwnChunks(b, h)
  <2>1. \A h \in Hash : view'[b].rows[h].chunks = view[b].rows[h].chunks
    BY <1>4, <1>5 DEF RollsBack, ExistsIs
  <2> QED
    BY <2>1 DEF OwnChunks
<1>7. at[b] \in Nat /\ at'[b] = at[b] + 1 /\ pc'[b] = "next"
  BY <1>1 DEF TypeInv, GoOn
<1>8. Chunks' = Chunks
  BY <1>1 DEF Chunks
<1>9. Elsewhere(b)
  BY StepsElsewhere DEF Work
<1>10. /\ undeleted \subseteq undeleted'
       /\ \A v \in vectors : v \in C \/ v \in vectors'
       /\ \A v \in vectors' : v \in vectors \/ (v \in C /\ v \in undeleted')
  BY <1>3
<1>11. ASSUME NEW c \in Batch \ {b} PROVE TraceInv(c)'
  <2>1. \A v \in Chunk : v[1] = c => (v \in vectors' <=> v \in vectors)
    BY <1>2, <1>10
  <2>2. vectors' \subseteq Chunk
    BY <1>4 DEF TypeInv
  <2> QED
    BY <1>1, <1>8, <1>9, <1>10, <2>1, <2>2, TraceOfOther DEF VectorInv, Elsewhere
<1>12. \A h \in Hash : \A v \in OwnChunks(b, h) :
           v \in vectors /\ v[2] < at[b] /\ v[2] \in Nat /\ indexed[b] # <<>>
  <2>1. \A h \in Hash : OwnChunks(b, h) \subseteq Chunk
    BY DEF OwnChunks, TypeInv, Row
  <2> QED
    BY <1>1, <2>1, ChunkParts DEF VectorInv, TraceInv, Active, Suspended
<1>13. \A h \in Hash : \A v \in OwnChunks(b, h) :
           v \in vectors' /\ v[2] < at'[b] /\ indexed'[b] # <<>>
  BY <1>1, <1>2, <1>7, <1>10, <1>12
<1>14. ASSUME NEW v \in vectors', v[1] = b
       PROVE  v \in undeleted' \/ \E h \in Hash : v \in OwnChunks(b, h)
  BY <1>1, <1>10, <1>14 DEF VectorInv, TraceInv, Active, Suspended
<1>15. TraceInv(b)'
  BY <1>6, <1>7, <1>13, <1>14 DEF TraceInv, Committed
<1>16. ChunksInv'
  <2>1. ASSUME NEW h \in Hash, NEW v \in db[h].chunks PROVE v \in vectors' /\ pc'[v[1]] \in Committed
    <3>1. v \in vectors /\ pc[v[1]] \in Committed /\ v[1] \in Batch
      BY ChunkParts DEF VectorInv, ChunksInv
    <3>2. v[1] # b
      BY <1>1, <3>1 DEF Committed
    <3> QED
      BY <1>2, <1>9, <1>10, <3>1, <3>2 DEF Elsewhere
  <2> QED
    BY <1>1, <2>1 DEF ChunksInv
<1> QED
  BY <1>1, <1>8, <1>11, <1>15, <1>16 DEF VectorInv

\* The batch's own chunks are committed, and what was cached before is dropped
\* when there are any.
LEMMA FinishVectors ==
    ASSUME TypeInv, VectorInv, NEW b \in Batch, Finish(b)
    PROVE  VectorInv'
<1>1. PICK lost \in SUBSET DOMAIN indexed[b] :
             \E how \in [DOMAIN indexed[b] \ lost -> {"llm", "fallback"}] :
                Finishes(b, lost, DOMAIN indexed[b] \ lost, how)
  BY FinishIs
<1>2. PICK how \in [DOMAIN indexed[b] \ lost -> {"llm", "fallback"}] :
                Finishes(b, lost, DOMAIN indexed[b] \ lost, how)
  BY <1>1
<1>3. \A h \in Hash : db'[h].chunks = db[h].chunks \cup OwnChunks(b, h)
  BY <1>2, FinishRows
<1>4. pc'[b] \in Committed
  BY <1>2 DEF Finishes, Result, Committed, TypeInv
<1>5. Invalidated(b) /\ UNCHANGED <<vectors, undeleted>>
  BY DEF Finish
<1>6. pc[b] \in {"analyzing", "next"}
  BY EndsAt DEF Finish
<1>7. Elsewhere(b)
  BY StepsElsewhere DEF Work
<1>8. Chunks \subseteq Chunks'
  BY <1>3 DEF Chunks
<1>9. ASSUME NEW c \in Batch \ {b} PROVE TraceInv(c)'
  BY <1>5, <1>7, <1>8, TraceOfOther DEF VectorInv, Elsewhere, TypeInv
<1>10. /\ \A h \in Hash : \A v \in OwnChunks(b, h) :
             v \in vectors /\ v[1] = b /\ indexed[b] # <<>>
       /\ \A v \in vectors :
             v[1] = b => v \in undeleted \/ \E h \in Hash : v \in OwnChunks(b, h)
  BY <1>6 DEF VectorInv, TraceInv, Active, Suspended, OwnChunks
<1>11. TraceInv(b)'
  <2>1. \A h \in Hash : OwnChunks(b, h) \subseteq Chunks'
    BY <1>3 DEF Chunks
  <2>2. \A v \in vectors' : v[1] = b => v \in undeleted' \cup Chunks'
    BY <1>5, <1>10, <2>1
  <2> QED
    BY <1>4, <2>2 DEF TraceInv, Committed, Active, Suspended
<1>12. ChunksInv'
  <2>1. ASSUME NEW h \in Hash, NEW v \in db'[h].chunks PROVE v \in vectors' /\ pc'[v[1]] \in Committed
    <3>1. CASE v \in OwnChunks(b, h)
      BY <1>4, <1>5, <1>10, <3>1
    <3>2. CASE v \in db[h].chunks
      BY <1>4, <1>5, <1>7, <3>2, ChunkParts DEF VectorInv, ChunksInv, Elsewhere
    <3> QED
      BY <1>3, <3>1, <3>2
  <2> QED
    BY <2>1 DEF ChunksInv
<1>13. \A i \in bm25' : i.since = Chunks'
  <2>1. CASE indexed[b] # <<>>
    BY <1>5, <2>1 DEF Invalidated
  <2>2. CASE indexed[b] = <<>>
    <3>1. \A h \in Hash : db'[h].chunks = db[h].chunks
      BY <1>3, <1>10, <2>2
    <3>2. Chunks' = Chunks
      BY <3>1 DEF Chunks
    <3> QED
      BY <1>5, <2>2, <3>2 DEF Invalidated, VectorInv
  <2> QED
    BY <2>1, <2>2
<1> QED
  BY <1>9, <1>11, <1>12, <1>13 DEF VectorInv

\* The transaction is lost, and its vectors stay.
LEMMA FinishFailsVectors ==
    ASSUME TypeInv, VectorInv, NEW b \in Batch, FinishFails(b)
    PROVE  VectorInv'
<1>1. /\ Invalidated(b) /\ UNCHANGED <<vectors, undeleted, db>> /\ pc'[b] = "broken"
  BY DEF FinishFails, Suspend, stores, TypeInv
<1>2. pc[b] \in {"analyzing", "next"}
  BY EndsAt DEF FinishFails
<1>3. Elsewhere(b)
  BY StepsElsewhere DEF Work
<1>4. Chunks' = Chunks
  BY <1>1 DEF Chunks
<1>5. ASSUME NEW c \in Batch \ {b} PROVE TraceInv(c)'
  BY <1>1, <1>3, <1>4, TraceOfOther DEF VectorInv, Elsewhere, TypeInv
<1>6. TraceInv(b)'
  BY <1>1 DEF TraceInv, Active, Suspended, Committed
<1>7. ChunksInv'
  <2>1. ASSUME NEW h \in Hash, NEW v \in db[h].chunks PROVE v \in vectors' /\ pc'[v[1]] \in Committed
    BY <1>1, <1>2, <1>3, ChunkParts DEF VectorInv, ChunksInv, Elsewhere, Committed
  <2> QED
    BY <1>1, <2>1 DEF ChunksInv
<1>8. \A i \in bm25' : i.since = Chunks'
  BY <1>1, <1>4 DEF Invalidated, VectorInv
<1> QED
  BY <1>5, <1>6, <1>7, <1>8 DEF VectorInv

LEMMA CrashVectors ==
    ASSUME TypeInv, VectorInv, Crash
    PROVE  VectorInv'
<1>1. UNCHANGED <<db, undeleted, view, at, indexed>>
  BY DEF Crash
<1>2. Chunks' = Chunks
  BY <1>1 DEF Chunks
<1>3. /\ \A c \in Batch : pc'[c] = IF pc[c] \in Active \cup {"queued"} THEN "dead" ELSE pc[c]
      /\ bm25' = {} /\ vectors \subseteq vectors'
      /\ \A v \in vectors' \ vectors : v[1] \in Batch /\ pc[v[1]] = "embedding"
  BY CrashIs
<1>4. ASSUME NEW c \in Batch PROVE TraceInv(c)'
  <2>1. CASE pc'[c] = "dead"
    BY <2>1 DEF TraceInv, Active, Suspended, Committed
  <2>2. CASE pc'[c] # "dead"
    <3>1. pc'[c] = pc[c] /\ pc[c] \notin Active \cup {"queued"}
      BY <1>3, <2>2
    <3>2. \A v \in vectors' : v[1] = c => v \in vectors
      BY <1>3, <3>1 DEF Active, Suspended
    <3> QED
      BY <1>1, <1>2, <3>1, <3>2 DEF VectorInv, TraceInv
  <2> QED
    BY <2>1, <2>2
<1>5. ChunksInv'
  <2>1. ASSUME NEW h \in Hash, NEW v \in db[h].chunks PROVE v \in vectors' /\ pc'[v[1]] \in Committed
    <3>1. v \in vectors /\ pc[v[1]] \in Committed /\ v[1] \in Batch
      BY ChunkParts DEF VectorInv, ChunksInv
    <3>2. pc[v[1]] \notin Active \cup {"queued"}
      BY <3>1 DEF Committed, Active, Suspended
    <3> QED
      BY <1>3, <3>1, <3>2
  <2> QED
    BY <1>1, <2>1 DEF ChunksInv
<1> QED
  BY <1>3, <1>4, <1>5 DEF VectorInv

LEMMA StepVectors ==
    ASSUME TypeInv, VectorInv, [Next]_vars
    PROVE  VectorInv'
<1>1. TypeInv'
  BY StepTypes
<1>2. ASSUME NEW b \in Batch, Accept(b) PROVE VectorInv'
  <2>1. pc[b] = "new" /\ pc'[b] = "queued" /\ UNCHANGED <<vectors, undeleted, db, bm25>>
    BY <1>2 DEF Accept, stores, TypeInv
  <2> QED
    BY <1>1, <1>2, <2>1, TraceStays, StepsElsewhere DEF Committed
<1>3. ASSUME NEW b \in Batch, LookupAuthor(b) \/ Reuse(b) \/ Analyze(b) PROVE VectorInv'
  <2>1. /\ pc[b] = "next" /\ pc'[b] \in Suspended
        /\ UNCHANGED <<vectors, undeleted, db, bm25, view, at, indexed>>
    BY <1>3 DEF LookupAuthor, Reuse, Analyze, AtCommit, PhaseOver, Suspend, Suspended, stores, own,
                TypeInv
  <2>2. \A h \in Hash : OwnChunks(b, h)' = OwnChunks(b, h)
    BY <2>1 DEF OwnChunks
  <2>3. pc[b] \in Active /\ pc'[b] \in Active /\ pc[b] \notin Committed /\ pc'[b] \notin Committed
    BY <2>1 DEF Active, Suspended, Committed
  <2>4. at'[b] >= at[b] /\ indexed'[b] = indexed[b]
    BY <2>1 DEF TypeInv
  <2> QED
    BY <1>1, <1>3, <2>1, <2>2, <2>3, <2>4, TraceStays, StepsElsewhere DEF Work
<1>4. ASSUME NEW b \in Batch, Insert(b) PROVE VectorInv'
  <2>1. /\ pc[b] \in {"author", "next"} /\ pc'[b] = "embedding"
        /\ UNCHANGED <<vectors, undeleted, db, bm25, at, indexed>>
    BY <1>4, InsertsAt DEF Insert, Suspend, stores, TypeInv
  <2>2. ExistsIs(b, Current(b), TRUE) /\ Current(b) \in Hash
    BY <1>4, <2>1, InsertTypes, InsertsAt, CurrentIs DEF Insert
  <2>3. \A h \in Hash : view'[b].rows[h].chunks = view[b].rows[h].chunks
    BY <2>2 DEF ExistsIs
  <2>4. \A h \in Hash : OwnChunks(b, h)' = OwnChunks(b, h)
    BY <2>3 DEF OwnChunks
  <2>5. pc[b] \in Active /\ pc'[b] \in Active /\ pc[b] \notin Committed /\ pc'[b] \notin Committed
    BY <2>1 DEF Active, Suspended, Committed
  <2>6. at'[b] >= at[b] /\ indexed'[b] = indexed[b]
    BY <2>1 DEF TypeInv
  <2> QED
    BY <1>1, <1>4, <2>1, <2>4, <2>5, <2>6, TraceStays, StepsElsewhere DEF Work
<1>5. ASSUME NEW b \in Batch, InsertFails(b) \/ Skip(b) \/ SkipFails(b) PROVE VectorInv'
  <2>1. /\ pc[b] \in {"author", "next"} /\ at[b] <= Len(Commits(b)) /\ pc[b] # "new"
    BY <1>5, InsertsAt DEF InsertFails, Skip, SkipFails, AtCommit
  <2>2. /\ pc'[b] = "next" /\ at'[b] = at[b] + 1 /\ at[b] \in Nat
        /\ UNCHANGED <<vectors, undeleted, db, bm25, view>>
    BY <1>5 DEF InsertFails, Skip, SkipFails, GoOn, stores, TypeInv
  <2>3. indexed'[b] = indexed[b] \/ indexed'[b] # <<>>
    BY <1>5, <2>1, Appends DEF InsertFails, Skip, SkipFails
  <2>4. \A h \in Hash : OwnChunks(b, h)' = OwnChunks(b, h)
    BY <2>2 DEF OwnChunks
  <2>5. pc[b] \in Active /\ pc'[b] \in Active /\ pc[b] \notin Committed /\ pc'[b] \notin Committed
    BY <2>1, <2>2 DEF Active, Suspended, Committed
  <2>6. at'[b] >= at[b] /\ (indexed[b] # <<>> => indexed'[b] # <<>>)
    BY <2>2, <2>3
  <2> QED
    BY <1>1, <1>5, <2>2, <2>4, <2>5, <2>6, TraceStays, StepsElsewhere DEF Work
<1>6. ASSUME Rebuild PROVE VectorInv'
  <2>1. (\A i \in bm25' : i.since = Chunks) /\ UNCHANGED <<stores, pc, own>>
    BY <1>6 DEF Rebuild
  <2> QED
    BY <2>1 DEF stores, own, VectorInv, ChunksInv, TraceInv, OwnChunks, Chunks
<1>7. ASSUME UNCHANGED vars PROVE VectorInv'
  BY <1>7 DEF vars, VectorInv, ChunksInv, TraceInv, OwnChunks, Chunks
<1>8. ASSUME NEW b \in Batch, Work(b) PROVE VectorInv'
  BY <1>3, <1>4, <1>5, <1>8, StartVectors, IndexVectors, IndexFailsVectors, FinishVectors,
     FinishFailsVectors DEF Work
<1> QED
  BY <1>2, <1>6, <1>7, <1>8, CrashVectors DEF Next

LEMMA VectorsAreExplained == TypeInv /\ VectorInv => VectorsExplained
<1> SUFFICES ASSUME TypeInv, VectorInv PROVE VectorsExplained
  OBVIOUS
<1>1. Chunks \subseteq vectors
  BY DEF VectorInv, ChunksInv, Chunks
<1>2. ASSUME NEW v \in vectors \ Chunks
      PROVE  v \in undeleted \/ pc[v[1]] \in Active \cup {"broken", "dead"}
  <2>1. v[1] \in Batch
    BY ChunkParts DEF TypeInv
  <2>2. TraceInv(v[1]) /\ pc[v[1]] \in {"new", "queued"} \cup Active \cup Ended
    BY <2>1 DEF VectorInv, TypeInv
  <2> QED
    BY <1>2, <2>2 DEF TraceInv, Ended
<1> QED
  BY <1>1, <1>2 DEF VectorsExplained

\* Every vector is accounted for: a committed chunk has its vector through every
\* failure and crash, and a vector without a chunk could not be deleted or is of
\* a batch that is open, failed to commit or died (_cleanup_vectors, the
\* savepoints and the commit of git_ingestion.py).
THEOREM VectorsAccounted == Spec => []VectorsExplained
<1>1. Init => TypeInv /\ VectorInv
  BY TypesStart, VectorsStart
<1>2. TypeInv /\ VectorInv /\ [Next]_vars => (TypeInv /\ VectorInv)'
  BY StepTypes, StepVectors
<1> QED
  BY <1>1, <1>2, VectorsAreExplained, PTL DEF Spec

\* At every moment another task can run, the BM25 index was built after the last
\* commit of new chunks, if from a session's own read view (Rebuild); also after a
\* batch that was only partly successful (the invalidation at the end of
\* git_ingestion.py).
THEOREM NoIndexOutlivesBatch == Spec => []IndexSinceCommit
<1>1. Init => TypeInv /\ VectorInv
  BY TypesStart, VectorsStart
<1>2. TypeInv /\ VectorInv /\ [Next]_vars => (TypeInv /\ VectorInv)'
  BY StepTypes, StepVectors
<1>3. VectorInv => IndexSinceCommit
  BY DEF VectorInv, IndexSinceCommit
<1> QED
  BY <1>1, <1>2, <1>3, PTL DEF Spec

-----------------------------------------------------------------------------
\* Rows and locks.

\* The batch has inserted the row of its current commit, h.
Inserting(b, h) == pc[b] = "embedding" /\ new[b] /\ h = Current(b)

\* What the transaction of a batch sees: its own rows are locked until it ends,
\* and everything else was committed before.
SeesInv(b) ==
    /\ \A h \in Hash :
         /\ \A v \in view[b].rows[h].chunks : v[1] # b => v \in db[h].chunks
         /\ (view[b].rows[h].exists /\ ~db[h].exists) => h \in locks[b]
    /\ \A h \in Hash \ Existing :
         /\ view[b].rows[h].exists <=> (view[b].rows[h].chunks # {} \/ Inserting(b, h))
         /\ \A v, w \in view[b].rows[h].chunks : v[1] = w[1] /\ v[2] = w[2]
         /\ OwnChunks(b, h) # {} => ~db[h].exists

\* The savepoint of a commit that is being embedded.
InsertInv(b) ==
    LET h == Current(b) IN
    /\ pc[b] = "author" => ~view[b].rows[h].exists
    /\ pc[b] = "embedding" =>
          IF new[b]
          THEN /\ h \in locks[b] /\ ~db[h].exists /\ view[b].rows[h].exists
               /\ h \notin Existing => view[b].rows[h].chunks = {}
          ELSE h \in Existing

\* Every commit before the current one has failed, or has an item and chunks.
DoneInv(b) ==
    /\ \A i \in 1..(at[b] - 1) :
         i \in failed[b] \/ \E k \in DOMAIN indexed[b] : indexed[b][k].hash = batch[b][i]
    /\ \A k \in DOMAIN indexed[b] : view[b].rows[indexed[b][k].hash].chunks # {}

RowsInv(b) ==
    /\ failed[b] \subseteq 1..(at[b] - 1)
    /\ pc[b] \in Active => SeesInv(b) /\ InsertInv(b) /\ DoneInv(b)

LocksExclude == \A b, c \in Batch : b # c => locks[b] \cap locks[c] = {}

DbInv ==
    \A h \in Hash \ Existing :
        /\ db[h].exists <=> db[h].chunks # {}
        /\ \A v, w \in db[h].chunks : v[1] = w[1] /\ v[2] = w[2]

WholeInv(b) ==
    pc[b] = "completed" =>
        \A h \in ToSet(Commits(b)) : h \in Hash /\ db[h].chunks # {} /\ db[h].analysis # NoAnalysis

CommitInv ==
    /\ LocksExclude
    /\ DbInv
    /\ \A b \in Batch : RowsInv(b) /\ WholeInv(b)

LEMMA CommitStarts == Init => CommitInv
<1> SUFFICES ASSUME Init PROVE CommitInv
  OBVIOUS
<1>1. \A h \in Hash : (db[h].exists <=> h \in Existing) /\ db[h].chunks = {}
  BY DEF Init, EmptyDb
<1>2. DbInv
  BY <1>1 DEF DbInv
<1>3. LocksExclude
  BY DEF Init, LocksExclude
<1>4. \A b \in Batch : RowsInv(b) /\ WholeInv(b)
  BY DEF Init, RowsInv, WholeInv, Active, Suspended
<1> QED
  BY <1>2, <1>3, <1>4 DEF CommitInv

\* What the other batches keep: rows are only added, and none they have locked.
LEMMA RowsOfOther ==
    ASSUME TypeInv, NEW c \in Batch, RowsInv(c),
           pc'[c] = pc[c], view'[c] = view[c], at'[c] = at[c], indexed'[c] = indexed[c],
           new'[c] = new[c], locks'[c] = locks[c], batch'[c] = batch[c], failed'[c] = failed[c],
           \A h \in Hash : db[h].chunks \subseteq db'[h].chunks /\ (db[h].exists => db'[h].exists),
           \A h \in locks[c] : db'[h].exists => db[h].exists
    PROVE  RowsInv(c)'
<1>1. SUFFICES ASSUME pc[c] \in Active
               PROVE  SeesInv(c)' /\ InsertInv(c)' /\ DoneInv(c)'
  BY DEF RowsInv
<1>2. SeesInv(c) /\ InsertInv(c) /\ DoneInv(c)
  BY <1>1 DEF RowsInv
<1>3. Current(c)' = Current(c) /\ \A h \in Hash : OwnChunks(c, h)' = OwnChunks(c, h)
  BY DEF Current, Commits, OwnChunks
<1>4. \A h \in Hash : Inserting(c, h)' = Inserting(c, h)
  BY <1>3 DEF Inserting
<1>5. SeesInv(c)'
  <2>1. ASSUME NEW h \in Hash
        PROVE  /\ \A v \in view'[c].rows[h].chunks : v[1] # c => v \in db'[h].chunks
               /\ (view'[c].rows[h].exists /\ ~db'[h].exists) => h \in locks'[c]
    BY <1>2 DEF SeesInv
  <2>2. ASSUME NEW h \in Hash \ Existing
        PROVE  /\ view'[c].rows[h].exists <=> (view'[c].rows[h].chunks # {} \/ Inserting(c, h)')
               /\ \A v, w \in view'[c].rows[h].chunks : v[1] = w[1] /\ v[2] = w[2]
    BY <1>2, <1>4 DEF SeesInv
  <2>3. ASSUME NEW h \in Hash \ Existing, OwnChunks(c, h)' # {} PROVE ~db'[h].exists
    <3>1. OwnChunks(c, h) # {} /\ ~db[h].exists /\ view[c].rows[h].chunks # {}
      BY <1>2, <1>3, <2>3 DEF SeesInv, OwnChunks
    <3>2. h \in locks[c]
      BY <1>2, <3>1 DEF SeesInv
    <3> QED
      BY <3>1, <3>2
  <2> QED
    BY <2>1, <2>2, <2>3 DEF SeesInv
<1>6. InsertInv(c)'
  BY <1>2, <1>3 DEF InsertInv
<1>7. DoneInv(c)'
  BY <1>2 DEF DoneInv
<1> QED
  BY <1>5, <1>6, <1>7

\* A batch that was completed stays whole.
LEMMA WholeOfOther ==
    ASSUME NEW c \in Batch, WholeInv(c), pc'[c] = pc[c], batch'[c] = batch[c],
           \A h \in Hash : /\ db[h].chunks \subseteq db'[h].chunks
                           /\ db'[h].analysis \in {db[h].analysis, "llm", "fallback"}
    PROVE  WholeInv(c)'
<1>1. Commits(c)' = Commits(c)
  BY DEF Commits
<1>2. ASSUME NEW h \in Hash, db[h].chunks # {}, db[h].analysis # NoAnalysis
      PROVE  db'[h].chunks # {} /\ db'[h].analysis # NoAnalysis
  BY <1>2, IdleAssumption
<1> QED
  BY <1>1, <1>2 DEF WholeInv

\* A step of one batch before its end.
LEMMA CommitStays ==
    ASSUME TypeInv, CommitInv, NEW b \in Batch, Elsewhere(b), db' = db,
           RowsInv(b)', pc'[b] # "completed",
           \A h \in locks'[b] : h \in locks[b] \/ ~Held(b, h)
    PROVE  CommitInv'
<1>1. ASSUME NEW c \in Batch \ {b} PROVE RowsInv(c)' /\ WholeInv(c)'
  <2>1. RowsInv(c) /\ WholeInv(c)
    BY DEF CommitInv
  <2>2. RowsInv(c)'
    BY <2>1, RowsOfOther DEF Elsewhere
  <2>3. WholeInv(c)'
    BY <2>1, WholeOfOther DEF Elsewhere
  <2> QED
    BY <2>2, <2>3
<1>2. WholeInv(b)'
  BY DEF WholeInv
<1>3. LocksExclude'
  <2>1. ASSUME NEW c \in Batch \ {b} PROVE locks'[b] \cap locks'[c] = {}
    BY DEF Held, Elsewhere, CommitInv, LocksExclude
  <2>2. ASSUME NEW c \in Batch \ {b}, NEW d \in Batch \ {b}, c # d
        PROVE  locks'[c] \cap locks'[d] = {}
    BY <2>2 DEF Elsewhere, CommitInv, LocksExclude
  <2> QED
    BY <2>1, <2>2 DEF LocksExclude
<1>4. DbInv'
  BY DEF CommitInv, DbInv
<1> QED
  BY <1>1, <1>2, <1>3, <1>4 DEF CommitInv

LEMMA StartCommit ==
    ASSUME TypeInv, VectorInv, CommitInv, NEW b \in Batch, Start(b)
    PROVE  CommitInv'
<1>1. /\ pc[b] = "queued" /\ pc'[b] = "next" /\ view'[b].rows = db /\ db' = db
      /\ UNCHANGED <<batch, at, locks, new, indexed, failed>>
  BY DEF Start, stores, TypeInv
<1>2. Elsewhere(b)
  BY StepsElsewhere DEF Work
<1>3. RowsInv(b) /\ at[b] = 1 /\ indexed[b] = <<>> /\ failed[b] = {}
  BY <1>1 DEF CommitInv, TypeInv, Flow
<1>4. SeesInv(b)'
  <2>1. \A h \in Hash : ~Inserting(b, h)'
    BY <1>1 DEF Inserting
  <2>2. ASSUME NEW h \in Hash \ Existing, OwnChunks(b, h)' # {} PROVE ~db'[h].exists
    <3>1. PICK v \in db[h].chunks : v[1] = b
      BY <1>1, <2>2 DEF OwnChunks
    <3> QED
      BY <1>1, <3>1 DEF VectorInv, ChunksInv, Committed
  <2> QED
    BY <1>1, <2>1, <2>2 DEF SeesInv, CommitInv, DbInv
<1>5. DoneInv(b)'
  BY <1>1, <1>3 DEF DoneInv
<1>6. RowsInv(b)'
  BY <1>1, <1>3, <1>4, <1>5 DEF RowsInv, InsertInv
<1> QED
  BY <1>1, <1>2, <1>6, CommitStays

\* The rows stay as the batch sees them.
LEMMA SeesStays ==
    ASSUME NEW b \in Batch, SeesInv(b), view'[b] = view[b], db' = db,
           locks[b] \subseteq locks'[b],
           \A h \in Hash : ~Inserting(b, h) /\ ~Inserting(b, h)'
    PROVE  SeesInv(b)'
<1>1. \A h \in Hash : OwnChunks(b, h)' = OwnChunks(b, h)
  BY DEF OwnChunks
<1> QED
  BY <1>1 DEF SeesInv

LEMMA ItemsHaveHashes ==
    ASSUME TypeInv, NEW b \in Batch, NEW k \in DOMAIN indexed[b]
    PROVE  indexed[b][k].hash \in Hash
<1>1. indexed[b] \in Seq(Item)
  BY DEF TypeInv
<1>2. k \in 1..Len(indexed[b])
  BY <1>1
<1>3. indexed[b][k] \in Item
  BY <1>1, <1>2, ElementOfSeq
<1> QED
  BY <1>3 DEF Item

\* One more commit is done: it has failed, or it has an item and chunks.
LEMMA DoneGrows ==
    ASSUME TypeInv, NEW b \in Batch, DoneInv(b), failed[b] \subseteq 1..(at[b] - 1),
           pc[b] # "new", at[b] <= Len(Commits(b)), batch' = batch, at'[b] = at[b] + 1,
           \A h \in Hash : view[b].rows[h].chunks \subseteq view'[b].rows[h].chunks,
           \/ failed'[b] = failed[b] \cup {at[b]} /\ indexed' = indexed
           \/ /\ failed' = failed /\ CountAttempt(b) /\ Append1(b)
              /\ view'[b].rows[Current(b)].chunks # {}
    PROVE  DoneInv(b)' /\ (failed[b] \subseteq 1..(at[b] - 1))'
<1>1. at[b] \in 1..Len(batch[b]) /\ at[b] \in Nat /\ Current(b) = batch[b][at[b]]
      /\ Current(b) \in Hash /\ indexed[b] \in Seq(Item)
  BY CurrentIs DEF TypeInv, Commits, Current
<1>2. \A k \in DOMAIN indexed[b] : indexed[b][k].hash \in Hash
  BY ItemsHaveHashes
<1>3. (failed[b] \subseteq 1..(at[b] - 1))'
  BY <1>1
<1>4. \A i \in 1..(at'[b] - 1) : i \in 1..(at[b] - 1) \/ i = at[b]
  BY <1>1
<1>5. CASE failed'[b] = failed[b] \cup {at[b]} /\ indexed' = indexed
  <2>1. \A i \in 1..(at'[b] - 1) :
          i \in failed'[b] \/ \E k \in DOMAIN indexed'[b] : indexed'[b][k].hash = batch'[b][i]
    BY <1>4, <1>5 DEF DoneInv
  <2>2. \A k \in DOMAIN indexed'[b] : view'[b].rows[indexed'[b][k].hash].chunks # {}
    BY <1>2, <1>5 DEF DoneInv
  <2> QED
    BY <1>3, <2>1, <2>2 DEF DoneInv
<1>6. CASE /\ failed' = failed /\ CountAttempt(b) /\ Append1(b)
           /\ view'[b].rows[Current(b)].chunks # {}
  <2>1. PICK item \in Item, n \in Nat :
          /\ item.hash = Current(b) /\ n = Len(indexed[b]) + 1
          /\ indexed'[b] = Append(indexed[b], item)
    BY SMTT(20), <1>1, <1>6, Appends
  <2>2. /\ DOMAIN indexed'[b] = DOMAIN indexed[b] \cup {n}
        /\ \A k \in DOMAIN indexed[b] : indexed'[b][k] = indexed[b][k]
        /\ indexed'[b][n].hash = Current(b)
    BY <1>1, <2>1
  <2>3. ASSUME NEW i \in 1..(at'[b] - 1)
        PROVE  i \in failed'[b] \/ \E k \in DOMAIN indexed'[b] : indexed'[b][k].hash = batch'[b][i]
    <3>1. CASE i = at[b]
      BY <1>1, <2>2, <3>1
    <3>2. CASE i \in 1..(at[b] - 1)
      <4>1. i \in failed[b] \/ \E k \in DOMAIN indexed[b] : indexed[b][k].hash = batch[b][i]
        BY <3>2 DEF DoneInv
      <4> QED
        BY <1>6, <2>2, <4>1
    <3> QED
      BY <1>4, <3>1, <3>2
  <2>4. ASSUME NEW k \in DOMAIN indexed'[b]
        PROVE  view'[b].rows[indexed'[b][k].hash].chunks # {}
    <3>1. CASE k = n
      BY <1>6, <2>2, <3>1
    <3>2. CASE k \in DOMAIN indexed[b]
      <4>1. view[b].rows[indexed[b][k].hash].chunks # {}
        BY <3>2 DEF DoneInv
      <4> QED
        BY <1>2, <2>2, <3>2, <4>1
    <3> QED
      BY <2>2, <3>1, <3>2
  <2> QED
    BY <1>3, <2>3, <2>4 DEF DoneInv
<1> QED
  BY <1>5, <1>6

LEMMA WaitCommit ==
    ASSUME TypeInv, CommitInv, NEW b \in Batch, LookupAuthor(b) \/ Reuse(b) \/ Analyze(b)
    PROVE  CommitInv'
<1>1. /\ pc[b] = "next" /\ ~new[b] /\ UNCHANGED <<stores, own>>
      /\ pc'[b] \in Suspended
      /\ pc'[b] = "embedding" => Mine(b).exists /\ Mine(b).chunks = {} /\ at[b] <= Len(Commits(b))
      /\ pc'[b] = "author" => ~Mine(b).exists
  BY DEF LookupAuthor, Reuse, Analyze, AtCommit, PhaseOver, Suspend, Suspended, HasChunks,
         TypeInv, Flow
<1>2. RowsInv(b) /\ SeesInv(b) /\ DoneInv(b)
  BY <1>1 DEF CommitInv, RowsInv, Active
<1>3. \A h \in Hash : ~Inserting(b, h) /\ ~Inserting(b, h)'
  BY <1>1 DEF Inserting, own
<1>4. SeesInv(b)'
  BY <1>1, <1>2, <1>3, SeesStays DEF stores, own
<1>5. pc'[b] = "embedding" => Current(b) \in Existing
  <2>1. SUFFICES ASSUME pc'[b] = "embedding", Current(b) \notin Existing PROVE FALSE
    OBVIOUS
  <2>2. Current(b) \in Hash \ Existing
    BY <1>1, <2>1, CurrentIs
  <2>3. Mine(b).chunks # {} \/ Inserting(b, Current(b))
    BY <1>1, <1>2, <2>1, <2>2 DEF SeesInv, Mine
  <2> QED
    BY <1>1, <1>3, <2>1, <2>2, <2>3
<1>6. InsertInv(b)'
  BY <1>1, <1>5 DEF InsertInv, own, Current, Commits, Mine
<1>7. DoneInv(b)'
  BY <1>1, <1>2 DEF DoneInv, own
<1>8. RowsInv(b)'
  BY <1>1, <1>2, <1>4, <1>6, <1>7 DEF RowsInv, own
<1>9. pc'[b] # "completed"
  BY <1>1 DEF Suspended
<1>10. Elsewhere(b)
  BY StepsElsewhere DEF Work
<1> QED
  BY <1>1, <1>8, <1>9, <1>10, CommitStays DEF stores, own

LEMMA InsertCommit ==
    ASSUME TypeInv, CommitInv, NEW b \in Batch, Insert(b)
    PROVE  CommitInv'
<1>1. /\ pc[b] \in {"author", "next"} /\ at[b] <= Len(Commits(b)) /\ ~new[b]
      /\ Current(b) \in Hash
  BY InsertsAt, CurrentIs DEF Insert, TypeInv, Flow
<1>2. PICK h0 \in Hash : h0 = Current(b)
  BY <1>1
<1>3. /\ ~Held(b, h0) /\ ~db[h0].exists /\ pc'[b] = "embedding" /\ new'[b]
      /\ locks'[b] = locks[b] \cup {h0} /\ db' = db
      /\ UNCHANGED <<batch, at, indexed, failed>>
  BY <1>2 DEF Insert, Suspend, stores, TypeInv
<1>4. /\ view'[b].rows[h0].exists
      /\ \A h \in Hash : view'[b].rows[h].chunks = view[b].rows[h].chunks
      /\ \A h \in Hash \ {h0} : view'[b].rows[h].exists = view[b].rows[h].exists
  BY <1>2, InsertTypes DEF ExistsIs
<1>5. RowsInv(b) /\ SeesInv(b) /\ DoneInv(b)
  BY <1>1 DEF CommitInv, RowsInv, Active, Suspended
<1>6. \A h \in Hash : ~Inserting(b, h) /\ (Inserting(b, h)' <=> h = h0)
  BY <1>1, <1>2, <1>3 DEF Inserting, Current, Commits
<1>7. ~view[b].rows[h0].exists
  <2>1. CASE pc[b] = "author"
    BY <1>1, <1>2, <2>1 DEF CommitInv, RowsInv, InsertInv, Active, Suspended
  <2>2. CASE pc[b] = "next"
    BY <1>2, <2>2 DEF Insert, AtInsert, Mine
  <2> QED
    BY <1>1, <2>1, <2>2
<1>8. h0 \notin Existing => view[b].rows[h0].chunks = {}
  BY <1>5, <1>7 DEF SeesInv
<1>9. \A h \in Hash : OwnChunks(b, h)' = OwnChunks(b, h)
  BY <1>4 DEF OwnChunks
<1>10. SeesInv(b)'
  <2>1. ASSUME NEW h \in Hash
        PROVE  /\ \A v \in view'[b].rows[h].chunks : v[1] # b => v \in db'[h].chunks
               /\ (view'[b].rows[h].exists /\ ~db'[h].exists) => h \in locks'[b]
    BY <1>3, <1>4, <1>5 DEF SeesInv
  <2>2. ASSUME NEW h \in Hash \ Existing
        PROVE  view'[b].rows[h].exists <=> (view'[b].rows[h].chunks # {} \/ Inserting(b, h)')
    <3>1. CASE h = h0
      BY <1>4, <1>6, <3>1
    <3>2. CASE h # h0
      BY <1>4, <1>5, <1>6, <3>2 DEF SeesInv
    <3> QED
      BY <3>1, <3>2
  <2>3. ASSUME NEW h \in Hash \ Existing
        PROVE  /\ \A v, w \in view'[b].rows[h].chunks : v[1] = w[1] /\ v[2] = w[2]
               /\ OwnChunks(b, h)' # {} => ~db'[h].exists
    BY <1>3, <1>4, <1>5, <1>9 DEF SeesInv
  <2> QED
    BY <2>1, <2>2, <2>3 DEF SeesInv
<1>11. InsertInv(b)'
  <2>1. Current(b)' = h0
    BY <1>2, <1>3 DEF Current, Commits
  <2> QED
    BY <1>3, <1>4, <1>8, <2>1 DEF InsertInv
<1>12. DoneInv(b)'
  <2>1. ASSUME NEW k \in DOMAIN indexed[b] PROVE view'[b].rows[indexed[b][k].hash].chunks # {}
    <3>1. indexed[b][k].hash \in Hash
      BY ItemsHaveHashes
    <3>2. view[b].rows[indexed[b][k].hash].chunks # {}
      BY <1>5 DEF DoneInv
    <3> QED
      BY <1>4, <3>1, <3>2
  <2> QED
    BY <1>3, <1>5, <2>1 DEF DoneInv
<1>13. RowsInv(b)'
  BY <1>3, <1>5, <1>10, <1>11, <1>12 DEF RowsInv
<1>14. Elsewhere(b)
  BY StepsElsewhere DEF Work
<1>15. \A h \in locks'[b] : h \in locks[b] \/ ~Held(b, h)
  BY <1>3
<1> QED
  BY <1>3, <1>13, <1>14, <1>15, CommitStays

\* A commit that is through, or has failed before it was embedded.
LEMMA PassCommit ==
    ASSUME TypeInv, CommitInv, NEW b \in Batch, InsertFails(b) \/ Skip(b) \/ SkipFails(b)
    PROVE  CommitInv'
<1>1. /\ pc[b] \in {"author", "next"} /\ at[b] <= Len(Commits(b)) /\ ~new[b] /\ pc[b] # "new"
      /\ Current(b) \in Hash
  BY InsertsAt, CurrentIs DEF InsertFails, Skip, SkipFails, AtCommit, TypeInv, Flow
<1>2. /\ pc'[b] = "next" /\ at'[b] = at[b] + 1
      /\ UNCHANGED <<db, view, batch>>
  BY DEF InsertFails, Skip, SkipFails, GoOn, stores, TypeInv
<1>3. RowsInv(b) /\ SeesInv(b) /\ DoneInv(b)
  BY <1>1 DEF CommitInv, RowsInv, Active, Suspended
<1>4. \A h \in Hash : ~Inserting(b, h) /\ ~Inserting(b, h)'
  BY <1>1, <1>2 DEF Inserting
<1>5. /\ locks[b] \subseteq locks'[b]
      /\ \A h \in locks'[b] : h \in locks[b] \/ ~Held(b, h)
  <2>1. CASE InsertFails(b) \/ SkipFails(b)
    BY <2>1 DEF InsertFails, SkipFails
  <2>2. CASE Skip(b)
    BY <2>2 DEF Skip, TypeInv
  <2> QED
    BY <2>1, <2>2
<1>6. SeesInv(b)'
  BY <1>2, <1>3, <1>4, <1>5, SeesStays
<1>7. \/ failed'[b] = failed[b] \cup {at[b]} /\ indexed' = indexed
      \/ /\ failed' = failed /\ CountAttempt(b) /\ Append1(b)
         /\ view'[b].rows[Current(b)].chunks # {}
  <2>1. CASE InsertFails(b) \/ SkipFails(b)
    BY <2>1 DEF InsertFails, SkipFails, TypeInv
  <2>2. CASE Skip(b)
    BY <1>2, <2>2 DEF Skip, HasChunks, Mine
  <2> QED
    BY <2>1, <2>2
<1>8. DoneInv(b)' /\ (failed[b] \subseteq 1..(at[b] - 1))'
  BY <1>1, <1>2, <1>3, <1>7, DoneGrows DEF RowsInv
<1>9. RowsInv(b)'
  BY <1>2, <1>6, <1>8 DEF RowsInv, InsertInv
<1>10. Elsewhere(b)
  BY StepsElsewhere DEF Work
<1> QED
  BY <1>2, <1>5, <1>9, <1>10, CommitStays

\* The chunks of a commit that had no row are the first it gets.
LEMMA IndexCommit ==
    ASSUME TypeInv, CommitInv, NEW b \in Batch, Index(b)
    PROVE  CommitInv'
<1>1. /\ pc[b] = "embedding" /\ GoOn(b) /\ CountAttempt(b) /\ Append1(b)
      /\ UNCHANGED <<db, batch, failed>>
  BY DEF Index
<1>2. Current(b) \in Hash /\ pc[b] # "new" /\ at[b] <= Len(Commits(b))
  BY <1>1, CurrentIs DEF TypeInv, Flow, Commits
<1>3. PICK h0 \in Hash : h0 = Current(b)
  BY <1>2
<1>4. PICK C \in SUBSET Chunk :
        /\ C = ChunksOf(b, at[b]) /\ C # {}
        /\ \A v \in C : v[1] = b /\ v[2] = at[b]
  BY ChunksOfAre DEF TypeInv
<1>5. ChunksGrow(b, h0, C)
  BY <1>3, <1>4, IndexTypes
<1>6. /\ view'[b].rows[h0].chunks = view[b].rows[h0].chunks \cup C
      /\ \A h \in Hash : view'[b].rows[h].exists = view[b].rows[h].exists
      /\ \A h \in Hash \ {h0} : view'[b].rows[h].chunks = view[b].rows[h].chunks
  BY <1>5 DEF ChunksGrow
<1>7. pc'[b] = "next" /\ at'[b] = at[b] + 1
  BY <1>1 DEF GoOn, TypeInv
<1>8. RowsInv(b) /\ SeesInv(b) /\ DoneInv(b) /\ InsertInv(b)
  BY <1>1 DEF CommitInv, RowsInv, Active, Suspended
<1>9. /\ new[b] => /\ h0 \in locks[b] /\ ~db[h0].exists /\ view[b].rows[h0].exists
                   /\ h0 \notin Existing => view[b].rows[h0].chunks = {}
      /\ ~new[b] => h0 \in Existing
  BY <1>1, <1>3, <1>8 DEF InsertInv
<1>10. /\ \A h \in Hash \ {h0} : ~Inserting(b, h)
       /\ \A h \in Hash : ~Inserting(b, h)'
  BY <1>3, <1>7 DEF Inserting
<1>11. /\ locks[b] \subseteq locks'[b]
       /\ \A h \in locks'[b] : h \in locks[b] \/ ~Held(b, h)
  BY <1>3, <1>9 DEF Index, TypeInv
<1>12. SeesInv(b)'
  <2>1. ASSUME NEW h \in Hash
        PROVE  /\ \A v \in view'[b].rows[h].chunks : v[1] # b => v \in db'[h].chunks
               /\ (view'[b].rows[h].exists /\ ~db'[h].exists) => h \in locks'[b]
    BY <1>1, <1>4, <1>6, <1>8, <1>11 DEF SeesInv
  <2>2. ASSUME NEW h \in Hash \ Existing
        PROVE  /\ view'[b].rows[h].exists <=> (view'[b].rows[h].chunks # {} \/ Inserting(b, h)')
               /\ \A v, w \in view'[b].rows[h].chunks : v[1] = w[1] /\ v[2] = w[2]
               /\ OwnChunks(b, h)' # {} => ~db'[h].exists
    <3>1. CASE h = h0
      <4>1. /\ view[b].rows[h0].chunks = {} /\ view'[b].rows[h0].exists /\ ~db'[h0].exists
        BY <1>1, <1>6, <1>9, <3>1
      <4> QED
        BY <1>4, <1>6, <3>1, <4>1
    <3>2. CASE h # h0
      <4>1. OwnChunks(b, h)' = OwnChunks(b, h)
        BY <1>6, <3>2 DEF OwnChunks
      <4> QED
        BY <1>1, <1>6, <1>8, <1>10, <3>2, <4>1 DEF SeesInv
    <3> QED
      BY <3>1, <3>2
  <2> QED
    BY <2>1, <2>2 DEF SeesInv
<1>13. DoneInv(b)' /\ (failed[b] \subseteq 1..(at[b] - 1))'
  <2>1. \A h \in Hash : view[b].rows[h].chunks \subseteq view'[b].rows[h].chunks
    BY <1>6
  <2>2. view'[b].rows[Current(b)].chunks # {}
    BY <1>3, <1>4, <1>6
  <2> QED
    BY <1>1, <1>2, <1>7, <1>8, <2>1, <2>2, DoneGrows DEF RowsInv
<1>14. RowsInv(b)'
  BY <1>7, <1>12, <1>13 DEF RowsInv, InsertInv
<1>15. Elsewhere(b)
  BY StepsElsewhere DEF Work
<1> QED
  BY <1>1, <1>7, <1>11, <1>14, <1>15, CommitStays

\* The savepoint goes, and with it the row it has inserted and its lock.
LEMMA IndexFailsCommit ==
    ASSUME TypeInv, CommitInv, NEW b \in Batch, IndexFails(b)
    PROVE  CommitInv'
<1>1. /\ pc[b] = "embedding" /\ GoOn(b) /\ failed'[b] = failed[b] \cup {at[b]}
      /\ UNCHANGED <<db, batch, indexed>>
  BY DEF IndexFails, TypeInv
<1>2. Current(b) \in Hash /\ pc[b] # "new" /\ at[b] <= Len(Commits(b))
  BY <1>1, CurrentIs DEF TypeInv, Flow, Commits
<1>3. PICK h0 \in Hash : h0 = Current(b)
  BY <1>2
<1>4. \/ new[b] /\ ExistsIs(b, h0, FALSE) /\ locks'[b] = locks[b] \ {h0}
      \/ ~new[b] /\ view'[b] = view[b] /\ locks'[b] = locks[b]
  BY <1>3, IndexFailsTypes DEF RollsBack
<1>5. pc'[b] = "next" /\ at'[b] = at[b] + 1
  BY <1>1 DEF GoOn, TypeInv
<1>6. RowsInv(b) /\ SeesInv(b) /\ DoneInv(b) /\ InsertInv(b)
  BY <1>1 DEF CommitInv, RowsInv, Active, Suspended
<1>7. new[b] /\ h0 \notin Existing => view[b].rows[h0].chunks = {}
  BY <1>1, <1>3, <1>6 DEF InsertInv
<1>8. \A h \in Hash : view'[b].rows[h].chunks = view[b].rows[h].chunks
  BY <1>4 DEF ExistsIs
<1>9. \A h \in Hash : OwnChunks(b, h)' = OwnChunks(b, h)
  BY <1>8 DEF OwnChunks
<1>10. SeesInv(b)'
  <2>1. CASE ~new[b]
    <3>1. \A h \in Hash : ~Inserting(b, h) /\ ~Inserting(b, h)'
      BY <1>5, <2>1 DEF Inserting
    <3> QED
      BY <1>1, <1>4, <1>6, <2>1, <3>1, SeesStays
  <2>2. CASE new[b]
    <3>1. /\ ~view'[b].rows[h0].exists /\ locks'[b] = locks[b] \ {h0}
          /\ \A h \in Hash \ {h0} : view'[b].rows[h].exists = view[b].rows[h].exists
      BY <1>4, <2>2 DEF ExistsIs
    <3>2. /\ \A h \in Hash \ {h0} : ~Inserting(b, h)
          /\ \A h \in Hash : ~Inserting(b, h)'
      BY <1>3, <1>5 DEF Inserting
    <3>3. ASSUME NEW h \in Hash
          PROVE  /\ \A v \in view'[b].rows[h].chunks : v[1] # b => v \in db'[h].chunks
                 /\ (view'[b].rows[h].exists /\ ~db'[h].exists) => h \in locks'[b]
      BY <1>1, <1>6, <1>8, <3>1 DEF SeesInv
    <3>4. ASSUME NEW h \in Hash \ Existing
          PROVE  view'[b].rows[h].exists <=> (view'[b].rows[h].chunks # {} \/ Inserting(b, h)')
      <4>1. CASE h = h0
        BY <1>7, <1>8, <2>2, <3>1, <3>2, <4>1
      <4>2. CASE h # h0
        BY <1>6, <1>8, <3>1, <3>2, <4>2 DEF SeesInv
      <4> QED
        BY <4>1, <4>2
    <3>5. ASSUME NEW h \in Hash \ Existing
          PROVE  /\ \A v, w \in view'[b].rows[h].chunks : v[1] = w[1] /\ v[2] = w[2]
                 /\ OwnChunks(b, h)' # {} => ~db'[h].exists
      BY <1>1, <1>6, <1>8, <1>9 DEF SeesInv
    <3> QED
      BY <3>3, <3>4, <3>5 DEF SeesInv
  <2> QED
    BY <2>1, <2>2
<1>11. DoneInv(b)' /\ (failed[b] \subseteq 1..(at[b] - 1))'
  BY <1>1, <1>2, <1>5, <1>6, <1>8, DoneGrows DEF RowsInv
<1>12. RowsInv(b)'
  BY <1>5, <1>10, <1>11 DEF RowsInv, InsertInv
<1>13. \A h \in locks'[b] : h \in locks[b]
  BY <1>4
<1>14. Elsewhere(b)
  BY StepsElsewhere DEF Work
<1> QED
  BY <1>1, <1>5, <1>12, <1>13, <1>14, CommitStays

\* COMPLETED says that no commit failed in any phase.
LEMMA CompletedIs ==
    ASSUME TypeInv, CommitInv, NEW b \in Batch, NEW lost \in SUBSET DOMAIN indexed[b],
           Result(b, lost) = "completed"
    PROVE  failed[b] = {} /\ lost = {}
<1>1. failed[b] \subseteq 1..(at[b] - 1) /\ at[b] \in Nat /\ indexed[b] \in Seq(Item)
  BY DEF CommitInv, RowsInv, TypeInv
<1>2. IsFiniteSet(failed[b])
  <2>1. IsFiniteSet(1..(at[b] - 1))
    BY <1>1, FS_Interval
  <2> QED
    BY <1>1, <2>1, FS_Subset
<1>3. IsFiniteSet(lost)
  <2>1. DOMAIN indexed[b] = 1..Len(indexed[b]) /\ Len(indexed[b]) \in Nat
    BY <1>1
  <2>2. IsFiniteSet(1..Len(indexed[b]))
    BY <2>1, FS_Interval
  <2> QED
    BY <2>1, <2>2, FS_Subset
<1>4. Cardinality(failed[b]) \in Nat /\ Cardinality(lost) \in Nat
  BY <1>2, <1>3, FS_CardinalityType
<1>5. Cardinality(failed[b]) + Cardinality(lost) = 0
  BY DEF Result
<1>6. Cardinality(failed[b]) = 0 /\ Cardinality(lost) = 0
  BY <1>4, <1>5
<1> QED
  BY <1>2, <1>3, <1>6, FS_EmptySet

\* The rows of a batch become everyone's, and it holds nothing back.
LEMMA FinishCommit ==
    ASSUME TypeInv, CommitInv, NEW b \in Batch, Finish(b)
    PROVE  CommitInv'
<1>1. PICK lost \in SUBSET DOMAIN indexed[b] :
             \E how \in [DOMAIN indexed[b] \ lost -> {"llm", "fallback"}] :
                Finishes(b, lost, DOMAIN indexed[b] \ lost, how)
  BY FinishIs
<1>2. PICK how \in [DOMAIN indexed[b] \ lost -> {"llm", "fallback"}] :
                Finishes(b, lost, DOMAIN indexed[b] \ lost, how)
  BY <1>1
<1>3. \A h \in Hash :
        /\ db'[h].exists <=> (db[h].exists \/ view[b].rows[h].exists)
        /\ db'[h].chunks = db[h].chunks \cup OwnChunks(b, h)
        /\ db'[h].analysis \in {db[h].analysis, "llm", "fallback"}
        /\ \A k \in DOMAIN indexed[b] \ lost :
             indexed[b][k].hash = h => db'[h].analysis # NoAnalysis
  BY <1>2, FinishRows
<1>4. /\ pc'[b] = Result(b, lost) /\ locks'[b] = {}
      /\ UNCHANGED <<batch, at, view, new, indexed, failed>>
  BY <1>2 DEF Finishes, Finish, TypeInv
<1>5. pc'[b] \in Committed
  BY <1>4 DEF Result, Committed
<1>6. /\ pc[b] \in {"analyzing", "next"} /\ Commits(b) \in Seq(Hash)
      /\ at[b] = Len(Commits(b)) + 1
  BY EndsAt DEF Finish
<1>7. RowsInv(b) /\ SeesInv(b) /\ DoneInv(b) /\ DbInv /\ LocksExclude
  BY <1>6 DEF CommitInv, RowsInv, Active, Suspended
<1>8. \A h \in Hash : ~Inserting(b, h)
  BY <1>6 DEF Inserting
<1>9. Elsewhere(b)
  BY StepsElsewhere DEF Work
<1>10. ASSUME NEW c \in Batch \ {b} PROVE RowsInv(c)' /\ WholeInv(c)'
  <2>1. RowsInv(c) /\ WholeInv(c)
    BY DEF CommitInv
  <2>2. ASSUME NEW h \in locks[c], db'[h].exists PROVE db[h].exists
    <3>1. h \in Hash
      BY DEF TypeInv
    <3>2. h \notin locks[b]
      BY <1>7 DEF LocksExclude
    <3> QED
      BY <1>3, <1>7, <2>2, <3>1, <3>2 DEF SeesInv
  <2>3. RowsInv(c)'
    BY <1>3, <1>9, <2>1, <2>2, RowsOfOther DEF Elsewhere
  <2>4. WholeInv(c)'
    BY <1>3, <1>9, <2>1, WholeOfOther DEF Elsewhere
  <2> QED
    BY <2>3, <2>4
<1>11. RowsInv(b)'
  BY <1>4, <1>5, <1>7 DEF RowsInv, Committed, Active, Suspended
<1>12. WholeInv(b)'
  <2> SUFFICES ASSUME pc'[b] = "completed", NEW h \in ToSet(Commits(b))
               PROVE  h \in Hash /\ db'[h].chunks # {} /\ db'[h].analysis # NoAnalysis
    BY <1>4 DEF WholeInv, Commits
  <2>1. failed[b] = {} /\ lost = {}
    BY <1>4, CompletedIs
  <2>2. PICK i \in DOMAIN Commits(b) : h = Commits(b)[i]
    BY DEF ToSet
  <2>3. i \in 1..(at[b] - 1) /\ h \in Hash
    BY <1>6, <2>2
  <2>4. PICK k \in DOMAIN indexed[b] : indexed[b][k].hash = h
    BY <1>7, <2>1, <2>2, <2>3 DEF DoneInv, Commits
  <2>5. view[b].rows[h].chunks # {}
    BY <1>7, <2>4 DEF DoneInv
  <2>6. db'[h].chunks # {}
    <3>1. PICK v \in view[b].rows[h].chunks : TRUE
      BY <2>5
    <3>2. v \in db[h].chunks \/ v \in OwnChunks(b, h)
      BY <1>7, <2>3 DEF SeesInv, OwnChunks
    <3> QED
      BY <1>3, <2>3, <3>2
  <2>7. db'[h].analysis # NoAnalysis
    BY <1>3, <2>1, <2>3, <2>4
  <2> QED
    BY <2>3, <2>6, <2>7
<1>13. LocksExclude'
  BY <1>4, <1>7, <1>9 DEF LocksExclude, Elsewhere
<1>14. DbInv'
  <2> SUFFICES ASSUME NEW h \in Hash \ Existing
               PROVE  /\ db'[h].exists <=> db'[h].chunks # {}
                      /\ \A v, w \in db'[h].chunks : v[1] = w[1] /\ v[2] = w[2]
    BY DEF DbInv
  <2>1. /\ db'[h].exists <=> (db[h].exists \/ view[b].rows[h].exists)
        /\ db'[h].chunks = db[h].chunks \cup OwnChunks(b, h)
    BY <1>3
  <2>2. /\ db[h].exists <=> db[h].chunks # {}
        /\ \A v, w \in db[h].chunks : v[1] = w[1] /\ v[2] = w[2]
    BY <1>7 DEF DbInv
  <2>3. /\ \A v \in view[b].rows[h].chunks : v[1] # b => v \in db[h].chunks
        /\ view[b].rows[h].exists <=> view[b].rows[h].chunks # {}
        /\ \A v, w \in view[b].rows[h].chunks : v[1] = w[1] /\ v[2] = w[2]
        /\ OwnChunks(b, h) # {} => ~db[h].exists
    BY <1>7, <1>8 DEF SeesInv
  <2>4. CASE db[h].exists
    BY <2>1, <2>2, <2>3, <2>4
  <2>5. CASE ~db[h].exists
    <3>1. db[h].chunks = {} /\ OwnChunks(b, h) = view[b].rows[h].chunks
      BY <2>2, <2>3, <2>5 DEF OwnChunks
    <3> QED
      BY <2>1, <2>3, <2>5, <3>1
  <2> QED
    BY <2>4, <2>5
<1> QED
  BY <1>10, <1>11, <1>12, <1>13, <1>14 DEF CommitInv

LEMMA CrashCommit ==
    ASSUME TypeInv, CommitInv, Crash
    PROVE  CommitInv'
<1>1. UNCHANGED <<db, batch, at, failed>>
  BY DEF Crash
<1>2. \A c \in Batch : /\ pc'[c] \notin Active /\ locks'[c] = {}
                       /\ pc'[c] = "completed" => pc[c] = "completed"
  BY CrashIs
<1>3. \A c \in Batch : RowsInv(c)'
  BY <1>1, <1>2 DEF CommitInv, RowsInv
<1>4. \A c \in Batch : WholeInv(c)'
  BY <1>1, <1>2 DEF CommitInv, WholeInv, Commits
<1>5. LocksExclude' /\ DbInv'
  BY <1>1, <1>2 DEF CommitInv, LocksExclude, DbInv
<1> QED
  BY <1>3, <1>4, <1>5 DEF CommitInv

LEMMA StepCommit ==
    ASSUME TypeInv, VectorInv, CommitInv, [Next]_vars
    PROVE  CommitInv'
<1>1. ASSUME NEW b \in Batch, Accept(b) \/ FinishFails(b) PROVE CommitInv'
  <2>1. /\ pc'[b] \in {"queued", "broken"} /\ UNCHANGED <<db, at, failed>>
        /\ \A h \in locks'[b] : h \in locks[b]
    BY <1>1 DEF Accept, FinishFails, Suspend, stores, TypeInv
  <2>2. RowsInv(b)'
    BY <2>1 DEF CommitInv, RowsInv, Active, Suspended
  <2>3. Elsewhere(b)
    BY <1>1, StepsElsewhere DEF Work
  <2> QED
    BY <2>1, <2>2, <2>3, CommitStays
<1>2. ASSUME Rebuild \/ UNCHANGED vars PROVE CommitInv'
  <2>1. UNCHANGED <<db, pc, batch, at, view, locks, new, indexed, failed>>
    BY <1>2 DEF Rebuild, stores, own, vars
  <2>2. ASSUME NEW b \in Batch PROVE RowsInv(b)' /\ WholeInv(b)'
    BY <2>1, RowsOfOther, WholeOfOther DEF CommitInv, TypeInv, Row
  <2> QED
    BY <2>1, <2>2 DEF CommitInv, LocksExclude, DbInv
<1>3. ASSUME NEW b \in Batch, Work(b) PROVE CommitInv'
  BY <1>1, <1>3, StartCommit, WaitCommit, InsertCommit, PassCommit, IndexCommit,
     IndexFailsCommit, FinishCommit DEF Work
<1> QED
  BY <1>1, <1>2, <1>3, CrashCommit DEF Next

\* A batch reported COMPLETED has left chunks and an analysis of each of its
\* commits, and the chunks of a commit come from one indexing however many
\* batches bring it, which the row locks and the duplicate keys of
\* _get_or_create_git_commit see to.
THEOREM CommitsAreWhole == Spec => []CommitsWhole
<1>1. Init => TypeInv /\ VectorInv /\ CommitInv
  BY TypesStart, VectorsStart, CommitStarts
<1>2. TypeInv /\ VectorInv /\ CommitInv /\ [Next]_vars => (TypeInv /\ VectorInv /\ CommitInv)'
  BY StepTypes, StepVectors, StepCommit
<1>3. CommitInv => CommitsWhole
  BY DEF CommitInv, WholeInv, DbInv, CommitsWhole
<1> QED
  BY <1>1, <1>2, <1>3, PTL DEF Spec

-----------------------------------------------------------------------------
\* The refinement of CommitIndex.

\* A batch has a whole block of its own in each commit it has indexed, and none in
\* the one it is embedding.
OwnBlocks(b) ==
    /\ pc[b] = "embedding" => view[b].rows[Current(b)].chunks = {}
    /\ \A h \in Hash :
          \/ OwnChunks(b, h) = {}
          \/ \E i \in DOMAIN batch[b] : batch[b][i] = h /\ OwnChunks(b, h) = ChunksOf(b, i)

BlockInv ==
    /\ \A h \in Existing : db[h].exists
    /\ \A b \in Batch : pc[b] \in Active => OwnBlocks(b)

LEMMA BlocksStart == Init => BlockInv
<1> SUFFICES ASSUME Init PROVE BlockInv
  OBVIOUS
<1>1. ASSUME NEW h \in Existing PROVE db[h].exists
  <2>1. h \in Hash /\ db = EmptyDb
    BY ExistingAssumption DEF Init
  <2>2. EmptyDb[h] = [exists |-> h \in Existing, chunks |-> {}, analysis |-> NoAnalysis]
    BY <2>1 DEF EmptyDb
  <2>3. EmptyDb[h].exists = (h \in Existing)
    BY <2>2
  <2> QED
    BY <2>1, <2>3
<1>2. \A b \in Batch : pc[b] \notin Active
  BY DEF Init, Active, Suspended
<1> QED
  BY <1>1, <1>2 DEF BlockInv

\* What a batch keeps of it while it does not index.
LEMMA BlocksStay ==
    ASSUME NEW b \in Batch, OwnBlocks(b), batch'[b] = batch[b],
           \A h \in Hash : view'[b].rows[h].chunks = view[b].rows[h].chunks,
           pc'[b] = "embedding" => view'[b].rows[Current(b)'].chunks = {}
    PROVE  OwnBlocks(b)'
<1>1. \A h \in Hash : OwnChunks(b, h)' = OwnChunks(b, h)
  BY DEF OwnChunks
<1>2. \A i : ChunksOf(b, i)' = ChunksOf(b, i)
  BY DEF ChunksOf
<1> QED
  BY <1>1, <1>2 DEF OwnBlocks

LEMMA BlocksOfOther ==
    ASSUME TypeInv, NEW b \in Batch, Elsewhere(b), BlockInv,
           NEW c \in Batch \ {b}, pc'[c] \in Active
    PROVE  OwnBlocks(c)'
<1>1. /\ pc'[c] = pc[c] /\ batch'[c] = batch[c] /\ view'[c] = view[c]
      /\ Current(c)' = Current(c) /\ OwnBlocks(c)
  BY DEF Elsewhere, BlockInv, Current, Commits
<1>2. pc'[c] = "embedding" => view'[c].rows[Current(c)'].chunks = {}
  BY <1>1 DEF OwnBlocks
<1> QED
  BY <1>1, <1>2, BlocksStay

\* Nothing of a batch is committed when its transaction begins.
LEMMA StartBlocks ==
    ASSUME TypeInv, VectorInv, NEW b \in Batch, Start(b)
    PROVE  OwnBlocks(b)'
<1>1. pc[b] = "queued" /\ pc'[b] = "next" /\ view'[b].rows = db
  BY DEF Start, TypeInv
<1>2. \A h \in Hash : \A v \in db[h].chunks : v[1] # b
  BY <1>1 DEF VectorInv, ChunksInv, Committed
<1>3. \A h \in Hash : OwnChunks(b, h)' = {}
  BY <1>1, <1>2 DEF OwnChunks
<1> QED
  BY <1>1, <1>3 DEF OwnBlocks

\* A commit is embedded only when the batch sees no chunk of it.
LEMMA EmbeddingBlocks ==
    ASSUME TypeInv, CommitInv, BlockInv, NEW b \in Batch, Insert(b) \/ Reuse(b)
    PROVE  OwnBlocks(b)'
<1>1. /\ pc[b] \in Active /\ Current(b) \in Hash /\ Current(b)' = Current(b)
      /\ batch'[b] = batch[b]
  <2>1. CASE Insert(b)
    BY <2>1, InsertsAt, CurrentIs DEF Insert, Active, Suspended, Current, Commits
  <2>2. CASE Reuse(b)
    BY <2>2, CurrentIs DEF Reuse, AtCommit, own, Active, Suspended, Current, Commits
  <2> QED
    BY <2>1, <2>2
<1>2. \A h \in Hash : view'[b].rows[h].chunks = view[b].rows[h].chunks
  <2>1. CASE Insert(b)
    BY <1>1, <2>1, InsertTypes DEF ExistsIs
  <2>2. CASE Reuse(b)
    BY <2>2 DEF Reuse, own
  <2> QED
    BY <2>1, <2>2
<1>3. view[b].rows[Current(b)].chunks = {}
  <2>1. CASE Insert(b)
    <3>1. Current(b) \notin Existing
      BY <2>1 DEF Insert, BlockInv
    <3>2. ~view[b].rows[Current(b)].exists
      <4>1. pc[b] = "author" \/ ~Mine(b).exists
        BY <2>1 DEF Insert, AtInsert
      <4> QED
        BY <1>1, <4>1 DEF CommitInv, RowsInv, InsertInv, Mine
    <3>3. SeesInv(b)
      BY <1>1 DEF CommitInv, RowsInv
    <3> QED
      BY <1>1, <3>1, <3>2, <3>3 DEF SeesInv
  <2>2. CASE Reuse(b)
    BY <2>2 DEF Reuse, HasChunks, Mine
  <2> QED
    BY <2>1, <2>2
<1> QED
  BY <1>1, <1>2, <1>3, BlocksStay DEF BlockInv

\* The block of the commit that was embedded.
LEMMA IndexBlocks ==
    ASSUME TypeInv, BlockInv, NEW b \in Batch, Index(b)
    PROVE  OwnBlocks(b)'
<1>1. pc[b] = "embedding" /\ GoOn(b) /\ batch' = batch
  BY DEF Index
<1>2. Current(b) \in Hash /\ at[b] \in DOMAIN batch[b] /\ Current(b) = batch[b][at[b]]
  BY <1>1, CurrentIs DEF TypeInv, Flow, Commits, Current
<1>3. PICK h0 \in Hash : h0 = Current(b)
  BY <1>2
<1>4. PICK C \in SUBSET Chunk : C = ChunksOf(b, at[b]) /\ \A v \in C : v[1] = b
  BY ChunksOfAre DEF TypeInv
<1>5. /\ view'[b].rows[h0].chunks = view[b].rows[h0].chunks \cup C
      /\ \A h \in Hash \ {h0} : view'[b].rows[h].chunks = view[b].rows[h].chunks
  <2>1. ChunksGrow(b, h0, C)
    BY <1>3, <1>4, IndexTypes
  <2> QED
    BY <2>1 DEF ChunksGrow
<1>6. OwnBlocks(b) /\ view[b].rows[h0].chunks = {}
  BY <1>1, <1>3 DEF BlockInv, OwnBlocks, Active, Suspended
<1>7. pc'[b] = "next"
  BY <1>1 DEF GoOn, TypeInv
<1>8. \A i : ChunksOf(b, i)' = ChunksOf(b, i)
  BY DEF ChunksOf
<1>9. OwnChunks(b, h0)' = C
  BY <1>4, <1>5, <1>6 DEF OwnChunks
<1>10. \A h \in Hash \ {h0} : OwnChunks(b, h)' = OwnChunks(b, h)
  BY <1>5 DEF OwnChunks
<1>11. ASSUME NEW h \in Hash
       PROVE  \/ OwnChunks(b, h)' = {}
              \/ \E i \in DOMAIN batch'[b] :
                    batch'[b][i] = h /\ OwnChunks(b, h)' = ChunksOf(b, i)'
  <2>1. CASE h = h0
    BY <1>1, <1>2, <1>3, <1>4, <1>8, <1>9, <2>1
  <2>2. CASE h # h0
    BY <1>1, <1>6, <1>8, <1>10, <2>2 DEF OwnBlocks
  <2> QED
    BY <2>1, <2>2
<1> QED
  BY <1>7, <1>11 DEF OwnBlocks

\* The other steps of a batch that is still under way.
LEMMA PassBlocks ==
    ASSUME TypeInv, BlockInv, NEW b \in Batch,
           \/ LookupAuthor(b) \/ InsertFails(b) \/ Skip(b) \/ SkipFails(b)
           \/ IndexFails(b) \/ Analyze(b)
    PROVE  OwnBlocks(b)'
<1>1. pc[b] \in Active
  <2>1. CASE LookupAuthor(b) \/ Skip(b) \/ SkipFails(b) \/ Analyze(b)
    BY <2>1 DEF LookupAuthor, Skip, SkipFails, Analyze, AtCommit, PhaseOver, Active
  <2>2. CASE InsertFails(b)
    BY <2>2, InsertsAt DEF InsertFails, Active, Suspended
  <2>3. CASE IndexFails(b)
    BY <2>3 DEF IndexFails, Active, Suspended
  <2> QED
    BY <2>1, <2>2, <2>3
<1>2. batch'[b] = batch[b] /\ pc'[b] # "embedding"
  <2>1. CASE LookupAuthor(b) \/ Analyze(b)
    BY <2>1 DEF LookupAuthor, Analyze, Suspend, own, TypeInv
  <2>2. CASE InsertFails(b) \/ Skip(b) \/ SkipFails(b) \/ IndexFails(b)
    <3>1. GoOn(b) /\ batch' = batch
      BY <2>2 DEF InsertFails, Skip, SkipFails, IndexFails
    <3> QED
      BY <3>1 DEF GoOn, TypeInv
  <2> QED
    BY <2>1, <2>2
<1>3. \A h \in Hash : view'[b].rows[h].chunks = view[b].rows[h].chunks
  <2>1. CASE LookupAuthor(b) \/ InsertFails(b) \/ Skip(b) \/ SkipFails(b) \/ Analyze(b)
    BY <2>1 DEF LookupAuthor, InsertFails, Skip, SkipFails, Analyze, own
  <2>2. CASE IndexFails(b)
    <3>1. ExistsIs(b, Current(b), FALSE) \/ view'[b] = view[b]
      BY <2>2, IndexFailsTypes DEF RollsBack
    <3> QED
      BY <3>1 DEF ExistsIs
  <2> QED
    BY <2>1, <2>2
<1> QED
  BY <1>1, <1>2, <1>3, BlocksStay DEF BlockInv

\* A row that is there stays there.
LEMMA RowsStay ==
    ASSUME TypeInv, [Next]_vars, NEW h \in Hash, db[h].exists
    PROVE  db'[h].exists
<1>1. ASSUME NEW b \in Batch, Finish(b) PROVE db'[h].exists
  <2>1. PICK lost \in SUBSET DOMAIN indexed[b] :
             \E how \in [DOMAIN indexed[b] \ lost -> {"llm", "fallback"}] :
                Finishes(b, lost, DOMAIN indexed[b] \ lost, how)
    BY <1>1, FinishIs
  <2> QED
    BY <2>1, FinishRows
<1>2. ASSUME NEW b \in Batch, ~Finish(b), Accept(b) \/ Work(b) PROVE db' = db
  BY <1>2 DEF Accept, Work, Start, LookupAuthor, Insert, InsertFails, Reuse, Skip, SkipFails,
     Index, IndexFails, Analyze, FinishFails, stores
<1>3. ASSUME Rebuild \/ Crash \/ UNCHANGED vars PROVE db' = db
  BY <1>3 DEF Rebuild, Crash, stores, vars
<1> QED
  BY <1>1, <1>2, <1>3 DEF Next, Work

LEMMA StepBlocks ==
    ASSUME TypeInv, VectorInv, CommitInv, BlockInv, [Next]_vars
    PROVE  BlockInv'
<1>1. \A h \in Existing : db'[h].exists
  BY RowsStay, ExistingAssumption DEF BlockInv
<1>2. ASSUME NEW b \in Batch, Accept(b) \/ Work(b), NEW c \in Batch, pc'[c] \in Active
      PROVE  OwnBlocks(c)'
  <2>1. Elsewhere(b)
    BY <1>2, StepsElsewhere
  <2>2. CASE c # b
    BY <1>2, <2>1, <2>2, BlocksOfOther
  <2>3. CASE c = b
    <3>1. ~(Accept(b) \/ Finish(b) \/ FinishFails(b))
      <4>1. ASSUME Accept(b) \/ FinishFails(b) PROVE pc'[b] \notin Active
        BY <4>1 DEF Accept, FinishFails, Suspend, TypeInv, Active, Suspended
      <4>2. ASSUME Finish(b) PROVE pc'[b] \notin Active
        <5>1. PICK lost : pc' = [pc EXCEPT ![b] = Result(b, lost)]
          BY <4>2, FinishIs DEF Finishes
        <5> QED
          BY <5>1 DEF Result, TypeInv, Active, Suspended
      <4> QED
        BY <1>2, <2>3, <4>1, <4>2
    <3> QED
      BY <1>2, <2>3, <3>1, StartBlocks, EmbeddingBlocks, IndexBlocks, PassBlocks DEF Work
  <2> QED
    BY <2>2, <2>3
<1>3. ASSUME Rebuild \/ UNCHANGED vars, NEW c \in Batch, pc'[c] \in Active
      PROVE  OwnBlocks(c)'
  <2>1. UNCHANGED <<pc, batch, at, view>>
    BY <1>3 DEF Rebuild, own, vars
  <2>2. OwnBlocks(c) /\ Current(c)' = Current(c)
    BY <1>3, <2>1 DEF BlockInv, Current, Commits
  <2> QED
    BY <2>1, <2>2, BlocksStay DEF OwnBlocks
<1>4. ASSUME Crash, NEW c \in Batch PROVE pc'[c] \notin Active
  BY <1>4, CrashIs
<1> QED
  BY <1>1, <1>2, <1>3, <1>4 DEF BlockInv, Next

\* The end of a batch publishes its blocks.
LEMMA FinishPublishes ==
    ASSUME TypeInv, VectorInv, CommitInv, BlockInv, NEW b \in Batch, Finish(b)
    PROVE  Promised!Next
<1> DEFINE C == {h \in Hash : OwnChunks(b, h) # {}}
           block == [h \in C |-> OwnChunks(b, h)]
           blocks == {ChunksOf(b, i) : i \in Position}
           BlocksOf == [c \in Batch |-> {ChunksOf(c, i) : i \in Position}]
<1>1. pc[b] \in Active /\ batch[b] \in Payloads /\ Commits(b) = batch[b]
  BY EndsAt DEF Finish, TypeInv, Flow, Active, Suspended, Commits
<1>2. OwnBlocks(b) /\ SeesInv(b) /\ DbInv /\ TraceInv(b) /\ ChunksInv
  BY <1>1 DEF BlockInv, CommitInv, RowsInv, VectorInv
<1>3. \A h \in Hash : db'[h].chunks = db[h].chunks \cup OwnChunks(b, h)
  BY FinishIs, FinishRows
<1>4. vectors' = vectors
  BY DEF Finish
<1>5. ASSUME NEW h \in C
      PROVE  \E i \in Position : batch[b][i] = h /\ block[h] = ChunksOf(b, i)
  BY <1>1, <1>2 DEF OwnBlocks, Position
<1>6. block \in [C -> blocks] /\ blocks = BlocksOf[b]
  BY <1>5
<1>7. ASSUME NEW h \in Hash PROVE Findable[h] \cap UNION BlocksOf[b] = {}
  <2>1. \A v \in UNION blocks : v[1] = b
    BY DEF ChunksOf
  <2>2. \A v \in db[h].chunks : pc[v[1]] \in Committed
    BY <1>2 DEF ChunksInv
  <2>3. pc[b] \notin Committed
    BY <1>1 DEF Active, Suspended, Committed
  <2> QED
    BY <2>1, <2>2, <2>3 DEF Findable
<1>8. ASSUME NEW h \in C PROVE Findable[h] = {} \/ h \in Existing
  <2>1. h \notin Existing => db[h].chunks = {}
    BY <1>2 DEF SeesInv, DbInv
  <2> QED
    BY <2>1 DEF Findable
<1>9. ASSUME NEW g \in C, NEW h \in C, g # h PROVE block[g] \cap block[h] = {}
  <2>1. PICK i \in Position : batch[b][i] = g /\ block[g] = ChunksOf(b, i)
    BY <1>5
  <2>2. PICK j \in Position : batch[b][j] = h /\ block[h] = ChunksOf(b, j)
    BY <1>5
  <2>3. i # j
    BY <1>9, <2>1, <2>2
  <2> HIDE DEF block
  <2> QED
    BY <2>1, <2>2, <2>3 DEF ChunksOf
<1>10. Findable' = [h \in Hash |-> IF h \in C THEN Findable[h] \cup block[h] ELSE Findable[h]]
  <2>1. ASSUME NEW h \in Hash
        PROVE  db'[h].chunks \cap vectors' = IF h \in C THEN Findable[h] \cup block[h]
                                             ELSE Findable[h]
    <3>1. OwnChunks(b, h) \subseteq vectors
      BY <1>1, <1>2 DEF TraceInv
    <3>2. Findable[h] = db[h].chunks \cap vectors
      BY DEF Findable
    <3>3. h \notin C => OwnChunks(b, h) = {}
      OBVIOUS
    <3>4. h \in C => block[h] = OwnChunks(b, h)
      OBVIOUS
    <3> HIDE DEF C, block
    <3> QED
      BY <1>3, <1>4, <3>1, <3>2, <3>3, <3>4
  <2> QED
    BY <2>1 DEF Findable
<1>11. DOMAIN block = C
  OBVIOUS
<1>12. Promised!Publish(b, block)
  <2> HIDE DEF C, block
  <2> QED
    BY <1>7, <1>8, <1>9, <1>10, <1>11 DEF Promised!Publish, Promised!Unseen
<1>13. C \in SUBSET Hash
  OBVIOUS
<1> QED
  BY <1>6, <1>12, <1>13 DEF Promised!Next

\* Every other step leaves what a search finds.
LEMMA OthersPublishNothing ==
    ASSUME TypeInv, VectorInv, VectorInv', [Next]_vars, \A b \in Batch : ~Finish(b)
    PROVE  Findable' = Findable
<1>1. db' = db
  <2>1. ASSUME NEW b \in Batch, Accept(b) \/ Work(b) PROVE db' = db
    BY <2>1 DEF Accept, Work, Start, LookupAuthor, Insert, InsertFails, Reuse, Skip, SkipFails,
       Index, IndexFails, Analyze, FinishFails, stores
  <2>2. ASSUME Rebuild \/ Crash \/ UNCHANGED vars PROVE db' = db
    BY <2>2 DEF Rebuild, Crash, stores, vars
  <2> QED
    BY <2>1, <2>2 DEF Next
<1>2. \A h \in Hash : db[h].chunks \subseteq vectors /\ db[h].chunks \subseteq vectors'
  BY <1>1 DEF VectorInv, ChunksInv
<1> QED
  BY <1>1, <1>2 DEF Findable

\* The commits of a batch become findable together, each with a whole block, and
\* stay as they are: what the savepoints, the one commit at the end and the clean-up
\* of vectors in _run are for, in every interleaving of batches and after every
\* failure and crash.
THEOREM BatchesPublishWhole == Spec => Publication
<1> DEFINE IInv == TypeInv /\ VectorInv /\ CommitInv /\ BlockInv
<1>1. Init => IInv
  BY TypesStart, VectorsStart, CommitStarts, BlocksStart
<1>2. IInv /\ [Next]_vars => IInv'
  BY StepTypes, StepVectors, StepCommit, StepBlocks
<1>3. Init => Promised!Init
  BY DEF Init, EmptyDb, Promised!Init, Findable
<1>4. IInv /\ IInv' /\ [Next]_vars => [Promised!Next]_Findable
  <2> SUFFICES ASSUME IInv, IInv', [Next]_vars PROVE [Promised!Next]_Findable
    OBVIOUS
  <2>1. CASE \E b \in Batch : Finish(b)
    BY <2>1, FinishPublishes
  <2>2. CASE \A b \in Batch : ~Finish(b)
    BY <2>2, OthersPublishNothing
  <2> QED
    BY <2>1, <2>2
<1> HIDE DEF IInv
<1> QED
  BY <1>1, <1>2, <1>3, <1>4, PTL DEF Spec, Publication, Promised!Spec
=============================================================================
