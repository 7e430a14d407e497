-------------------------- MODULE SemanticCacheOps --------------------------
(***************************************************************************)
(* The operations of the semantic answer cache (SemanticCache in           *)
(* core/cache/semantic_cache.py) on the value of one cache.  The cache is  *)
(* one process's memory and has no lock: every operation runs without an   *)
(* await, so it is one step of whoever calls it.                           *)
(***************************************************************************)
EXTENDS Integers, Sequences, FiniteSets

CONSTANTS
    Workspace,   \* workspace_id
    Namespace,   \* the tuples of make_namespace
    WorkspaceOf, \* ns[0], the workspace of each namespace
    Query,       \* rewritten questions, standing for their embeddings
    Similarity,  \* cosine similarity of two questions, as a scaled integer
    Threshold,   \* semantic_cache_threshold
    Ttl,         \* semantic_cache_ttl_seconds
    MaxEntries,  \* semantic_cache_max_entries
    NoKey        \* lookup found nothing

ASSUME NamespaceAssumption == WorkspaceOf \in [Namespace -> Workspace]
ASSUME SimilarityAssumption == Similarity \in [Query \X Query -> Int]
ASSUME LimitAssumption == Threshold \in Int /\ Ttl \in Nat /\ MaxEntries \in Nat
ASSUME NoKeyAssumption == NoKey \notin Nat

\* entry: _store, by key; order: the OrderedDict of each namespace; lru: the one
\* of each workspace, oldest first; next: _next_key.
EmptyCache ==
    [entry |-> <<>>,
     order |-> [ns \in Namespace |-> <<>>],
     lru   |-> [w \in Workspace |-> <<>>],
     gen   |-> [w \in Workspace |-> 0],
     next  |-> 0]

Live(c) == DOMAIN c.entry
LiveIn(c, w) == {k \in Live(c) : WorkspaceOf[c.entry[k].ns] = w}

\* s without the keys in K, a recursive function, about which one can prove more
\* than about SelectSeq.
Without(s, K) ==
    LET kept[i \in 0..Len(s)] ==
            IF i = 0 THEN <<>>
            ELSE IF s[i] \in K THEN kept[i - 1] ELSE Append(kept[i - 1], s[i])
    IN kept[Len(s)]

ToEnd(s, k) == Append(Without(s, {k}), k)

\* _drop, for a set of keys.
Drop(c, K) ==
    [c EXCEPT !.entry = [k \in DOMAIN @ \ K |-> @[k]],
              !.order = [ns \in Namespace |-> Without(@[ns], K)],
              !.lru = [w \in Workspace |-> Without(@[w], K)]]

\* _bump: the key becomes the most recent of its namespace and workspace.
Bump(c, k) ==
    LET ns == c.entry[k].ns
    IN [c EXCEPT !.order[ns] = ToEnd(@, k), !.lru[WorkspaceOf[ns]] = ToEnd(@, k)]

-----------------------------------------------------------------------------
\* lookup.

\* Variant: an entry expires at the TTL, not after it.
ExpiredAtTtl(c, ns, now) ==
    {k \in Live(c) : c.entry[k].ns = ns /\ now - c.entry[k].at >= Ttl}

Expired(c, ns, now) ==
    {k \in Live(c) : c.entry[k].ns = ns /\ now - c.entry[k].at > Ttl}

\* The scan starts with dropping the expired entries of the namespace.
Scanned(c, ns, now) == Drop(c, Expired(c, ns, now))

SimilarityOf(c, q, k) == Similarity[q, c.entry[k].query]

\* The first of the most similar entries, in the order of the namespace.
BestKey(c, ns, q) ==
    LET s == c.order[ns]
        sim(i) == SimilarityOf(c, q, s[i])
    IN s[CHOOSE i \in DOMAIN s :
            \A j \in DOMAIN s : sim(j) <= sim(i) /\ (j < i => sim(j) < sim(i))]

\* What lookup returns for a scanned cache: nothing below the floor.
Found(c, ns, q, floor) ==
    IF c.order[ns] = <<>> \/ SimilarityOf(c, q, BestKey(c, ns, q)) < floor
    THEN NoKey ELSE BestKey(c, ns, q)

\* Variant: a candidate counts as a hit before it is verified.
TouchedAlways(c, q, k) == IF k = NoKey THEN c ELSE Bump(c, k)

\* Only a hit at the threshold counts as a use; a candidate below it does not.
Touched(c, q, k) ==
    IF k # NoKey /\ SimilarityOf(c, q, k) >= Threshold THEN Bump(c, k) ELSE c

-----------------------------------------------------------------------------
\* The other operations.

\* mark_hit: a verified candidate is used; one that was removed meanwhile is not.
MarkHit(c, k) == IF k \in Live(c) THEN Bump(c, k) ELSE c

\* remove: the caller's entry is dropped if it is still there.
Remove(c, k) == Drop(c, {k})

\* What the loop of store evicts: the oldest keys beyond max_entries.
Overflow(s) == {s[i] : i \in 1..(Len(s) - MaxEntries)}

\* store, with the eviction it ends in.
Store(c, ns, q, answer, now) ==
    LET k == c.next
        w == WorkspaceOf[ns]
        new == [ns |-> ns, query |-> q, at |-> now, answer |-> answer]
        added == [c EXCEPT !.entry = [j \in DOMAIN @ \cup {k} |->
                                          IF j = k THEN new ELSE @[j]],
                           !.order[ns] = Append(@, k),
                           !.lru[w] = Append(@, k),
                           !.next = k + 1]
    IN Drop(added, Overflow(added.lru[w]))

\* Variant: one namespace of the workspace is emptied.
InvalidateOneNamespace(c, w) ==
    LET one == CHOOSE ns \in Namespace : WorkspaceOf[ns] = w
        K == {k \in Live(c) : c.entry[k].ns = one}
    IN [Drop(c, K) EXCEPT !.gen[w] = @ + 1]

\* invalidate_workspace: every namespace of the workspace is emptied, its LRU
\* order is dropped and its generation advances.
InvalidateWorkspace(c, w) ==
    [c EXCEPT !.entry = [k \in DOMAIN @ \ LiveIn(c, w) |-> @[k]],
              !.order = [ns \in Namespace |->
                            IF WorkspaceOf[ns] = w THEN <<>> ELSE @[ns]],
              !.lru[w] = <<>>,
              !.gen[w] = @ + 1]

\* clear: the generations stay.
Clear(c) ==
    [c EXCEPT !.entry = <<>>,
              !.order = [ns \in Namespace |-> <<>>],
              !.lru = [w \in Workspace |-> <<>>]]
=============================================================================
