---------------------------- MODULE SemanticCache ---------------------------
(***************************************************************************)
(* The semantic cache under every order of calls its callers can make:     *)
(* chats look up, keep the entry they were given across awaits, confirm    *)
(* or remove it later, and store; indexing invalidates whole workspaces;   *)
(* the clock advances at any time.                                         *)
(***************************************************************************)
EXTENDS SemanticCacheOps

CONSTANTS
    Client,   \* chats that hold an entry returned by lookup
    Floors,   \* min_similarity values: Threshold, or the candidate threshold
    MaxStores, MaxClock, MaxGen  \* bounds of the instance

ASSUME FloorsAssumption == Floors \subseteq Int

VARIABLES
    cache,  \* the cache
    clock,  \* time.monotonic()
    held,   \* the entry each client got from its last lookup
    before  \* history: <<j, k>> when live k was used more recently than live j

vars == <<cache, clock, held, before>>

Key == 0..(MaxStores - 1)
Entry == [ns : Namespace, query : Query, at : 0..MaxClock, answer : 0..MaxGen]

TypeOK ==
    /\ cache.next \in 0..MaxStores
    /\ Live(cache) \subseteq 0..(cache.next - 1)
    /\ \A k \in Live(cache) : cache.entry[k] \in Entry
    /\ cache.order \in [Namespace -> Seq(Key)]
    /\ cache.lru \in [Workspace -> Seq(Key)]
    /\ cache.gen \in [Workspace -> 0..MaxGen]
    /\ clock \in 0..MaxClock
    /\ held \in [Client -> Key \cup {NoKey}]
    /\ before \subseteq Key \X Key

Init ==
    /\ cache = EmptyCache
    /\ clock = 0
    /\ held = [x \in Client |-> NoKey]
    /\ before = {}

\* The history after cache' is known: K are the keys just used.
Used(K) ==
    before' = {p \in before \cup (Live(cache') \X K) :
                  /\ p[1] \in Live(cache') \ K
                  /\ p[2] \in Live(cache')}

DoLookup(x, ns, q, floor) ==
    LET scanned == Scanned(cache, ns, clock)
        k == Found(scanned, ns, q, floor)
    IN /\ cache' = Touched(scanned, q, k)
       /\ held' = [held EXCEPT ![x] = k]
       /\ Used(IF k # NoKey /\ SimilarityOf(scanned, q, k) >= Threshold
               THEN {k} ELSE {})
       /\ UNCHANGED clock

DoMarkHit(x) ==
    /\ held[x] # NoKey
    /\ cache' = MarkHit(cache, held[x])
    /\ Used({held[x]} \cap Live(cache))
    /\ UNCHANGED <<clock, held>>

DoRemove(x) ==
    /\ held[x] # NoKey
    /\ cache' = Remove(cache, held[x])
    /\ Used({})
    /\ UNCHANGED <<clock, held>>

\* The answer stored is told apart by the generation it is stored in.
DoStore(ns, q) ==
    /\ cache.next < MaxStores
    /\ cache' = Store(cache, ns, q, cache.gen[WorkspaceOf[ns]], clock)
    /\ Used({cache.next} \cap Live(cache'))
    /\ UNCHANGED <<clock, held>>

DoInvalidate(w) ==
    /\ cache.gen[w] < MaxGen
    /\ cache' = InvalidateWorkspace(cache, w)
    /\ Used({})
    /\ UNCHANGED <<clock, held>>

DoClear ==
    /\ cache' = Clear(cache)
    /\ Used({})
    /\ UNCHANGED <<clock, held>>

Tick ==
    /\ clock < MaxClock
    /\ clock' = clock + 1
    /\ UNCHANGED <<cache, held, before>>

Next ==
    \/ \E x \in Client, ns \in Namespace, q \in Query, f \in Floors :
          DoLookup(x, ns, q, f)
    \/ \E x \in Client : DoMarkHit(x) \/ DoRemove(x)
    \/ \E ns \in Namespace, q \in Query : DoStore(ns, q)
    \/ \E w \in Workspace : DoInvalidate(w)
    \/ DoClear
    \/ Tick

Spec == Init /\ [][Next]_vars

-----------------------------------------------------------------------------
\* Properties.

\* An answer stored before an invalidation is never served after it, in any
\* namespace of the workspace and whatever handles chats still hold.
NothingOutlivesInvalidation ==
    \A k \in Live(cache) :
        cache.entry[k].answer = cache.gen[WorkspaceOf[cache.entry[k].ns]]

\* What lookup returns is what a search over the whole cache would: an entry of
\* the same namespace, not older than the TTL, with the highest similarity of
\* those and not below the floor; nothing only when there is none.
LookupCorrect ==
    [][\A x \in Client, ns \in Namespace, q \in Query, f \in Floors :
          DoLookup(x, ns, q, f) =>
              LET fresh == {k \in Live(cache) : /\ cache.entry[k].ns = ns
                                                /\ clock - cache.entry[k].at <= Ttl}
                  good == {k \in fresh : SimilarityOf(cache, q, k) >= f}
              IN IF good = {} THEN held'[x] = NoKey
                 ELSE /\ held'[x] \in good
                      /\ \A k \in good :
                            SimilarityOf(cache, q, k) <= SimilarityOf(cache, q, held'[x])
      ]_vars

\* Eviction takes the least recently used answers: every answer of the workspace
\* that survives a store was used after every one that store evicted.  Neither a
\* candidate that was only looked at nor one that was removed counts as a use.
EvictsLeastRecent ==
    [][cache'.next # cache.next =>
          \A w \in Workspace :
              \A v \in LiveIn(cache, w) \ Live(cache'),
                 k \in LiveIn(cache, w) \cap Live(cache') : <<v, k>> \in before]_vars
=============================================================================
