-------------------------- MODULE LocalCaches_proofs --------------------------
(***************************************************************************)
(* The properties of the caches for any threads, any finite set of chunks  *)
(* and any capacity.                                                       *)
(*                                                                         *)
(* Every step moves chunks from one place to another, except that          *)
(* PopulateFreeArray counts new chunks as free before they leave fresh.    *)
(* At, the content of each place with that step taken as done, therefore   *)
(* always partitions the chunks.  That a step moves what it says needs the *)
(* rest of the invariant: who may touch a cache or the region, and what a  *)
(* thread carries where.                                                   *)
(***************************************************************************)
EXTENDS LocalCaches, FiniteSetTheorems, TLAPS

Caches == Threads \cup {Fallback}

\* The sections in which region->mutex is held.
InRegion == {"refill", "populate", "return", "fork"}

Places ==
  ({"live", "free", "fresh", "lost"} \X {Nobody})
    \cup ({"cache"} \X Caches) \cup ({"freeing", "hand"} \X Threads)

\* The new chunks that are counted as free already.
Counted == UNION {hand[t] : t \in {u \in Threads : pc[u] = "populate"}}

At == [p \in Places |->
  CASE p[1] = "live" -> live [] p[1] = "free" -> free
    [] p[1] = "fresh" -> fresh \ Counted [] p[1] = "lost" -> lost
    [] p[1] = "cache" -> cache[p[2]] [] p[1] = "freeing" -> freeing[p[2]]
    [] p[1] = "hand" -> IF pc[p[2]] = "populate" THEN {} ELSE hand[p[2]]]

\* f puts every chunk in one place.
Partitions(f) ==
  /\ \A p, q \in Places : p # q => f[p] \cap f[q] = {}
  /\ Chunks = UNION {f[p] : p \in Places}

\* What t carries at each of its steps.
CarriesInv ==
  \A t \in Threads :
    /\ life[t] \in {"unborn", "gone"} => pc[t] = "idle"
    /\ pc[t] = "commit" => life[t] = "detached"
    /\ pc[t] \in {"idle", "alloc", "refill", "populate", "commit", "fork"} => freeing[t] = {}
    /\ freeing[t] # {} => \E c \in Chunks : freeing[t] = {c}
    /\ pc[t] = "free" => freeing[t] # {}
    /\ pc[t] \in {"drain", "return"} /\ freeing[t] = {} => life[t] = "detached"
    /\ pc[t] \notin {"populate", "drain", "return"} => hand[t] = {}

\* Who is in the region holds its mutex, and the other way round.
RegionInv ==
  /\ region # Nobody => pc[region] \in InRegion
  /\ \A t \in Threads : pc[t] \in InRegion => region = t

\* t works on the fallback cache.
UsesFallback(t) ==
  /\ life[t] = "detached"
  /\ \/ pc[t] \in {"alloc", "refill", "populate", "free"}
     \/ pc[t] \in {"drain", "return"} /\ freeing[t] # {}

\* fallback_mutex is held by the thread that works on the cache, or was when
\* the process was forked.
FallbackInv ==
  /\ \A t \in Threads : UsesFallback(t) => fb = t
  /\ fb # Nobody => UsesFallback(fb) \/ (inChild /\ life[fb] = "gone")

\* A cache is refilled when it is empty, and empty once nobody serves from it.
EmptyInv ==
  /\ \A t \in Threads : pc[t] \in {"refill", "populate"} => cache[CacheOf(t)] = {}
  /\ \A t \in Threads : t \notin Served => cache[t] = {}

Inv ==
  /\ TypeOK /\ CarriesInv /\ RegionInv /\ FallbackInv /\ EmptyInv
  /\ Partitions(At) /\ (lost # {} => inChild)

----------------------------------------------------------------------------
(* Places.                                                                 *)

LEMMA PlacesAre ==
  /\ \A l \in {"live", "free", "fresh", "lost"} : <<l, Nobody>> \in Places
  /\ \A k \in Caches : <<"cache", k>> \in Places
  /\ \A t \in Threads : <<"freeing", t>> \in Places /\ <<"hand", t>> \in Places
  /\ \A p \in Places :
       \/ \E l \in {"live", "free", "fresh", "lost"} : p = <<l, Nobody>>
       \/ \E k \in Caches : p = <<"cache", k>>
       \/ \E t \in Threads : p = <<"freeing", t>> \/ p = <<"hand", t>>
BY DEF Places

LEMMA AtIs ==
  /\ At[<<"live", Nobody>>] = live /\ At[<<"free", Nobody>>] = free
  /\ At[<<"fresh", Nobody>>] = fresh \ Counted /\ At[<<"lost", Nobody>>] = lost
  /\ \A k \in Caches : At[<<"cache", k>>] = cache[k]
  /\ \A t \in Threads : /\ At[<<"freeing", t>>] = freeing[t]
                        /\ At[<<"hand", t>>] = IF pc[t] = "populate" THEN {} ELSE hand[t]
BY PlacesAre DEF At

LEMMA AtIsNext ==
  /\ At'[<<"live", Nobody>>] = live' /\ At'[<<"free", Nobody>>] = free'
  /\ At'[<<"fresh", Nobody>>] = fresh' \ Counted' /\ At'[<<"lost", Nobody>>] = lost'
  /\ \A k \in Caches : At'[<<"cache", k>>] = cache'[k]
  /\ \A t \in Threads : /\ At'[<<"freeing", t>>] = freeing'[t]
                        /\ At'[<<"hand", t>>] = IF pc'[t] = "populate" THEN {} ELSE hand'[t]
BY PlacesAre DEF At

\* Chunks that move from one place to another stay in one place.
LEMMA Moving ==
  ASSUME NEW f, NEW g, Partitions(f), NEW p \in Places, NEW q \in Places, p # q,
         NEW M \in SUBSET f[p], g[p] = f[p] \ M, g[q] = f[q] \cup M,
         \A x \in Places \ {p, q} : g[x] = f[x]
  PROVE  Partitions(g)
<1>1. ASSUME NEW x \in Places, NEW y \in Places, x # y PROVE g[x] \cap g[y] = {}
  <2>1. \A z \in Places \ {q} : g[z] \subseteq f[z]
    OBVIOUS
  <2>2. f[x] \cap f[y] = {} /\ f[p] \cap f[q] = {}
    BY <1>1 DEF Partitions
  <2>3. CASE x # q /\ y # q
    BY <2>1, <2>2, <2>3, <1>1
  <2>4. CASE x = q
    <3>1. CASE y = p
      BY <3>1, <2>4, <2>2
    <3>2. CASE y # p
      <4>1. g[y] = f[y] /\ f[p] \cap f[y] = {}
        BY <3>2, <2>4, <1>1 DEF Partitions
      <4> QED  BY <4>1, <2>2, <2>4
    <3> QED  BY <3>1, <3>2
  <2>5. CASE y = q
    <3>1. CASE x = p
      BY <3>1, <2>5, <2>2
    <3>2. CASE x # p
      <4>1. g[x] = f[x] /\ f[p] \cap f[x] = {}
        BY <3>2, <2>5, <1>1 DEF Partitions
      <4> QED  BY <4>1, <2>2, <2>5
    <3> QED  BY <3>1, <3>2
  <2> QED  BY <2>3, <2>4, <2>5
<1>2. Chunks = UNION {g[x] : x \in Places}
  <2>1. Chunks = UNION {f[x] : x \in Places}
    BY DEF Partitions
  <2>2. ASSUME NEW x \in Places, NEW c \in f[x] PROVE \E y \in Places : c \in g[y]
    BY <2>2
  <2>3. ASSUME NEW x \in Places, NEW c \in g[x] PROVE \E y \in Places : c \in f[y]
    BY <2>3
  <2> QED  BY <2>1, <2>2, <2>3
<1> QED  BY <1>1, <1>2 DEF Partitions

\* The same when the content of several places ends in one.
LEMMA Gathering ==
  ASSUME NEW f, NEW g, Partitions(f), NEW q \in Places, NEW Q \in SUBSET (Places \ {q}),
         g[q] = f[q] \cup UNION {f[x] : x \in Q}, \A x \in Q : g[x] = {},
         \A x \in Places \ (Q \cup {q}) : g[x] = f[x]
  PROVE  Partitions(g)
<1>1. ASSUME NEW x \in Places, NEW y \in Places, x # y PROVE g[x] \cap g[y] = {}
  <2>0. ASSUME NEW z \in Places, z # q PROVE g[z] \cap g[q] = {}
    <3>1. CASE z \in Q
      BY <3>1
    <3>2. CASE z \notin Q
      <4>1. g[z] = f[z] /\ f[z] \cap f[q] = {} /\ \A w \in Q : f[z] \cap f[w] = {}
        BY <2>0, <3>2 DEF Partitions
      <4> QED  BY <4>1
    <3> QED  BY <3>1, <3>2
  <2>1. CASE x # q /\ y # q
    <3>1. g[x] \subseteq f[x] /\ g[y] \subseteq f[y]
      BY <2>1
    <3> QED  BY <3>1, <1>1 DEF Partitions
  <2> QED  BY <2>0, <2>1, <1>1
<1>2. Chunks = UNION {g[x] : x \in Places}
  <2>1. Chunks = UNION {f[x] : x \in Places}
    BY DEF Partitions
  <2>2. ASSUME NEW x \in Places, NEW c \in f[x] PROVE \E y \in Places : c \in g[y]
    <3>1. CASE x \in Q
      BY <3>1, <2>2
    <3>2. CASE x \notin Q
      BY <3>2, <2>2
    <3> QED  BY <3>1, <3>2
  <2>3. ASSUME NEW x \in Places, NEW c \in g[x] PROVE \E y \in Places : c \in f[y]
    <3>1. CASE x = q
      BY <3>1, <2>3
    <3>2. CASE x # q
      BY <3>2, <2>3
    <3> QED  BY <3>1, <3>2
  <2> QED  BY <2>1, <2>2, <2>3
<1> QED  BY <1>1, <1>2 DEF Partitions

----------------------------------------------------------------------------
(* What the invariant means.                                               *)

LEMMA InvLocks == Inv => LocksHeldByLiving
<1> SUFFICES ASSUME Inv PROVE LocksHeldByLiving
  OBVIOUS
<1>1. fb # Nobody => \/ life[fb] = "detached" /\ pc[fb] # "idle"
                     \/ inChild /\ life[fb] = "gone"
  BY DEF Inv, FallbackInv, UsesFallback
<1> QED  BY <1>1 DEF Inv, RegionInv, InRegion, LocksHeldByLiving

LEMMA InvLost == Inv => NothingLost
<1> SUFFICES ASSUME Inv PROVE NothingLost
  OBVIOUS
<1> DEFINE All == live \cup free \cup fresh \cup lost
                    \cup (UNION {cache[k] : k \in Served})
                    \cup (UNION {freeing[t] \cup hand[t] : t \in Threads})
<1>1. DOMAIN cache = Caches /\ Served \subseteq Caches
  BY DEF Inv, TypeOK, Served, Caches
<1>2. All \subseteq Chunks
  <2>1. /\ live \subseteq Chunks /\ free \subseteq Chunks
        /\ fresh \subseteq Chunks /\ lost \subseteq Chunks
    BY DEF Inv, TypeOK
  <2>2. \A k \in Served : cache[k] \subseteq Chunks
    BY <1>1 DEF Inv, TypeOK, Caches
  <2>3. \A t \in Threads : freeing[t] \subseteq Chunks /\ hand[t] \subseteq Chunks
    BY DEF Inv, TypeOK
  <2>4. UNION {cache[k] : k \in Served} \subseteq Chunks
    BY <2>2
  <2>5. UNION {freeing[t] \cup hand[t] : t \in Threads} \subseteq Chunks
    <3>1. \A S \in {freeing[t] \cup hand[t] : t \in Threads} : S \subseteq Chunks
      BY <2>3
    <3> QED  BY <3>1
  <2> QED  BY <2>1, <2>4, <2>5
<1>3. ASSUME NEW p \in Places PROVE At[p] \subseteq All
  <2>1. ASSUME NEW l \in {"live", "free", "fresh", "lost"}, p = <<l, Nobody>>
        PROVE  At[p] \subseteq All
    BY <2>1, AtIs
  <2>2. ASSUME NEW k \in Caches, p = <<"cache", k>> PROVE At[p] \subseteq All
    <3>1. At[p] = cache[k]
      BY <2>2, AtIs
    <3>2. CASE k \in Served
      BY <3>1, <3>2
    <3>3. CASE k \notin Served
      <4>1. k \in Threads
        BY <3>3, <1>1 DEF Served, Caches
      <4>2. cache[k] = {}
        BY <4>1, <3>3 DEF Inv, EmptyInv
      <4> QED  BY <3>1, <4>2
    <3> QED  BY <3>2, <3>3
  <2>3. ASSUME NEW t \in Threads, p = <<"freeing", t>> \/ p = <<"hand", t>>
        PROVE  At[p] \subseteq All
    <3>1. At[<<"freeing", t>>] \subseteq freeing[t] /\ At[<<"hand", t>>] \subseteq hand[t]
      BY AtIs
    <3>2. freeing[t] \cup hand[t] \in {freeing[u] \cup hand[u] : u \in Threads}
      OBVIOUS
    <3>3. freeing[t] \subseteq All /\ hand[t] \subseteq All
      BY <3>2
    <3> HIDE DEF All
    <3> QED  BY <2>3, <3>1, <3>3
  <2> HIDE DEF All
  <2> QED  BY <2>1, <2>2, <2>3, PlacesAre
<1>4. Chunks \subseteq All
  <2> HIDE DEF All
  <2> QED  BY <1>3 DEF Inv, Partitions
<1>5. Chunks = All
  BY <1>2, <1>4
<1> QED  BY <1>5 DEF Inv, NothingLost

\* A set of which any two elements are equal has at most one.
LEMMA AtMostOne ==
  ASSUME NEW S, \A x, y \in S : x = y
  PROVE  Cardinality(S) \in {0, 1} /\ (S = {} => Cardinality(S) = 0)
<1>1. CASE S = {}
  BY <1>1, FS_EmptySet
<1>2. CASE S # {}
  <2>1. PICK x : S = {x}
    BY <1>2
  <2> QED  BY <2>1, FS_Singleton
<1> QED  BY <1>1, <1>2

LEMMA InvTwice == Inv => NoChunkTwice
<1> SUFFICES ASSUME Inv, Quiescent, NEW c \in Chunks
             PROVE  Cardinality({k \in DOMAIN Shared : c \in Shared[k]})
                      + Cardinality({k \in DOMAIN cache : c \in cache[k]})
                      + Cardinality({t \in Threads : c \in freeing[t]})
                      + Cardinality({t \in Threads : c \in hand[t]}) <= 1
  BY DEF NoChunkTwice
<1>1. \A t \in Threads : pc[t] # "populate"
  BY CachesAssumption DEF Quiescent, Inv, RegionInv, InRegion
<1>2. Counted = {}
  BY <1>1 DEF Counted
<1>3. \A p, q \in Places : c \in At[p] /\ c \in At[q] => p = q
  BY DEF Inv, Partitions
<1> DEFINE A == {k \in DOMAIN Shared : c \in Shared[k]}
           B == {k \in DOMAIN cache : c \in cache[k]}
           C == {t \in Threads : c \in freeing[t]}
           D == {t \in Threads : c \in hand[t]}
<1>4. ASSUME NEW k \in A PROVE <<k, Nobody>> \in Places /\ c \in At[<<k, Nobody>>]
  <2>1. k \in {"live", "free", "fresh", "lost"} /\ c \in Shared[k]
    BY DEF Shared
  <2> QED  BY <2>1, <1>2, AtIs, PlacesAre DEF Shared
<1>5. ASSUME NEW k \in B PROVE <<"cache", k>> \in Places /\ c \in At[<<"cache", k>>]
  BY AtIs, PlacesAre DEF Inv, TypeOK, Caches
<1>6. ASSUME NEW t \in C PROVE <<"freeing", t>> \in Places /\ c \in At[<<"freeing", t>>]
  BY AtIs, PlacesAre
<1>7. ASSUME NEW t \in D PROVE <<"hand", t>> \in Places /\ c \in At[<<"hand", t>>]
  BY <1>1, AtIs, PlacesAre
<1>a. \A k \in A : k \in {"live", "free", "fresh", "lost"}
  BY DEF Shared
<1> HIDE DEF A, B, C, D
<1>8. \A x, y \in A : x = y
  BY <1>3, <1>4
<1>9. \A x, y \in B : x = y
  BY <1>3, <1>5
<1>10. \A x, y \in C : x = y
  BY <1>3, <1>6
<1>11. \A x, y \in D : x = y
  BY <1>3, <1>7
<1>12. /\ A # {} => B = {} /\ C = {} /\ D = {}
       /\ B # {} => C = {} /\ D = {}
       /\ C # {} => D = {}
  BY <1>3, <1>4, <1>5, <1>6, <1>7, <1>a
<1>13. Cardinality(A) + Cardinality(B) + Cardinality(C) + Cardinality(D) <= 1
  <2>1. Cardinality(A) \in {0, 1} /\ (A = {} => Cardinality(A) = 0)
    BY <1>8, AtMostOne
  <2>2. Cardinality(B) \in {0, 1} /\ (B = {} => Cardinality(B) = 0)
    BY <1>9, AtMostOne
  <2>3. Cardinality(C) \in {0, 1} /\ (C = {} => Cardinality(C) = 0)
    BY <1>10, AtMostOne
  <2>4. Cardinality(D) \in {0, 1} /\ (D = {} => Cardinality(D) = 0)
    BY <1>11, AtMostOne
  <2> QED  BY <1>12, <2>1, <2>2, <2>3, <2>4
<1> QED  BY <1>13 DEF A, B, C, D
----------------------------------------------------------------------------
(* Preservation.                                                           *)

LEMMA CountedSame ==
  ASSUME \A u \in Threads : /\ pc'[u] = "populate" <=> pc[u] = "populate"
                            /\ pc[u] = "populate" => hand'[u] = hand[u]
  PROVE  Counted' = Counted
<1>1. {u \in Threads : pc'[u] = "populate"} = {u \in Threads : pc[u] = "populate"}
  OBVIOUS
<1> QED  BY <1>1 DEF Counted

\* Where the content of a place is the same in the next state.
LEMMA SameAt ==
  ASSUME NEW X \in SUBSET Places,
         <<"live", Nobody>> \in X => live' = live,
         <<"free", Nobody>> \in X => free' = free,
         <<"fresh", Nobody>> \in X => fresh' \ Counted' = fresh \ Counted,
         <<"lost", Nobody>> \in X => lost' = lost,
         \A k \in Caches : <<"cache", k>> \in X => cache'[k] = cache[k],
         \A u \in Threads : <<"freeing", u>> \in X => freeing'[u] = freeing[u],
         \A u \in Threads : <<"hand", u>> \in X =>
           /\ pc'[u] = "populate" <=> pc[u] = "populate"
           /\ pc[u] # "populate" => hand'[u] = hand[u]
  PROVE  \A x \in X : At'[x] = At[x]
<1> SUFFICES ASSUME NEW x \in X PROVE At'[x] = At[x]
  OBVIOUS
<1>1. ASSUME NEW l \in {"live", "free", "fresh", "lost"}, x = <<l, Nobody>> PROVE At'[x] = At[x]
  BY <1>1, AtIs, AtIsNext
<1>2. ASSUME NEW k \in Caches, x = <<"cache", k>> PROVE At'[x] = At[x]
  BY <1>2, AtIs, AtIsNext
<1>3. ASSUME NEW u \in Threads, x = <<"freeing", u>> PROVE At'[x] = At[x]
  BY <1>3, AtIs, AtIsNext
<1>4. ASSUME NEW u \in Threads, x = <<"hand", u>> PROVE At'[x] = At[x]
  BY <1>4, AtIs, AtIsNext
<1> QED  BY <1>1, <1>2, <1>3, <1>4, PlacesAre

\* A step that leaves every chunk where it is.
LEMMA NothingMoves ==
  ASSUME Partitions(At), UNCHANGED <<chunkVars, lost>>,
         \A u \in Threads : pc'[u] = "populate" <=> pc[u] = "populate"
  PROVE  Partitions(At)'
<1>0. /\ live' = live /\ free' = free /\ fresh' = fresh /\ lost' = lost
      /\ cache' = cache /\ freeing' = freeing /\ hand' = hand
  BY DEF chunkVars
<1>1. Counted' = Counted
  <2>1. {u \in Threads : pc'[u] = "populate"} = {u \in Threads : pc[u] = "populate"}
    OBVIOUS
  <2> QED  BY <1>0, <2>1 DEF Counted
<1>2. \A x \in Places : At'[x] = At[x]
  BY <1>0, <1>1, SameAt
<1> QED  BY <1>2 DEF Partitions

\* A step that moves the chunks of M from p to q.
LEMMA Moves ==
  ASSUME Partitions(At), NEW p \in Places, NEW q \in Places, p # q,
         NEW M \in SUBSET At[p], At'[p] = At[p] \ M, At'[q] = At[q] \cup M,
         \A x \in Places \ {p, q} : At'[x] = At[x]
  PROVE  Partitions(At)'
<1>1. Partitions(At')
  BY Moving
<1> QED  BY <1>1 DEF Partitions

\* The caches are used by one thread at a time.
LEMMA OwnCache ==
  ASSUME Inv, NEW t \in Threads, NEW u \in Threads, t # u,
         pc[t] \in {"alloc", "refill", "populate", "free"}, pc[u] \in {"refill", "populate"}
  PROVE  CacheOf(t) # CacheOf(u)
<1> SUFFICES ASSUME CacheOf(t) = CacheOf(u) PROVE FALSE
  OBVIOUS
<1>1. life[t] # "attached" /\ life[u] # "attached"
  BY CachesAssumption DEF CacheOf
<1>2. life[t] = "detached" /\ life[u] = "detached"
  BY <1>1 DEF Inv, TypeOK, CarriesInv
<1>3. UsesFallback(t) /\ UsesFallback(u)
  BY <1>2 DEF UsesFallback
<1> QED  BY <1>3 DEF Inv, FallbackInv

LEMMA CacheOfType ==
  ASSUME NEW t \in Threads
  PROVE  CacheOf(t) \in Caches
BY DEF CacheOf, Caches

----------------------------------------------------------------------------
(* Steps that move no chunk.                                               *)

LEMMA LifeInv ==
  ASSUME Inv, NEW t \in Threads, ThreadStart(t) \/ TSDDtor(t) \/ ThreadGone(t)
  PROVE  Inv'
<1>0. TypeOK /\ CarriesInv /\ RegionInv /\ FallbackInv /\ EmptyInv
  BY DEF Inv
<1>1. /\ UNCHANGED <<chunkVars, lockVars, forkVars>>
      /\ pc[t] = "idle" /\ pc'[t] \in {"idle", "commit"}
      /\ pc'[t] = "commit" => life'[t] = "detached" /\ life[t] = "attached"
      /\ pc'[t] = "idle" => life[t] \in {"unborn", "detached"} /\ life'[t] \in {"attached", "gone"}
      /\ life[t] = "attached" => pc'[t] = "commit"
      /\ life' = [life EXCEPT ![t] = life'[t]] /\ life'[t] \in {"attached", "detached", "gone"}
      /\ pc' \in [Threads -> {"idle", "alloc", "refill", "populate", "free", "drain",
                              "return", "commit", "fork"}]
      /\ \A u \in Threads \ {t} : life'[u] = life[u] /\ pc'[u] = pc[u]
  BY <1>0 DEF ThreadStart, TSDDtor, ThreadGone, TypeOK, CarriesInv
<1>2. TypeOK'
  BY <1>0, <1>1 DEF TypeOK, chunkVars, lockVars, forkVars
<1>3. CarriesInv'
  BY <1>0, <1>1 DEF CarriesInv, chunkVars
<1>4. RegionInv'
  BY <1>0, <1>1 DEF RegionInv, InRegion, lockVars, TypeOK
<1>5. FallbackInv'
  <2>1. \A u \in Threads : UsesFallback(u)' <=> UsesFallback(u)
    BY <1>1 DEF UsesFallback, chunkVars
  <2>2. fb # t
    BY <1>0, <1>1, CachesAssumption DEF FallbackInv, UsesFallback
  <2> QED  BY <1>0, <1>1, <2>1, <2>2 DEF FallbackInv, lockVars, forkVars, TypeOK
<1>6. EmptyInv'
  <2>1. \A u \in Threads : pc'[u] \in {"refill", "populate"} => u # t /\ CacheOf(u)' = CacheOf(u)
    BY <1>1 DEF CacheOf
  <2>2. \A u \in Threads : u \notin Served' => u \notin Served
    BY <1>0, <1>1 DEF Served, chunkVars, TypeOK, CarriesInv
  <2> QED  BY <1>0, <1>1, <2>1, <2>2 DEF EmptyInv, chunkVars
<1>7. Partitions(At)'
  BY <1>1, NothingMoves DEF Inv, chunkVars, forkVars
<1> QED  BY <1>1, <1>2, <1>3, <1>4, <1>5, <1>6, <1>7 DEF Inv, forkVars

LEMMA AllocateStartInv ==
  ASSUME Inv, NEW t \in Threads, AllocateStart(t)
  PROVE  Inv'
<1>0. TypeOK /\ CarriesInv /\ RegionInv /\ FallbackInv /\ EmptyInv
  BY DEF Inv
<1>1. /\ UNCHANGED <<chunkVars, region, life, forkVars>>
      /\ pc[t] = "idle" /\ pc' = [pc EXCEPT ![t] = "alloc"] /\ pc'[t] = "alloc"
      /\ \/ life[t] = "attached" /\ fb' = fb
         \/ life[t] = "detached" /\ fb = Nobody /\ fb' = t
      /\ \A u \in Threads \ {t} : pc'[u] = pc[u]
  BY <1>0, CachesAssumption DEF AllocateStart, EnterCache, Alive, CacheOf, TypeOK
<1>2. TypeOK'
  BY <1>0, <1>1 DEF TypeOK, chunkVars, forkVars
<1>3. CarriesInv'
  BY <1>0, <1>1 DEF CarriesInv, chunkVars
<1>4. RegionInv'
  BY <1>0, <1>1 DEF RegionInv, InRegion, TypeOK
<1>5. FallbackInv'
  <2>1. /\ \A u \in Threads \ {t} : UsesFallback(u)' <=> UsesFallback(u)
        /\ UsesFallback(t)' <=> life[t] = "detached"
    BY <1>1 DEF UsesFallback, chunkVars
  <2>2. ~UsesFallback(t)
    BY <1>1 DEF UsesFallback
  <2> QED  BY <1>0, <1>1, <2>1, <2>2, CachesAssumption DEF FallbackInv, forkVars, TypeOK
<1>6. EmptyInv'
  BY <1>0, <1>1 DEF EmptyInv, chunkVars, Served, CacheOf
<1>7. Partitions(At)'
  BY <1>1, NothingMoves DEF Inv, chunkVars, forkVars
<1> QED  BY <1>1, <1>2, <1>3, <1>4, <1>5, <1>6, <1>7 DEF Inv, forkVars

\* Taking region->mutex.
LEMMA RegionLockInv ==
  ASSUME Inv, NEW t \in Threads, RefillLock(t) \/ ReturnLock(t) \/ BeforeFork(t)
  PROVE  Inv'
<1>0. TypeOK /\ CarriesInv /\ RegionInv /\ FallbackInv /\ EmptyInv
  BY DEF Inv
<1>1. /\ UNCHANGED <<chunkVars, fb, life, forkVars>>
      /\ region = Nobody /\ region' = t
      /\ \/ pc[t] = "alloc" /\ pc'[t] = "refill" /\ cache[CacheOf(t)] = {}
         \/ pc[t] = "drain" /\ pc'[t] = "return"
         \/ pc[t] = "idle" /\ pc'[t] = "fork" /\ life[t] \in {"attached", "detached"}
      /\ pc' = [pc EXCEPT ![t] = pc'[t]]
      /\ \A u \in Threads \ {t} : pc'[u] = pc[u]
  BY <1>0 DEF RefillLock, ReturnLock, BeforeFork, LockAllocator, Alive, TypeOK
<1>2. TypeOK'
  BY <1>0, <1>1 DEF TypeOK, chunkVars, forkVars
<1>3. CarriesInv'
  BY <1>0, <1>1 DEF CarriesInv, chunkVars
<1>4. RegionInv'
  BY <1>0, <1>1, CachesAssumption DEF RegionInv, InRegion
<1>5. FallbackInv'
  <2>1. \A u \in Threads : UsesFallback(u)' <=> UsesFallback(u)
    BY <1>1 DEF UsesFallback, chunkVars
  <2> QED  BY <1>0, <1>1, <2>1 DEF FallbackInv, forkVars, TypeOK
<1>6. EmptyInv'
  <2>1. Served' = Served
    BY <1>0, <1>1 DEF Served, chunkVars, TypeOK
  <2>2. \A u \in Threads : CacheOf(u)' = CacheOf(u)
    BY <1>1 DEF CacheOf
  <2> QED  BY <1>0, <1>1, <2>1, <2>2 DEF EmptyInv, chunkVars
<1>7. Partitions(At)'
  BY <1>1, NothingMoves DEF Inv, chunkVars, forkVars
<1> QED  BY <1>1, <1>2, <1>3, <1>4, <1>5, <1>6, <1>7 DEF Inv, forkVars

\* A refill that fails and the end of a fork() in the parent.
LEMMA RegionUnlockInv ==
  ASSUME Inv, NEW t \in Threads, RefillFails(t) \/ AfterForkParent(t)
  PROVE  Inv'
<1>0. TypeOK /\ CarriesInv /\ RegionInv /\ FallbackInv /\ EmptyInv
  BY DEF Inv
<1>1. /\ UNCHANGED <<chunkVars, life, forkVars>>
      /\ region' = Nobody /\ pc[t] \in {"refill", "fork"} /\ pc'[t] = "idle"
      /\ pc' = [pc EXCEPT ![t] = "idle"]
      /\ \A u \in Threads \ {t} : pc'[u] = pc[u]
  BY <1>0 DEF RefillFails, AfterForkParent, LeaveCache, UnlockAllocator, TypeOK
<1>a. fb' = IF UsesFallback(t) THEN Nobody ELSE fb
  <2>1. CASE RefillFails(t)
    <3>1. CacheOf(t) = Fallback <=> UsesFallback(t)
      BY <2>1, <1>0, CachesAssumption DEF RefillFails, CacheOf, UsesFallback, CarriesInv, TypeOK
    <3> QED  BY <2>1, <3>1 DEF RefillFails, LeaveCache
  <2>2. CASE AfterForkParent(t)
    BY <2>2 DEF AfterForkParent, UsesFallback
  <2> QED  BY <2>1, <2>2
<1>b. region = t
  BY <1>0, <1>1 DEF RegionInv, InRegion
<1>2. TypeOK'
  BY <1>0, <1>1, <1>a DEF TypeOK, chunkVars, forkVars
<1>3. CarriesInv'
  BY <1>0, <1>1 DEF CarriesInv, chunkVars
<1>4. RegionInv'
  BY <1>0, <1>1, <1>b DEF RegionInv, InRegion
<1>5. FallbackInv'
  <2>1. \A u \in Threads \ {t} : UsesFallback(u)' <=> UsesFallback(u)
    BY <1>1 DEF UsesFallback, chunkVars
  <2>2. ~UsesFallback(t)'
    BY <1>1 DEF UsesFallback
  <2>3. life[t] # "gone"
    BY <1>0, <1>1 DEF CarriesInv
  <2> QED  BY <1>0, <1>1, <1>a, <2>1, <2>2, <2>3 DEF FallbackInv, forkVars, TypeOK
<1>6. EmptyInv'
  <2>1. Served' = Served
    BY <1>0, <1>1 DEF Served, chunkVars, TypeOK
  <2>2. \A u \in Threads : CacheOf(u)' = CacheOf(u)
    BY <1>1 DEF CacheOf
  <2> QED  BY <1>0, <1>1, <2>1, <2>2 DEF EmptyInv, chunkVars
<1>7. Partitions(At)'
  BY <1>1, NothingMoves DEF Inv, chunkVars, forkVars
<1> QED  BY <1>1, <1>2, <1>3, <1>4, <1>5, <1>6, <1>7 DEF Inv, forkVars

----------------------------------------------------------------------------
(* Steps that move chunks.                                                 *)

LEMMA Sizes ==
  ASSUME NEW S \in SUBSET Chunks, NEW T \in SUBSET S
  PROVE  /\ IsFiniteSet(S) /\ Cardinality(S) \in Nat /\ Cardinality(T) \in Nat
         /\ Cardinality(T) <= Cardinality(S)
<1>1. IsFiniteSet(S)
  BY FS_Subset, CachesAssumption
<1>2. IsFiniteSet(T) /\ Cardinality(T) <= Cardinality(S)
  BY <1>1, FS_Subset
<1> QED  BY <1>1, <1>2, FS_CardinalityType

\* Chunks taken off a cache leave it within its capacity.
LEMMA TakenOff ==
  ASSUME TypeOK, NEW k \in Caches, NEW M \in SUBSET Chunks, cache' = [cache EXCEPT ![k] = @ \ M]
  PROVE  /\ cache' \in [Threads \cup {Fallback} -> SUBSET Chunks]
         /\ \A j \in Threads \cup {Fallback} : Cardinality(cache'[j]) <= MaxCount
         /\ cache'[k] = cache[k] \ M /\ \A j \in Caches \ {k} : cache'[j] = cache[j]
         /\ \A j \in Caches : cache'[j] \subseteq cache[j]
<1>1. cache[k] \in SUBSET Chunks /\ cache[k] \ M \in SUBSET cache[k]
  BY DEF TypeOK, Caches
<1>2. /\ Cardinality(cache[k]) \in Nat /\ Cardinality(cache[k] \ M) \in Nat
      /\ Cardinality(cache[k] \ M) <= Cardinality(cache[k])
  BY <1>1, Sizes
<1>3. Cardinality(cache[k]) <= MaxCount /\ MaxCount \in Nat
  BY CachesAssumption DEF TypeOK, Caches
<1>4. Cardinality(cache[k] \ M) <= MaxCount
  BY <1>2, <1>3
<1>5. cache'[k] = cache[k] \ M /\ \A j \in Caches \ {k} : cache'[j] = cache[j]
  BY DEF TypeOK, Caches
<1>6. cache' \in [Threads \cup {Fallback} -> SUBSET Chunks]
  BY <1>1 DEF TypeOK, Caches
<1>7. \A j \in Threads \cup {Fallback} : Cardinality(cache'[j]) <= MaxCount
  BY <1>4, <1>5 DEF TypeOK, Caches
<1> QED  BY <1>5, <1>6, <1>7

LEMMA CommitBackInv ==
  ASSUME Inv, NEW t \in Threads, CommitBack(t)
  PROVE  Inv'
<1>0. TypeOK /\ CarriesInv /\ RegionInv /\ FallbackInv /\ EmptyInv
  BY DEF Inv
<1>1. /\ UNCHANGED <<live, free, fresh, freeing, region, fb, life, inChild, lost>>
      /\ pc[t] = "commit" /\ life[t] = "detached" /\ freeing[t] = {} /\ hand[t] = {}
      /\ cache' = [cache EXCEPT ![t] = @ \ cache[t]]
      /\ hand' = [hand EXCEPT ![t] = cache[t]] /\ hand'[t] = cache[t]
      /\ pc' = [pc EXCEPT ![t] = pc'[t]]
      /\ \/ pc'[t] = "idle" /\ cache[t] = {}
         \/ pc'[t] = "drain"
      /\ \A u \in Threads \ {t} : pc'[u] = pc[u] /\ hand'[u] = hand[u]
  BY <1>0 DEF CommitBack, Committed, TypeOK, CarriesInv, lockVars, forkVars
<1>a. t \in Caches /\ cache[t] \in SUBSET Chunks
  BY <1>0 DEF TypeOK, Caches
<1>b. /\ cache' \in [Threads \cup {Fallback} -> SUBSET Chunks]
      /\ \A j \in Threads \cup {Fallback} : Cardinality(cache'[j]) <= MaxCount
      /\ cache'[t] = {} /\ \A j \in Caches \ {t} : cache'[j] = cache[j]
  <2>1. PICK M \in SUBSET Chunks : M = cache[t]
    BY <1>a
  <2>2. cache' = [cache EXCEPT ![t] = @ \ M]
    BY <1>1, <2>1
  <2>3. /\ cache' \in [Threads \cup {Fallback} -> SUBSET Chunks]
        /\ \A j \in Threads \cup {Fallback} : Cardinality(cache'[j]) <= MaxCount
        /\ cache'[t] = cache[t] \ M /\ \A j \in Caches \ {t} : cache'[j] = cache[j]
    BY <1>0, <1>a, <2>2, TakenOff
  <2> QED  BY <2>1, <2>3
<1>2. TypeOK'
  BY <1>0, <1>1, <1>a, <1>b DEF TypeOK
<1>3. CarriesInv'
  BY <1>0, <1>1 DEF CarriesInv
<1>4. RegionInv'
  BY <1>0, <1>1 DEF RegionInv, InRegion, TypeOK
<1>5. FallbackInv'
  <2>1. \A u \in Threads : UsesFallback(u)' <=> UsesFallback(u)
    BY <1>1 DEF UsesFallback
  <2> QED  BY <1>0, <1>1, <2>1 DEF FallbackInv, TypeOK
<1>6. EmptyInv'
  <2>1. \A u \in Threads : u \notin Served' => u = t \/ u \notin Served
    BY <1>0, <1>1, <1>b DEF Served, TypeOK, Caches
  <2>2. \A u \in Threads : pc'[u] \in {"refill", "populate"} =>
          u # t /\ CacheOf(u)' = CacheOf(u) /\ CacheOf(u) # t /\ CacheOf(u) \in Caches
    BY <1>1, CachesAssumption DEF CacheOf, Caches
  <2> QED  BY <1>0, <1>1, <1>b, <2>1, <2>2 DEF EmptyInv, Caches
<1>7. Partitions(At)'
  <2>1. Counted' = Counted
    BY <1>1, CountedSame
  <2> DEFINE p == <<"cache", t>>
             q == <<"hand", t>>
  <2>2. p \in Places /\ q \in Places /\ p # q
    BY <1>a, PlacesAre
  <2>3. At[p] = cache[t] /\ At'[p] = {} /\ At[q] = {} /\ At'[q] = cache[t]
    BY <1>1, <1>a, <1>b, AtIs, AtIsNext
  <2>4. \A x \in Places \ {p, q} : At'[x] = At[x]
    <3>1. \A j \in Caches : <<"cache", j>> \in Places \ {p, q} => cache'[j] = cache[j]
      BY <1>b
    <3>2. \A u \in Threads : <<"hand", u>> \in Places \ {p, q} =>
            /\ pc'[u] = "populate" <=> pc[u] = "populate"
            /\ pc[u] # "populate" => hand'[u] = hand[u]
      BY <1>1
    <3> QED  BY <1>1, <2>1, <3>1, <3>2, SameAt
  <2> HIDE DEF p, q
  <2> QED  BY <2>2, <2>3, <2>4, Moves DEF Inv
<1> QED  BY <1>1, <1>2, <1>3, <1>4, <1>5, <1>6, <1>7 DEF Inv

LEMMA DeallocateStartInv ==
  ASSUME Inv, NEW t \in Threads, DeallocateStart(t)
  PROVE  Inv'
<1>0. TypeOK /\ CarriesInv /\ RegionInv /\ FallbackInv /\ EmptyInv
  BY DEF Inv
<1>c. PICK c \in live : live' = live \ {c} /\ freeing' = [freeing EXCEPT ![t] = {c}]
  BY DEF DeallocateStart
<1>1. /\ UNCHANGED <<free, fresh, cache, hand, region, life, inChild, lost>>
      /\ pc[t] = "idle" /\ pc' = [pc EXCEPT ![t] = "free"] /\ pc'[t] = "free"
      /\ \/ life[t] = "attached" /\ fb' = fb
         \/ life[t] = "detached" /\ fb = Nobody /\ fb' = t
      /\ freeing[t] = {} /\ freeing'[t] = {c} /\ c \in Chunks /\ hand[t] = {}
      /\ \A u \in Threads \ {t} : pc'[u] = pc[u] /\ freeing'[u] = freeing[u]
  BY <1>0, <1>c, CachesAssumption
     DEF DeallocateStart, EnterCache, Alive, CacheOf, TypeOK, CarriesInv, forkVars
<1>2. TypeOK'
  BY <1>0, <1>1, <1>c DEF TypeOK
<1>3. CarriesInv'
  BY <1>0, <1>1 DEF CarriesInv
<1>4. RegionInv'
  BY <1>0, <1>1 DEF RegionInv, InRegion, TypeOK
<1>5. FallbackInv'
  <2>1. /\ \A u \in Threads \ {t} : UsesFallback(u)' <=> UsesFallback(u)
        /\ UsesFallback(t)' <=> life[t] = "detached"
    BY <1>1 DEF UsesFallback
  <2>2. ~UsesFallback(t)
    BY <1>1 DEF UsesFallback
  <2> QED  BY <1>0, <1>1, <2>1, <2>2, CachesAssumption DEF FallbackInv, TypeOK
<1>6. EmptyInv'
  <2>1. Served' = Served
    BY <1>0, <1>1 DEF Served, TypeOK
  <2>2. \A u \in Threads : CacheOf(u)' = CacheOf(u)
    BY <1>1 DEF CacheOf
  <2> QED  BY <1>0, <1>1, <2>1, <2>2 DEF EmptyInv
<1>7. Partitions(At)'
  <2>1. Counted' = Counted
    BY <1>1, CountedSame
  <2> DEFINE p == <<"live", Nobody>>
             q == <<"freeing", t>>
  <2>2. p \in Places /\ q \in Places /\ p # q
    BY PlacesAre
  <2>3. At[p] = live /\ At'[p] = live \ {c} /\ At[q] = {} /\ At'[q] = {c}
    BY <1>1, <1>c, AtIs, AtIsNext
  <2>4. \A x \in Places \ {p, q} : At'[x] = At[x]
    BY <1>1, <2>1, SameAt
  <2>5. {c} \in SUBSET At[p]
    BY <1>c, <2>3
  <2> HIDE DEF p, q
  <2> QED  BY <2>2, <2>3, <2>4, <2>5, Moves DEF Inv
<1> QED  BY <1>1, <1>2, <1>3, <1>4, <1>5, <1>6, <1>7 DEF Inv

\* The end of the scope of fallback_mutex, for a thread that works on a cache.
LEMMA Leaves ==
  ASSUME Inv, NEW t \in Threads, pc[t] \in {"alloc", "free"}, LeaveCache(t)
  PROVE  /\ UsesFallback(t) <=> CacheOf(t) = Fallback
         /\ fb' = IF UsesFallback(t) THEN Nobody ELSE fb
         /\ life[t] # "gone"
<1>1. life[t] \in {"attached", "detached"}
  BY DEF Inv, TypeOK, CarriesInv
<1>2. UsesFallback(t) <=> CacheOf(t) = Fallback
  BY <1>1, CachesAssumption DEF UsesFallback, CacheOf
<1> QED  BY <1>1, <1>2 DEF LeaveCache

LEMMA AllocateInv ==
  ASSUME Inv, NEW t \in Threads, Allocate(t)
  PROVE  Inv'
<1>0. TypeOK /\ CarriesInv /\ RegionInv /\ FallbackInv /\ EmptyInv
  BY DEF Inv
<1> DEFINE k == CacheOf(t)
<1>k. k \in Caches
  BY CacheOfType
<1>c. PICK c \in cache[k] : cache' = [cache EXCEPT ![k] = @ \ {c}] /\ live' = live \cup {c}
  BY DEF Allocate
<1>d. pc[t] = "alloc" /\ LeaveCache(t)
  BY DEF Allocate
<1>e. /\ fb' = IF UsesFallback(t) THEN Nobody ELSE fb
      /\ life[t] # "gone"
  BY <1>d, Leaves
<1>1. /\ UNCHANGED <<free, fresh, freeing, hand, region, life, inChild, lost>>
      /\ pc' = [pc EXCEPT ![t] = "idle"] /\ pc'[t] = "idle"
      /\ freeing[t] = {} /\ hand[t] = {} /\ c \in Chunks
      /\ \A u \in Threads \ {t} : pc'[u] = pc[u]
  BY <1>0, <1>c, <1>d, <1>k DEF Allocate, LeaveCache, TypeOK, CarriesInv, Caches, forkVars
<1> HIDE DEF k
<1>a. {c} \in SUBSET Chunks
  BY <1>1
<1>b. /\ cache' \in [Threads \cup {Fallback} -> SUBSET Chunks]
      /\ \A j \in Threads \cup {Fallback} : Cardinality(cache'[j]) <= MaxCount
      /\ cache'[k] = cache[k] \ {c} /\ \A j \in Caches \ {k} : cache'[j] = cache[j]
      /\ \A j \in Caches : cache'[j] \subseteq cache[j]
  BY <1>0, <1>c, <1>k, <1>a, TakenOff
<1>2. TypeOK'
  <2>1. fb' \in Threads \cup {Nobody} /\ live' \subseteq Chunks
    BY <1>0, <1>1, <1>c, <1>e DEF TypeOK
  <2> QED  BY <1>0, <1>1, <1>b, <2>1 DEF TypeOK
<1>3. CarriesInv'
  BY <1>0, <1>1, <1>d DEF CarriesInv
<1>4. RegionInv'
  BY <1>0, <1>1, <1>d DEF RegionInv, InRegion, TypeOK
<1>5. FallbackInv'
  <2>1. \A u \in Threads \ {t} : UsesFallback(u)' <=> UsesFallback(u)
    BY <1>1 DEF UsesFallback
  <2>2. ~UsesFallback(t)'
    BY <1>1 DEF UsesFallback
  <2> QED  BY <1>0, <1>1, <1>e, <2>1, <2>2 DEF FallbackInv, TypeOK
<1>6. EmptyInv'
  <2>1. Served' = Served
    BY <1>0, <1>1, <1>b, <1>d DEF Served, TypeOK
  <2>2. \A u \in Threads : CacheOf(u)' = CacheOf(u) /\ CacheOf(u) \in Caches
    BY <1>1 DEF CacheOf, Caches
  <2> QED  BY <1>0, <1>1, <1>b, <1>d, <2>1, <2>2 DEF EmptyInv, Caches
<1>7. Partitions(At)'
  <2>1. Counted' = Counted
    BY <1>1, <1>d, CountedSame
  <2> DEFINE p == <<"cache", k>>
             q == <<"live", Nobody>>
  <2>2. p \in Places /\ q \in Places /\ p # q
    BY <1>k, PlacesAre
  <2>3. At[p] = cache[k] /\ At'[p] = cache[k] \ {c} /\ At[q] = live /\ At'[q] = live \cup {c}
    BY <1>b, <1>c, <1>k, AtIs, AtIsNext
  <2>4. \A x \in Places \ {p, q} : At'[x] = At[x]
    <3>1. \A j \in Caches : <<"cache", j>> \in Places \ {p, q} => cache'[j] = cache[j]
      BY <1>b
    <3>2. \A u \in Threads :
            /\ pc'[u] = "populate" <=> pc[u] = "populate"
            /\ hand'[u] = hand[u] /\ freeing'[u] = freeing[u]
      BY <1>1, <1>d
    <3> QED  BY <1>1, <2>1, <3>1, <3>2, SameAt
  <2>5. {c} \in SUBSET At[p]
    BY <1>c, <2>3
  <2> HIDE DEF p, q
  <2> QED  BY <2>2, <2>3, <2>4, <2>5, Moves DEF Inv
<1> QED  BY <1>1, <1>2, <1>3, <1>4, <1>5, <1>6, <1>7 DEF Inv

\* The mutex of the region admits one thread.
LEMMA OneInRegion ==
  ASSUME Inv, NEW t \in Threads, pc[t] \in InRegion
  PROVE  region = t /\ \A u \in Threads \ {t} : pc[u] \notin InRegion
BY DEF Inv, RegionInv

LEMMA PopulateInv ==
  ASSUME Inv, NEW t \in Threads, Populate(t)
  PROVE  Inv'
<1>0. TypeOK /\ CarriesInv /\ RegionInv /\ FallbackInv /\ EmptyInv
  BY DEF Inv
<1>c. PICK new \in SUBSET fresh : free' = free \cup new /\ hand' = [hand EXCEPT ![t] = new]
  BY DEF Populate
<1>1. /\ UNCHANGED <<live, fresh, cache, freeing, region, fb, life, inChild, lost>>
      /\ pc[t] = "refill" /\ pc' = [pc EXCEPT ![t] = "populate"] /\ pc'[t] = "populate"
      /\ hand[t] = {} /\ hand'[t] = new /\ new \in SUBSET Chunks
      /\ \A u \in Threads \ {t} : pc'[u] = pc[u] /\ hand'[u] = hand[u]
  BY <1>0, <1>c DEF Populate, TypeOK, CarriesInv, lockVars, forkVars
<1>2. TypeOK'
  BY <1>0, <1>1, <1>c DEF TypeOK
<1>3. CarriesInv'
  BY <1>0, <1>1 DEF CarriesInv
<1>4. RegionInv'
  BY <1>0, <1>1 DEF RegionInv, InRegion, TypeOK
<1>5. FallbackInv'
  <2>1. \A u \in Threads : UsesFallback(u)' <=> UsesFallback(u)
    BY <1>1 DEF UsesFallback
  <2> QED  BY <1>0, <1>1, <2>1 DEF FallbackInv, TypeOK
<1>6. EmptyInv'
  <2>1. Served' = Served
    BY <1>0, <1>1 DEF Served, TypeOK
  <2>2. \A u \in Threads : CacheOf(u)' = CacheOf(u)
    BY <1>1 DEF CacheOf
  <2> QED  BY <1>0, <1>1, <2>1, <2>2 DEF EmptyInv
<1>7. Partitions(At)'
  <2>1. \A u \in Threads \ {t} : pc[u] # "populate"
    BY <1>1, OneInRegion DEF InRegion
  <2>2. Counted = {}
    BY <1>1, <2>1 DEF Counted
  <2>3. Counted' = new
    <3>1. {u \in Threads : pc'[u] = "populate"} = {t}
      BY <1>1, <2>1
    <3> QED  BY <1>1, <3>1 DEF Counted
  <2> DEFINE p == <<"fresh", Nobody>>
             q == <<"free", Nobody>>
  <2>4. p \in Places /\ q \in Places /\ p # q
    BY PlacesAre
  <2>5. At[p] = fresh /\ At'[p] = fresh \ new /\ At[q] = free /\ At'[q] = free \cup new
    BY <1>1, <1>c, <2>2, <2>3, AtIs, AtIsNext
  <2>6. \A x \in Places \ {p, q} : At'[x] = At[x]
    <3>1. At'[<<"hand", t>>] = At[<<"hand", t>>]
      BY <1>1, AtIs, AtIsNext
    <3>2. \A x \in Places \ {p, q, <<"hand", t>>} : At'[x] = At[x]
      BY <1>1, SameAt
    <3> QED  BY <3>1, <3>2
  <2>7. new \in SUBSET At[p]
    BY <2>5
  <2> HIDE DEF p, q
  <2> QED  BY <2>4, <2>5, <2>6, <2>7, Moves DEF Inv
<1> QED  BY <1>1, <1>2, <1>3, <1>4, <1>5, <1>6, <1>7 DEF Inv

LEMMA AdvanceAllocatedInv ==
  ASSUME Inv, NEW t \in Threads, AdvanceAllocated(t)
  PROVE  Inv'
<1>0. TypeOK /\ CarriesInv /\ RegionInv /\ FallbackInv /\ EmptyInv
  BY DEF Inv
<1>1. /\ UNCHANGED <<live, free, cache, freeing, region, fb, life, inChild, lost>>
      /\ pc[t] = "populate" /\ pc' = [pc EXCEPT ![t] = "refill"] /\ pc'[t] = "refill"
      /\ fresh' = fresh \ hand[t] /\ hand' = [hand EXCEPT ![t] = {}] /\ hand'[t] = {}
      /\ \A u \in Threads \ {t} : pc'[u] = pc[u] /\ hand'[u] = hand[u]
  BY <1>0 DEF AdvanceAllocated, TypeOK, lockVars, forkVars
<1>2. TypeOK'
  BY <1>0, <1>1 DEF TypeOK
<1>3. CarriesInv'
  BY <1>0, <1>1 DEF CarriesInv
<1>4. RegionInv'
  BY <1>0, <1>1 DEF RegionInv, InRegion, TypeOK
<1>5. FallbackInv'
  <2>1. \A u \in Threads : UsesFallback(u)' <=> UsesFallback(u)
    BY <1>1 DEF UsesFallback
  <2> QED  BY <1>0, <1>1, <2>1 DEF FallbackInv, TypeOK
<1>6. EmptyInv'
  <2>1. Served' = Served
    BY <1>0, <1>1 DEF Served, TypeOK
  <2>2. \A u \in Threads : CacheOf(u)' = CacheOf(u)
    BY <1>1 DEF CacheOf
  <2> QED  BY <1>0, <1>1, <2>1, <2>2 DEF EmptyInv
<1>7. Partitions(At)'
  <2>1. \A u \in Threads \ {t} : pc[u] # "populate"
    BY <1>1, OneInRegion DEF InRegion
  <2>2. Counted' = {}
    BY <1>1, <2>1 DEF Counted
  <2>3. Counted = hand[t]
    <3>1. {u \in Threads : pc[u] = "populate"} = {t}
      BY <1>1, <2>1
    <3> QED  BY <3>1 DEF Counted
  <2>4. \A x \in Places : At'[x] = At[x]
    <3>1. At'[<<"hand", t>>] = At[<<"hand", t>>]
      BY <1>1, AtIs, AtIsNext
    <3>2. fresh' \ Counted' = fresh \ Counted
      BY <1>1, <2>2, <2>3
    <3>3. \A x \in Places \ {<<"hand", t>>} : At'[x] = At[x]
      BY <1>1, <3>2, SameAt
    <3> QED  BY <3>1, <3>3
  <2> QED  BY <2>4 DEF Inv, Partitions
<1> QED  BY <1>1, <1>2, <1>3, <1>4, <1>5, <1>6, <1>7 DEF Inv

\* The cache that a thread uses is served, and is not that of another thread.
LEMMA UsedIsServed ==
  ASSUME Inv, NEW t \in Threads, NEW u \in Threads, u \notin Served
  PROVE  CacheOf(t) # u
BY CachesAssumption DEF Inv, TypeOK, CacheOf, Served

LEMMA RefillInv ==
  ASSUME Inv, NEW t \in Threads, Refill(t)
  PROVE  Inv'
<1>0. TypeOK /\ CarriesInv /\ RegionInv /\ FallbackInv /\ EmptyInv
  BY DEF Inv
<1> DEFINE k == CacheOf(t)
<1>k. k \in Caches
  BY CacheOfType
<1>c. PICK taken \in SUBSET free :
        /\ Cardinality(taken) = Batch
        /\ free' = free \ taken
        /\ cache' = [cache EXCEPT ![k] = taken]
  BY DEF Refill
<1>1. /\ UNCHANGED <<live, fresh, freeing, hand, fb, life, inChild, lost>>
      /\ pc[t] = "refill" /\ pc' = [pc EXCEPT ![t] = "alloc"] /\ pc'[t] = "alloc"
      /\ region' = Nobody /\ taken \in SUBSET Chunks /\ cache[k] = {}
      /\ \A u \in Threads \ {t} : pc'[u] = pc[u]
  BY <1>0, <1>c DEF Refill, TypeOK, EmptyInv, forkVars
<1>u. \A u \in Threads : u \notin Served => k # u
  BY UsedIsServed
<1> HIDE DEF k
<1>b. cache'[k] = taken /\ \A j \in Caches \ {k} : cache'[j] = cache[j]
  BY <1>0, <1>c, <1>k DEF TypeOK, Caches
<1>d. region = t /\ \A u \in Threads \ {t} : pc[u] \notin InRegion
  BY <1>1, OneInRegion DEF InRegion
<1>2. TypeOK'
  <2>1. cache' \in [Threads \cup {Fallback} -> SUBSET Chunks]
    BY <1>0, <1>1, <1>c DEF TypeOK
  <2>2. Cardinality(taken) <= MaxCount
    BY <1>c, CachesAssumption DEF Batch
  <2>3. \A j \in Threads \cup {Fallback} : Cardinality(cache'[j]) <= MaxCount
    BY <1>0, <1>b, <2>2 DEF TypeOK, Caches
  <2>4. free' \subseteq Chunks
    BY <1>0, <1>c DEF TypeOK
  <2> QED  BY <1>0, <1>1, <2>1, <2>3, <2>4 DEF TypeOK
<1>3. CarriesInv'
  BY <1>0, <1>1 DEF CarriesInv
<1>4. RegionInv'
  BY <1>1, <1>d DEF RegionInv, InRegion
<1>5. FallbackInv'
  <2>1. \A u \in Threads : UsesFallback(u)' <=> UsesFallback(u)
    BY <1>1 DEF UsesFallback
  <2> QED  BY <1>0, <1>1, <2>1 DEF FallbackInv, TypeOK
<1>6. EmptyInv'
  <2>1. Served' = Served
    BY <1>0, <1>1, <1>c DEF Served, TypeOK
  <2>2. \A u \in Threads : pc'[u] \notin {"refill", "populate"}
    BY <1>1, <1>d DEF InRegion
  <2> QED  BY <1>0, <1>b, <1>u, <2>1, <2>2 DEF EmptyInv, Caches
<1>7. Partitions(At)'
  <2>1. Counted' = Counted
    BY <1>1, CountedSame
  <2> DEFINE p == <<"free", Nobody>>
             q == <<"cache", k>>
  <2>2. p \in Places /\ q \in Places /\ p # q
    BY <1>k, PlacesAre
  <2>3. At[p] = free /\ At'[p] = free \ taken /\ At[q] = {} /\ At'[q] = taken
    BY <1>1, <1>b, <1>c, <1>k, AtIs, AtIsNext
  <2>4. \A x \in Places \ {p, q} : At'[x] = At[x]
    BY <1>1, <1>b, <2>1, SameAt
  <2>5. taken \in SUBSET At[p]
    BY <1>c, <2>3
  <2> HIDE DEF p, q
  <2> QED  BY <2>2, <2>3, <2>4, <2>5, Moves DEF Inv
<1> QED  BY <1>1, <1>2, <1>3, <1>4, <1>5, <1>6, <1>7 DEF Inv

LEMMA DrainHalfMaxInv ==
  ASSUME Inv, NEW t \in Threads, DrainHalfMax(t)
  PROVE  Inv'
<1>0. TypeOK /\ CarriesInv /\ RegionInv /\ FallbackInv /\ EmptyInv
  BY DEF Inv
<1> DEFINE k == CacheOf(t)
<1>k. k \in Caches
  BY CacheOfType
<1>c. PICK d \in SUBSET cache[k] :
        cache' = [cache EXCEPT ![k] = @ \ d] /\ hand' = [hand EXCEPT ![t] = d]
  BY DEF DrainHalfMax
<1>1. /\ UNCHANGED <<live, free, fresh, freeing, region, fb, life, inChild, lost>>
      /\ pc[t] = "free" /\ pc' = [pc EXCEPT ![t] = "drain"] /\ pc'[t] = "drain"
      /\ freeing[t] # {} /\ hand[t] = {} /\ hand'[t] = d
      /\ \A u \in Threads \ {t} : pc'[u] = pc[u] /\ hand'[u] = hand[u]
  BY <1>0, <1>c DEF DrainHalfMax, TypeOK, CarriesInv, lockVars, forkVars
<1> HIDE DEF k
<1>a. d \in SUBSET Chunks
  BY <1>0, <1>k DEF TypeOK, Caches
<1>b. /\ cache' \in [Threads \cup {Fallback} -> SUBSET Chunks]
      /\ \A j \in Threads \cup {Fallback} : Cardinality(cache'[j]) <= MaxCount
      /\ cache'[k] = cache[k] \ d /\ \A j \in Caches \ {k} : cache'[j] = cache[j]
      /\ \A j \in Caches : cache'[j] \subseteq cache[j]
  BY <1>0, <1>c, <1>k, <1>a, TakenOff
<1>2. TypeOK'
  BY <1>0, <1>1, <1>a, <1>b, <1>c DEF TypeOK
<1>3. CarriesInv'
  BY <1>0, <1>1 DEF CarriesInv
<1>4. RegionInv'
  BY <1>0, <1>1 DEF RegionInv, InRegion, TypeOK
<1>5. FallbackInv'
  <2>1. \A u \in Threads : UsesFallback(u)' <=> UsesFallback(u)
    BY <1>1 DEF UsesFallback
  <2> QED  BY <1>0, <1>1, <2>1 DEF FallbackInv, TypeOK
<1>6. EmptyInv'
  <2>1. Served' = Served
    BY <1>0, <1>1, <1>b DEF Served, TypeOK
  <2>2. \A u \in Threads : CacheOf(u)' = CacheOf(u) /\ CacheOf(u) \in Caches
    BY <1>1 DEF CacheOf, Caches
  <2> QED  BY <1>0, <1>1, <1>b, <2>1, <2>2 DEF EmptyInv, Caches
<1>7. Partitions(At)'
  <2>1. Counted' = Counted
    BY <1>1, CountedSame
  <2> DEFINE p == <<"cache", k>>
             q == <<"hand", t>>
  <2>2. p \in Places /\ q \in Places /\ p # q
    BY <1>k, PlacesAre
  <2>3. At[p] = cache[k] /\ At'[p] = cache[k] \ d /\ At[q] = {} /\ At'[q] = d
    BY <1>1, <1>b, <1>k, AtIs, AtIsNext
  <2>4. \A x \in Places \ {p, q} : At'[x] = At[x]
    <3>1. \A j \in Caches : <<"cache", j>> \in Places \ {p, q} => cache'[j] = cache[j]
      BY <1>b
    <3>2. \A u \in Threads : <<"hand", u>> \in Places \ {p, q} =>
            /\ pc'[u] = "populate" <=> pc[u] = "populate"
            /\ pc[u] # "populate" => hand'[u] = hand[u]
      BY <1>1
    <3> QED  BY <1>1, <2>1, <3>1, <3>2, SameAt
  <2>5. d \in SUBSET At[p]
    BY <2>3
  <2> HIDE DEF p, q
  <2> QED  BY <2>2, <2>3, <2>4, <2>5, Moves DEF Inv
<1> QED  BY <1>1, <1>2, <1>3, <1>4, <1>5, <1>6, <1>7 DEF Inv

LEMMA PushInv ==
  ASSUME Inv, NEW t \in Threads, Push(t)
  PROVE  Inv'
<1>0. TypeOK /\ CarriesInv /\ RegionInv /\ FallbackInv /\ EmptyInv
  BY DEF Inv
<1> DEFINE k == CacheOf(t)
<1>k. k \in Caches
  BY CacheOfType
<1>d. pc[t] = "free" /\ LeaveCache(t) /\ Cardinality(cache[k]) # MaxCount
  BY DEF Push, Full
<1>c. PICK c \in Chunks : freeing[t] = {c}
  BY <1>0, <1>d DEF CarriesInv
<1>e. /\ fb' = IF UsesFallback(t) THEN Nobody ELSE fb
      /\ life[t] # "gone"
  BY <1>d, Leaves
<1>1. /\ UNCHANGED <<live, free, fresh, hand, region, life, inChild, lost>>
      /\ cache' = [cache EXCEPT ![k] = @ \cup {c}]
      /\ freeing' = [freeing EXCEPT ![t] = {}] /\ freeing'[t] = {}
      /\ pc' = [pc EXCEPT ![t] = "idle"] /\ pc'[t] = "idle" /\ hand[t] = {}
      /\ \A u \in Threads \ {t} : pc'[u] = pc[u] /\ freeing'[u] = freeing[u]
  BY <1>0, <1>c, <1>d DEF Push, LeaveCache, TypeOK, CarriesInv, forkVars
<1>u. \A u \in Threads : u \notin Served => k # u
  BY UsedIsServed
<1>o. \A u \in Threads \ {t} : pc[u] \in {"refill", "populate"} => CacheOf(u) # k
  BY <1>d, OwnCache
<1> HIDE DEF k
<1>b. cache'[k] = cache[k] \cup {c} /\ \A j \in Caches \ {k} : cache'[j] = cache[j]
  BY <1>0, <1>1, <1>k DEF TypeOK, Caches
<1>2. TypeOK'
  <2>1. cache[k] \in SUBSET Chunks /\ Cardinality(cache[k]) <= MaxCount
    BY <1>0, <1>k DEF TypeOK, Caches
  <2>2. cache' \in [Threads \cup {Fallback} -> SUBSET Chunks]
    BY <1>0, <1>1, <2>1 DEF TypeOK
  <2>3. IsFiniteSet(cache[k]) /\ Cardinality(cache[k]) \in Nat
    BY <2>1, Sizes
  <2>4. \/ Cardinality(cache[k] \cup {c}) = Cardinality(cache[k])
        \/ Cardinality(cache[k] \cup {c}) = Cardinality(cache[k]) + 1
    BY <2>3, FS_AddElement
  <2>5. Cardinality(cache'[k]) <= MaxCount
    BY <1>b, <1>d, <2>1, <2>3, <2>4, CachesAssumption
  <2>6. \A j \in Threads \cup {Fallback} : Cardinality(cache'[j]) <= MaxCount
    BY <1>0, <1>b, <2>5 DEF TypeOK, Caches
  <2>7. fb' \in Threads \cup {Nobody}
    BY <1>0, <1>e DEF TypeOK
  <2> QED  BY <1>0, <1>1, <2>2, <2>6, <2>7 DEF TypeOK
<1>3. CarriesInv'
  BY <1>0, <1>1, <1>d DEF CarriesInv
<1>4. RegionInv'
  BY <1>0, <1>1, <1>d DEF RegionInv, InRegion, TypeOK
<1>5. FallbackInv'
  <2>1. \A u \in Threads \ {t} : UsesFallback(u)' <=> UsesFallback(u)
    BY <1>1 DEF UsesFallback
  <2>2. ~UsesFallback(t)'
    BY <1>1 DEF UsesFallback
  <2> QED  BY <1>0, <1>1, <1>e, <2>1, <2>2 DEF FallbackInv, TypeOK
<1>6. EmptyInv'
  <2>1. Served' = Served
    BY <1>0, <1>1, <1>d DEF Served, TypeOK
  <2>2. \A u \in Threads : CacheOf(u)' = CacheOf(u) /\ CacheOf(u) \in Caches
    BY <1>1 DEF CacheOf, Caches
  <2> QED  BY <1>0, <1>1, <1>b, <1>u, <1>o, <2>1, <2>2 DEF EmptyInv, Caches
<1>7. Partitions(At)'
  <2>1. Counted' = Counted
    BY <1>1, <1>d, CountedSame
  <2> DEFINE p == <<"freeing", t>>
             q == <<"cache", k>>
  <2>2. p \in Places /\ q \in Places /\ p # q
    BY <1>k, PlacesAre
  <2>3. At[p] = {c} /\ At'[p] = {} /\ At[q] = cache[k] /\ At'[q] = cache[k] \cup {c}
    BY <1>1, <1>b, <1>c, <1>k, AtIs, AtIsNext
  <2>4. \A x \in Places \ {p, q} : At'[x] = At[x]
    <3>1. \A j \in Caches : <<"cache", j>> \in Places \ {p, q} => cache'[j] = cache[j]
      BY <1>b
    <3>2. \A u \in Threads : <<"freeing", u>> \in Places \ {p, q} => freeing'[u] = freeing[u]
      BY <1>1
    <3>3. \A u \in Threads : pc'[u] = "populate" <=> pc[u] = "populate"
      BY <1>1, <1>d
    <3> QED  BY <1>1, <2>1, <3>1, <3>2, <3>3, SameAt
  <2>5. {c} \in SUBSET At[p] /\ At'[p] = At[p] \ {c}
    BY <2>3
  <2> HIDE DEF p, q
  <2> QED  BY <2>2, <2>3, <2>4, <2>5, Moves DEF Inv
<1> QED  BY <1>1, <1>2, <1>3, <1>4, <1>5, <1>6, <1>7 DEF Inv

LEMMA ReturnInv ==
  ASSUME Inv, NEW t \in Threads, Return(t)
  PROVE  Inv'
<1>0. TypeOK /\ CarriesInv /\ RegionInv /\ FallbackInv /\ EmptyInv
  BY DEF Inv
<1>1. /\ UNCHANGED <<live, fresh, cache, freeing, fb, life, inChild, lost>>
      /\ pc[t] = "return" /\ pc' = [pc EXCEPT ![t] = pc'[t]]
      /\ \/ pc'[t] = "commit" /\ freeing[t] = {} /\ life[t] = "detached"
         \/ pc'[t] = "free" /\ freeing[t] # {}
      /\ region' = Nobody
      /\ free' = free \cup hand[t] /\ hand' = [hand EXCEPT ![t] = {}] /\ hand'[t] = {}
      /\ \A u \in Threads \ {t} : pc'[u] = pc[u] /\ hand'[u] = hand[u]
  BY <1>0 DEF Return, TypeOK, CarriesInv, forkVars
<1>d. region = t /\ \A u \in Threads \ {t} : pc[u] \notin InRegion
  BY <1>1, OneInRegion DEF InRegion
<1>2. TypeOK'
  BY <1>0, <1>1 DEF TypeOK
<1>3. CarriesInv'
  BY <1>0, <1>1 DEF CarriesInv
<1>4. RegionInv'
  BY <1>1, <1>d DEF RegionInv, InRegion
<1>5. FallbackInv'
  <2>1. \A u \in Threads : UsesFallback(u)' <=> UsesFallback(u)
    BY <1>1 DEF UsesFallback
  <2> QED  BY <1>0, <1>1, <2>1 DEF FallbackInv, TypeOK
<1>6. EmptyInv'
  <2>1. \A u \in Threads : u \notin Served' => u \notin Served
    BY <1>0, <1>1 DEF Served, TypeOK
  <2>2. \A u \in Threads : CacheOf(u)' = CacheOf(u)
    BY <1>1 DEF CacheOf
  <2> QED  BY <1>0, <1>1, <2>1, <2>2 DEF EmptyInv
<1>7. Partitions(At)'
  <2>1. Counted' = Counted
    BY <1>1, CountedSame
  <2> DEFINE p == <<"hand", t>>
             q == <<"free", Nobody>>
  <2>2. p \in Places /\ q \in Places /\ p # q
    BY PlacesAre
  <2>3. At[p] = hand[t] /\ At'[p] = {} /\ At[q] = free /\ At'[q] = free \cup hand[t]
    BY <1>1, AtIs, AtIsNext
  <2>4. \A x \in Places \ {p, q} : At'[x] = At[x]
    <3>1. \A u \in Threads : <<"hand", u>> \in Places \ {p, q} =>
            /\ pc'[u] = "populate" <=> pc[u] = "populate"
            /\ pc[u] # "populate" => hand'[u] = hand[u]
      BY <1>1
    <3> QED  BY <1>1, <2>1, <3>1, SameAt
  <2>5. hand[t] \in SUBSET At[p] /\ At'[p] = At[p] \ hand[t]
    BY <2>3
  <2> HIDE DEF p, q
  <2> QED  BY <2>2, <2>3, <2>4, <2>5, Moves DEF Inv
<1> QED  BY <1>1, <1>2, <1>3, <1>4, <1>5, <1>6, <1>7 DEF Inv

----------------------------------------------------------------------------
(* The child of a fork().                                                  *)

LEMMA AfterForkChildInv ==
  ASSUME Inv, NEW t \in Threads, AfterForkChild(t)
  PROVE  Inv'
<1>0. TypeOK /\ CarriesInv /\ RegionInv /\ FallbackInv /\ EmptyInv
  BY DEF Inv
<1> DEFINE others == {u \in Threads \ {t} : Alive(u)}
           Left == UNION {cache[u] \cup freeing[u] \cup hand[u] : u \in others}
<1>1. /\ pc[t] = "fork" /\ region' = Nobody
      /\ UNCHANGED <<live, free, fresh, fb>>
      /\ pc' = [u \in Threads |-> "idle"]
      /\ life' = [u \in Threads |-> IF u \in others THEN "gone" ELSE life[u]]
      /\ lost' = lost \cup Left
      /\ cache' = [k \in DOMAIN cache |-> IF k \in others THEN {} ELSE cache[k]]
      /\ freeing' = [u \in Threads |-> {}] /\ hand' = [u \in Threads |-> {}]
      /\ inChild' = TRUE
  BY DEF AfterForkChild, UnlockAllocator
<1>a. \A u \in Threads \ {t} : pc[u] \notin InRegion
  BY <1>1, OneInRegion DEF InRegion
<1>b. \A u \in Threads \ others : freeing[u] = {} /\ hand[u] = {} /\ pc[u] \in {"idle", "fork"}
  BY <1>0, <1>1 DEF CarriesInv, Alive, TypeOK
<1>c. others \in SUBSET (Threads \ {t}) /\ \A u \in others : life[u] \in {"attached", "detached"}
  BY DEF Alive
<1>d. \A u \in Threads \ {t} : life[u] \in {"attached", "detached"} => u \in others
  BY DEF Alive
<1>e. DOMAIN cache = Caches
  BY <1>0 DEF TypeOK, Caches
<1>f. Left \in SUBSET Chunks
  <2>1. \A S \in {cache[u] \cup freeing[u] \cup hand[u] : u \in others} : S \subseteq Chunks
    BY <1>0, <1>c DEF TypeOK
  <2> QED  BY <2>1
<1> HIDE DEF others, Left
<1>2. TypeOK'
  <2>1. /\ cache' \in [Threads \cup {Fallback} -> SUBSET Chunks]
        /\ \A k \in Caches : cache'[k] = IF k \in others THEN {} ELSE cache[k]
    BY <1>0, <1>1, <1>e DEF TypeOK, Caches
  <2>2. Cardinality({}) <= MaxCount
    BY FS_EmptySet, CachesAssumption
  <2>3. \A k \in Threads \cup {Fallback} : Cardinality(cache'[k]) <= MaxCount
    BY <1>0, <2>1, <2>2 DEF TypeOK, Caches
  <2>4. life' \in [Threads -> {"unborn", "attached", "detached", "gone"}]
    BY <1>0, <1>1 DEF TypeOK
  <2>5. lost' \subseteq Chunks
    BY <1>0, <1>1, <1>f DEF TypeOK
  <2> QED  BY <1>0, <1>1, <2>1, <2>3, <2>4, <2>5 DEF TypeOK
<1>3. CarriesInv'
  BY <1>1 DEF CarriesInv
<1>4. RegionInv'
  BY <1>1 DEF RegionInv, InRegion
<1>5. FallbackInv'
  <2>1. \A u \in Threads : ~UsesFallback(u)'
    BY <1>1 DEF UsesFallback
  <2>2. ASSUME fb # Nobody PROVE life'[fb] = "gone"
    <3>1. fb \in Threads
      BY <1>0, <2>2 DEF TypeOK
    <3>2. CASE UsesFallback(fb)
      <4>1. fb # t /\ life[fb] = "detached"
        BY <1>1, <3>2 DEF UsesFallback
      <4>2. fb \in others
        BY <3>1, <4>1, <1>d
      <4> QED  BY <1>1, <3>1, <4>2
    <3>3. CASE life[fb] = "gone"
      BY <1>1, <3>1, <3>3
    <3> QED  BY <1>0, <2>2, <3>2, <3>3 DEF FallbackInv
  <2> QED  BY <1>1, <2>1, <2>2 DEF FallbackInv
<1>6. EmptyInv'
  <2>1. ASSUME NEW u \in Threads, u \notin Served' PROVE cache'[u] = {}
    <3>1. u \in Caches
      BY DEF Caches
    <3>2. CASE u \in others
      BY <1>1, <1>e, <3>1, <3>2
    <3>3. CASE u \notin others
      <4>1. life'[u] = life[u] /\ cache'[u] = cache[u]
        BY <1>1, <1>e, <3>1, <3>3
      <4>2. DOMAIN cache' = Caches
        BY <1>1, <1>e
      <4>3. life[u] # "attached"
        BY <2>1, <3>1, <4>1, <4>2 DEF Served
      <4>4. pc[u] # "commit" /\ u # Fallback
        BY <1>b, <3>3, CachesAssumption
      <4>5. u \notin Served
        BY <4>3, <4>4 DEF Served
      <4> QED  BY <1>0, <4>1, <4>5 DEF EmptyInv
    <3> QED  BY <3>2, <3>3
  <2>2. \A u \in Threads : pc'[u] = "idle"
    BY <1>1
  <2> QED  BY <2>1, <2>2 DEF EmptyInv
<1>7. Partitions(At)'
  <2> DEFINE q == <<"lost", Nobody>>
             Q == {"cache", "freeing", "hand"} \X others
  <2>1. \A u \in Threads : pc[u] # "populate" /\ pc'[u] # "populate"
    BY <1>1, <1>a DEF InRegion
  <2>2. Counted = {} /\ Counted' = {}
    BY <2>1 DEF Counted
  <2>3. q \in Places /\ Q \in SUBSET (Places \ {q})
    <3>1. \A x \in Q : \E u \in others : x \in {<<"cache", u>>, <<"freeing", u>>, <<"hand", u>>}
      OBVIOUS
    <3>2. \A u \in others : u \in Caches /\ u \in Threads
      BY <1>c DEF Caches
    <3>3. ASSUME NEW x \in Q PROVE x \in Places /\ x # q
      <4>1. PICK u \in others : x \in {<<"cache", u>>, <<"freeing", u>>, <<"hand", u>>}
        BY <3>1
      <4>2. /\ <<"cache", u>> \in Places /\ <<"freeing", u>> \in Places
            /\ <<"hand", u>> \in Places
        BY <3>2, PlacesAre
      <4> QED  BY <4>1, <4>2
    <3> HIDE DEF Q, q
    <3>4. q \in Places
      BY PlacesAre DEF q
    <3> QED  BY <3>3, <3>4
  <2>4. \A u \in others :
          /\ At[<<"cache", u>>] = cache[u] /\ At[<<"freeing", u>>] = freeing[u]
          /\ At[<<"hand", u>>] = hand[u]
          /\ At'[<<"cache", u>>] = {} /\ At'[<<"freeing", u>>] = {} /\ At'[<<"hand", u>>] = {}
    <3>1. \A u \in others : u \in Caches /\ u \in Threads
      BY <1>c DEF Caches
    <3>2. \A u \in others : cache'[u] = {} /\ freeing'[u] = {} /\ hand'[u] = {}
      BY <1>1, <1>e, <3>1
    <3>3. \A u \in others : At'[<<"cache", u>>] = {} /\ At'[<<"freeing", u>>] = {}
      BY <3>1, <3>2, AtIsNext
    <3>4. \A u \in others : At'[<<"hand", u>>] = {}
      BY <2>1, <3>1, <3>2, AtIsNext
    <3> QED  BY <2>1, <3>1, <3>3, <3>4, AtIs
  <2>5. At'[q] = At[q] \cup Left
    BY <1>1, AtIs, AtIsNext
  <2>6. Left = UNION {At[x] : x \in Q}
    <3>1. ASSUME NEW c \in Left PROVE \E x \in Q : c \in At[x]
      <4>1. PICK u \in others : c \in cache[u] \/ c \in freeing[u] \/ c \in hand[u]
        BY DEF Left
      <4> QED  BY <2>4, <4>1
    <3>2. ASSUME NEW x \in Q, NEW c \in At[x] PROVE c \in Left
      <4>1. PICK u \in others : x \in {<<"cache", u>>, <<"freeing", u>>, <<"hand", u>>}
        OBVIOUS
      <4>2. c \in cache[u] \cup freeing[u] \cup hand[u]
        BY <2>4, <3>2, <4>1
      <4> QED  BY <4>2 DEF Left
    <3> HIDE DEF Q
    <3> QED  BY <3>1, <3>2
  <2>7. ASSUME NEW x \in Q PROVE At'[x] = {}
    <3>1. PICK u \in others : x \in {<<"cache", u>>, <<"freeing", u>>, <<"hand", u>>}
      OBVIOUS
    <3> QED  BY <2>4, <3>1
  <2>8. \A x \in Places \ (Q \cup {q}) : At'[x] = At[x]
    <3>1. \A k \in Caches : <<"cache", k>> \in Places \ (Q \cup {q}) => cache'[k] = cache[k]
      BY <1>1, <1>e
    <3>2. \A u \in Threads : <<"freeing", u>> \in Places \ (Q \cup {q}) => freeing'[u] = freeing[u]
      BY <1>1, <1>b
    <3>3. \A u \in Threads : <<"hand", u>> \in Places \ (Q \cup {q}) => hand'[u] = hand[u]
      BY <1>1, <1>b
    <3>4. fresh' \ Counted' = fresh \ Counted
      BY <1>1, <2>2
    <3> HIDE DEF Q
    <3> QED  BY <1>1, <2>1, <3>1, <3>2, <3>3, <3>4, SameAt
  <2> HIDE DEF q, Q
  <2>9. Partitions(At')
    BY <2>3, <2>5, <2>6, <2>7, <2>8, Gathering DEF Inv
  <2> QED  BY <2>9 DEF Partitions
<1> QED  BY <1>1, <1>2, <1>3, <1>4, <1>5, <1>6, <1>7 DEF Inv

----------------------------------------------------------------------------
(* The theorems.                                                           *)

LEMMA InitInv == Init => Inv
<1> SUFFICES ASSUME Init PROVE Inv
  OBVIOUS
<1>1. TypeOK
  <2>1. Cardinality({}) <= MaxCount
    BY FS_EmptySet, CachesAssumption
  <2> QED  BY <2>1 DEF Init, TypeOK
<1>2. CarriesInv /\ RegionInv /\ FallbackInv
  BY CachesAssumption DEF Init, CarriesInv, RegionInv, InRegion, FallbackInv, UsesFallback
<1>3. EmptyInv
  BY DEF Init, EmptyInv
<1>4. Partitions(At)
  <2>1. \A u \in Threads : pc[u] = "idle" /\ freeing[u] = {} /\ hand[u] = {}
    BY DEF Init
  <2>2. \A k \in Caches : cache[k] = {}
    BY DEF Init, Caches
  <2>3. Counted = {}
    BY <2>1 DEF Counted
  <2>4. <<"fresh", Nobody>> \in Places /\ At[<<"fresh", Nobody>>] = Chunks
    BY <2>3, AtIs, PlacesAre DEF Init
  <2>5. ASSUME NEW x \in Places, x # <<"fresh", Nobody>> PROVE At[x] = {}
    <3>1. ASSUME NEW l \in {"live", "free", "fresh", "lost"}, x = <<l, Nobody>> PROVE At[x] = {}
      BY <2>5, <3>1, AtIs DEF Init
    <3>2. ASSUME NEW k \in Caches, x = <<"cache", k>> PROVE At[x] = {}
      BY <2>2, <3>2, AtIs
    <3>3. ASSUME NEW u \in Threads, x = <<"freeing", u>> \/ x = <<"hand", u>> PROVE At[x] = {}
      BY <2>1, <3>3, AtIs
    <3> QED  BY <3>1, <3>2, <3>3, PlacesAre
  <2> QED  BY <2>4, <2>5 DEF Partitions
<1> QED  BY <1>1, <1>2, <1>3, <1>4 DEF Init, Inv

LEMMA NextInv == Inv /\ [Next]_vars => Inv'
<1> SUFFICES ASSUME Inv, [Next]_vars PROVE Inv'
  OBVIOUS
<1>1. CASE Next
  <2>1. PICK t \in Threads :
          \/ Operate(t)
          \/ ThreadStart(t) \/ TSDDtor(t) \/ CommitBack(t) \/ ThreadGone(t)
          \/ BeforeFork(t) \/ AfterForkParent(t) \/ AfterForkChild(t)
    BY <1>1 DEF Next
  <2>2. CASE Operate(t)
    BY <2>2, AllocateStartInv, AllocateInv, RegionLockInv, PopulateInv, AdvanceAllocatedInv,
       RefillInv, RegionUnlockInv, DeallocateStartInv, DrainHalfMaxInv, PushInv, ReturnInv
       DEF Operate
  <2>3. CASE ThreadStart(t) \/ TSDDtor(t) \/ ThreadGone(t)
    BY <2>3, LifeInv
  <2>4. CASE CommitBack(t)
    BY <2>4, CommitBackInv
  <2>5. CASE BeforeFork(t)
    BY <2>5, RegionLockInv
  <2>6. CASE AfterForkParent(t)
    BY <2>6, RegionUnlockInv
  <2>7. CASE AfterForkChild(t)
    BY <2>7, AfterForkChildInv
  <2> QED  BY <2>1, <2>2, <2>3, <2>4, <2>5, <2>6, <2>7
<1>2. CASE UNCHANGED vars
  <2>1. /\ UNCHANGED <<chunkVars, lockVars, forkVars>>
        /\ life' = life /\ pc' = pc
    BY <1>2 DEF vars
  <2>2. TypeOK' /\ CarriesInv' /\ RegionInv'
    BY <2>1 DEF Inv, TypeOK, CarriesInv, RegionInv, chunkVars, lockVars, forkVars
  <2>3. FallbackInv'
    BY <2>1 DEF Inv, FallbackInv, UsesFallback, chunkVars, lockVars, forkVars
  <2>4. EmptyInv'
    BY <2>1 DEF Inv, EmptyInv, Served, CacheOf, chunkVars
  <2>5. Partitions(At)'
    BY <2>1, NothingMoves DEF Inv, forkVars
  <2> QED  BY <2>1, <2>2, <2>3, <2>4, <2>5 DEF Inv, forkVars
<1> QED  BY <1>1, <1>2

LEMMA InvHolds == Spec => []Inv
BY InitInv, NextInv, PTL DEF Spec

(* The variables of the allocator keep their types and no cache ever holds *)
(* more than max_count chunks, however threads allocate, free, end and     *)
(* fork: c->chunks is not overrun.                                         *)
THEOREM TypeCorrect == Spec => []TypeOK
<1>1. Inv => TypeOK
  BY DEF Inv
<1> QED  BY <1>1, InvHolds, PTL

(* A chunk is never in two hands, caches or lists: Allocate never returns  *)
(* a chunk that the program or another cache has, in the parent or in a    *)
(* child of fork(), which BeforeFork keeps away from a half-populated      *)
(* free array.                                                             *)
THEOREM NoChunkHasTwoOwners == Spec => []NoChunkTwice
BY InvTwice, InvHolds, PTL

(* Outside the children of fork() every chunk can be reached: a thread     *)
(* that has ended left nothing in its cache, since CommitBack drained it   *)
(* and only its owner fills it.                                            *)
THEOREM ChunksDoNotLeak == Spec => []NothingLost
BY InvLost, InvHolds, PTL

(* region->mutex is held exactly by the thread inside its section, in a    *)
(* forked child too; fallback_mutex is held by a thread that works on the  *)
(* fallback cache, or by one that a fork() left behind.                    *)
THEOREM LocksAreHeldByTheLiving == Spec => []LocksHeldByLiving
BY InvLocks, InvHolds, PTL
=============================================================================
