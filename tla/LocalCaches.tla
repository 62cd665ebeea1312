---------------------------- MODULE LocalCaches ----------------------------
(***************************************************************************)
(* Who owns a chunk of one size class of the default allocator.            *)
(*                                                                         *)
(* A thread allocates from and frees to a cache of its own; a thread that  *)
(* has run its last destructor uses one shared cache, under                *)
(* fallback_mutex.  An empty cache takes a batch of chunks from the region *)
(* of the size class and a full one gives half of its chunks back, both    *)
(* under the mutex of the region.  A thread that ends commits its cache    *)
(* back.  fork() holds the mutex of the region, and nothing else; its      *)
(* child has only the thread that called it.                               *)
(*                                                                         *)
(* A cache and the free array are kept as sets: which of its chunks an     *)
(* allocation gets is of no consequence here.  The mutexes are abstract    *)
(* locks.  That the Mutex of a region is one is shown by RwMutex;          *)
(* fallback_mutex is a StaticSpinMutex, a spin lock taken to exclude.      *)
(***************************************************************************)
EXTENDS Naturals, FiniteSets

CONSTANTS
  Threads,   \* the threads the program may run
  Main,      \* the one that runs main()
  Chunks,    \* the chunks the region has room for
  MaxCount,  \* c->max_count, twice SizeClassMap::MaxCachedHint of the class
  Fallback,  \* names fallback_allocator_cache
  Nobody     \* the holder of a free mutex

ASSUME CachesAssumption ==
  /\ Main \in Threads
  /\ Fallback \notin Threads
  /\ Nobody \notin Threads
  /\ IsFiniteSet(Chunks)
  /\ MaxCount \in Nat \ {0, 1}

VARIABLES
  live,      \* chunks the program holds
  free,      \* the free array of the region
  fresh,     \* chunks beyond region->allocated_user
  cache,     \* the chunks of each cache
  freeing,   \* freeing[t]: the chunk t is about to push
  hand,      \* hand[t]: chunks t moves: off a cache, or into the free array
  region,    \* holder of region->mutex
  fb,        \* holder of fallback_mutex
  life,      \* whether t has a current thread (cqmsan_current_thread)
  pc,        \* where t is
  inChild,   \* the process is a child of fork()
  lost       \* what the threads that did not survive a fork() had in hand

chunkVars == <<live, free, fresh, cache, freeing, hand>>
lockVars == <<region, fb>>
forkVars == <<inChild, lost>>
vars == <<chunkVars, lockVars, life, pc, forkVars>>

Alive(t) == life[t] \in {"attached", "detached"}

\* The cache that GetCurrentThread() selects.
CacheOf(t) == IF life[t] = "attached" THEN t ELSE Fallback

Init ==
  /\ live = {} /\ free = {} /\ fresh = Chunks
  /\ cache = [k \in Threads \cup {Fallback} |-> {}]
  /\ freeing = [t \in Threads |-> {}]
  /\ hand = [t \in Threads |-> {}]
  /\ region = Nobody /\ fb = Nobody
  /\ life = [t \in Threads |-> IF t = Main THEN "attached" ELSE "unborn"]
  /\ pc = [t \in Threads |-> "idle"]
  /\ inChild = FALSE /\ lost = {}

----------------------------------------------------------------------------
(* The life of a thread.                                                   *)

\* pthread_create() and CQMsanThreadStartFunc().
ThreadStart(t) ==
  /\ life[t] = "unborn" /\ \E u \in Threads : Alive(u)
  /\ life' = [life EXCEPT ![t] = "attached"]
  /\ UNCHANGED <<chunkVars, lockVars, pc, forkVars>>

\* CQMsanTSDDtor() in its last round; the earlier rounds only count down.
TSDDtor(t) ==
  /\ life[t] = "attached" /\ pc[t] = "idle"
  /\ life' = [life EXCEPT ![t] = "detached"]
  /\ pc' = [pc EXCEPT ![t] = "commit"]
  /\ UNCHANGED <<chunkVars, lockVars, forkVars>>

\* Mutant: the cache is dropped.
CommittedNothing(t) == {}

\* CommitBack(): what Drain() takes off the cache at once.
Committed(t) == cache[t]

CommitBack(t) ==
  /\ pc[t] = "commit"
  /\ cache' = [cache EXCEPT ![t] = @ \ Committed(t)]
  /\ hand' = [hand EXCEPT ![t] = Committed(t)]
  /\ pc' = [pc EXCEPT ![t] = IF Committed(t) = {} THEN "idle" ELSE "drain"]
  /\ UNCHANGED <<live, free, fresh, freeing, lockVars, life, forkVars>>

ThreadGone(t) ==
  /\ life[t] = "detached" /\ pc[t] = "idle"
  /\ life' = [life EXCEPT ![t] = "gone"]
  /\ UNCHANGED <<chunkVars, lockVars, pc, forkVars>>

----------------------------------------------------------------------------
(* CQMsanAllocate and CQMsanDeallocate: the choice of the cache.           *)

EnterCache(t) ==
  /\ Alive(t) /\ pc[t] = "idle"
  /\ IF CacheOf(t) = Fallback
       THEN fb = Nobody /\ fb' = t
       ELSE fb' = fb

\* The end of the scope of SpinMutexLock.
LeaveCache(t) ==
  /\ fb' = IF CacheOf(t) = Fallback THEN Nobody ELSE fb
  /\ pc' = [pc EXCEPT ![t] = "idle"]

AllocateStart(t) ==
  /\ EnterCache(t)
  /\ pc' = [pc EXCEPT ![t] = "alloc"]
  /\ UNCHANGED <<chunkVars, region, life, forkVars>>

\* The program frees a chunk it holds, once.
DeallocateStart(t) ==
  /\ EnterCache(t)
  /\ \E c \in live :
       /\ live' = live \ {c}
       /\ freeing' = [freeing EXCEPT ![t] = {c}]
  /\ pc' = [pc EXCEPT ![t] = "free"]
  /\ UNCHANGED <<free, fresh, cache, hand, region, life, forkVars>>

----------------------------------------------------------------------------
(* SizeClassAllocator64LocalCache.                                         *)

\* Allocate() with a chunk in the cache.
Allocate(t) ==
  /\ pc[t] = "alloc"
  /\ \E c \in cache[CacheOf(t)] :
       /\ cache' = [cache EXCEPT ![CacheOf(t)] = @ \ {c}]
       /\ live' = live \cup {c}
  /\ LeaveCache(t)
  /\ UNCHANGED <<free, fresh, freeing, hand, region, life, forkVars>>

\* Refill(): GetFromAllocator() takes region->mutex.
RefillLock(t) ==
  /\ pc[t] = "alloc" /\ cache[CacheOf(t)] = {}
  /\ region = Nobody /\ region' = t
  /\ pc' = [pc EXCEPT ![t] = "refill"]
  /\ UNCHANGED <<chunkVars, fb, life, forkVars>>

\* num_requested_chunks.
Batch == MaxCount \div 2

\* PopulateFreeArray() counts the chunks of a new mapping as free ...
Populate(t) ==
  /\ pc[t] = "refill" /\ Cardinality(free) < Batch
  /\ \E new \in SUBSET fresh :
       /\ Cardinality(new) + Cardinality(free) >= Batch
       /\ free' = free \cup new
       /\ hand' = [hand EXCEPT ![t] = new]
  /\ pc' = [pc EXCEPT ![t] = "populate"]
  /\ UNCHANGED <<live, fresh, cache, freeing, lockVars, life, forkVars>>

\* ... and then advances region->allocated_user past them.
AdvanceAllocated(t) ==
  /\ pc[t] = "populate"
  /\ fresh' = fresh \ hand[t]
  /\ hand' = [hand EXCEPT ![t] = {}]
  /\ pc' = [pc EXCEPT ![t] = "refill"]
  /\ UNCHANGED <<live, free, cache, freeing, lockVars, life, forkVars>>

\* GetFromAllocator() takes a batch off the free array.
Refill(t) ==
  /\ pc[t] = "refill" /\ Cardinality(free) >= Batch
  /\ \E taken \in SUBSET free :
       /\ Cardinality(taken) = Batch
       /\ free' = free \ taken
       /\ cache' = [cache EXCEPT ![CacheOf(t)] = taken]
  /\ region' = Nobody
  /\ pc' = [pc EXCEPT ![t] = "alloc"]
  /\ UNCHANGED <<live, fresh, freeing, hand, fb, life, forkVars>>

\* The region is exhausted or the mapping fails: malloc() returns null.
RefillFails(t) ==
  /\ pc[t] = "refill" /\ Cardinality(free) < Batch
  /\ region' = Nobody
  /\ LeaveCache(t)
  /\ UNCHANGED <<chunkVars, life, forkVars>>

\* Mutant: off by one.
FullLate(k) == Cardinality(cache[k]) = MaxCount + 1

\* Deallocate(): c->count == c->max_count.
Full(k) == Cardinality(cache[k]) = MaxCount

DrainHalfMax(t) ==
  /\ pc[t] = "free" /\ Full(CacheOf(t))
  /\ \E d \in SUBSET cache[CacheOf(t)] :
       /\ Cardinality(d) = MaxCount \div 2
       /\ cache' = [cache EXCEPT ![CacheOf(t)] = @ \ d]
       /\ hand' = [hand EXCEPT ![t] = d]
  /\ pc' = [pc EXCEPT ![t] = "drain"]
  /\ UNCHANGED <<live, free, fresh, freeing, lockVars, life, forkVars>>

Push(t) ==
  /\ pc[t] = "free" /\ ~Full(CacheOf(t))
  /\ cache' = [cache EXCEPT ![CacheOf(t)] = @ \cup freeing[t]]
  /\ freeing' = [freeing EXCEPT ![t] = {}]
  /\ LeaveCache(t)
  /\ UNCHANGED <<live, free, fresh, hand, region, life, forkVars>>

\* ReturnToAllocator(), for a free() or for CommitBack().
ReturnLock(t) ==
  /\ pc[t] = "drain"
  /\ region = Nobody /\ region' = t
  /\ pc' = [pc EXCEPT ![t] = "return"]
  /\ UNCHANGED <<chunkVars, fb, life, forkVars>>

Return(t) ==
  /\ pc[t] = "return"
  /\ free' = free \cup hand[t]
  /\ hand' = [hand EXCEPT ![t] = {}]
  /\ region' = Nobody
  /\ pc' = [pc EXCEPT ![t] = IF freeing[t] = {} THEN "commit" ELSE "free"]
  /\ UNCHANGED <<live, fresh, cache, freeing, fb, life, forkVars>>

----------------------------------------------------------------------------
(* fork().                                                                 *)

\* Mutant: as the two depots, whose calls are commented out.
LockAllocatorNot(t) == region' = region

\* BeforeFork(): LockAllocator().
LockAllocator(t) == region = Nobody /\ region' = t

BeforeFork(t) ==
  /\ Alive(t) /\ pc[t] = "idle"
  /\ LockAllocator(t)
  /\ pc' = [pc EXCEPT ![t] = "fork"]
  /\ UNCHANGED <<chunkVars, fb, life, forkVars>>

\* Mutant.
UnlockAllocatorNot(t) == region' = region

\* AfterFork() in the parent and in the child: UnlockAllocator().
UnlockAllocator(t) == region' = Nobody

AfterForkParent(t) ==
  /\ pc[t] = "fork"
  /\ UnlockAllocator(t)
  /\ pc' = [pc EXCEPT ![t] = "idle"]
  /\ UNCHANGED <<chunkVars, fb, life, forkVars>>

\* The child: the other threads are gone and what they had stays with them.
AfterForkChild(t) ==
  LET others == {u \in Threads \ {t} : Alive(u)} IN
  /\ pc[t] = "fork"
  /\ UnlockAllocator(t)
  /\ pc' = [u \in Threads |-> "idle"]
  /\ life' = [u \in Threads |-> IF u \in others THEN "gone" ELSE life[u]]
  /\ lost' = lost \cup UNION {cache[u] \cup freeing[u] \cup hand[u] : u \in others}
  /\ cache' = [k \in DOMAIN cache |-> IF k \in others THEN {} ELSE cache[k]]
  /\ freeing' = [u \in Threads |-> {}]
  /\ hand' = [u \in Threads |-> {}]
  /\ inChild' = TRUE
  /\ UNCHANGED <<live, free, fresh, fb>>

----------------------------------------------------------------------------
Operate(t) ==
  \/ AllocateStart(t) \/ Allocate(t)
  \/ RefillLock(t) \/ Populate(t) \/ AdvanceAllocated(t) \/ Refill(t) \/ RefillFails(t)
  \/ DeallocateStart(t) \/ DrainHalfMax(t) \/ Push(t)
  \/ ReturnLock(t) \/ Return(t)

\* The steps of a thread that holds region->mutex; none of them waits.
Critical(t) ==
  \/ Populate(t) \/ AdvanceAllocated(t) \/ Refill(t) \/ RefillFails(t)
  \/ Return(t) \/ AfterForkParent(t)

Next ==
  \E t \in Threads :
    \/ Operate(t)
    \/ ThreadStart(t) \/ TSDDtor(t) \/ CommitBack(t) \/ ThreadGone(t)
    \/ BeforeFork(t) \/ AfterForkParent(t) \/ AfterForkChild(t)

Spec == Init /\ [][Next]_vars

\* A thread inside a critical section is scheduled until it leaves it.
FairSpec == Spec /\ \A t \in Threads : WF_vars(Critical(t))

----------------------------------------------------------------------------
(* The variables have their types and the caches stay within c->chunks,    *)
(* which a push beyond max_count would overrun.                            *)
TypeOK ==
  /\ live \subseteq Chunks /\ free \subseteq Chunks /\ fresh \subseteq Chunks
  /\ cache \in [Threads \cup {Fallback} -> SUBSET Chunks]
  /\ \A k \in Threads \cup {Fallback} : Cardinality(cache[k]) <= MaxCount
  /\ freeing \in [Threads -> SUBSET Chunks]
  /\ hand \in [Threads -> SUBSET Chunks]
  /\ region \in Threads \cup {Nobody} /\ fb \in Threads \cup {Nobody}
  /\ life \in [Threads -> {"unborn", "attached", "detached", "gone"}]
  /\ pc \in [Threads -> {"idle", "alloc", "refill", "populate", "free", "drain",
                         "return", "commit", "fork"}]
  /\ inChild \in BOOLEAN /\ lost \subseteq Chunks

\* The places that belong to no thread.
Shared == [k \in {"live", "free", "fresh", "lost"} |->
             CASE k = "live" -> live [] k = "free" -> free
               [] k = "fresh" -> fresh [] k = "lost" -> lost]

\* The mutex of the region is free, or held by a thread between BeforeFork
\* and AfterFork: the states a forked child can start from.
Quiescent == region = Nobody \/ pc[region] = "fork"

(* A chunk is in one place at a time: no chunk is handed to two owners,    *)
(* whichever threads refill, drain, exit and fork in between, and a child  *)
(* never inherits a free array that PopulateFreeArray was half through.    *)
NoChunkTwice ==
  Quiescent =>
    \A c \in Chunks :
      Cardinality({k \in DOMAIN Shared : c \in Shared[k]})
        + Cardinality({k \in DOMAIN cache : c \in cache[k]})
        + Cardinality({t \in Threads : c \in freeing[t]})
        + Cardinality({t \in Threads : c \in hand[t]}) <= 1

\* The caches an allocation can still take from or a commit still empties.
Served == {k \in DOMAIN cache : k = Fallback \/ life[k] = "attached" \/ pc[k] = "commit"}

(* Chunks do not leak: a thread that has ended has given its cache back to *)
(* the region, and the only chunks nobody can reach are those that the     *)
(* threads missing in a child of fork() had in hand.                       *)
NothingLost ==
  /\ Chunks = live \cup free \cup fresh \cup lost
                \cup (UNION {cache[k] : k \in Served})
                \cup (UNION {freeing[t] \cup hand[t] : t \in Threads})
  /\ lost # {} => inChild

(* A mutex is held by a thread that is inside the section it guards.  For  *)
(* the mutex of the region this includes every child of fork(), since      *)
(* BeforeFork takes it; fallback_mutex, which BeforeFork leaves alone, can *)
(* only be held by a missing thread in a child.                            *)
LocksHeldByLiving ==
  /\ region # Nobody => pc[region] \in {"refill", "populate", "return", "fork"}
  /\ \A t \in Threads :
       pc[t] \in {"refill", "populate", "return", "fork"} => region = t
  /\ fb # Nobody => \/ life[fb] = "detached" /\ pc[fb] # "idle"
                    \/ inChild /\ life[fb] = "gone"

(* Whoever takes the mutex of the region releases it, in the parent and in *)
(* the child of a fork() too.                                              *)
RegionReleased == \A t \in Threads : region = t ~> region # t
============================================================================
