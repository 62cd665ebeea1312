------------------------------ MODULE HeapShadow ------------------------------
(***************************************************************************)
(* The shadow of the heap: cqmsan_allocator.cpp and the functions of       *)
(* cqmsan_poisoning.cpp and cqmsan_interceptors.cpp it calls.              *)
(*                                                                         *)
(* Every byte of the heap has a shadow byte, all zeroes or all ones.  A    *)
(* load is reported iff the shadow says "poisoned": all ones, or, in the   *)
(* CQMSAN_FLIP_CONVENTION build, all zeroes.  malloc and free poison, the  *)
(* program's stores clean.                                                 *)
(*                                                                         *)
(* A chunk belongs to one thread from the moment the underlying allocator  *)
(* hands it out until it is given back, after the shadow is done: the      *)
(* operations on it are atomic here.  Which free chunk serves a request is *)
(* the choice of the underlying allocator, which may also round a request  *)
(* up for its alignment: any chunk that is large enough.  The paths that   *)
(* return null or die (size limits, out of memory) change none of this     *)
(* state.                                                                  *)
(***************************************************************************)
EXTENDS Naturals, FiniteSets

CONSTANTS
  Chunks,         \* chunks of the primary and mappings of the secondary
  Primary,        \* the former
  Cap,            \* bytes of each: GetActuallyAllocatedSize
  MaxCap,
  Backend,        \* "combined", or "glibc" in the CQMSAN_GLIBC_ALLOC build
  ReleaseFrom,    \* kShadowReleaseThreshold of the latter
  Flip,           \* CQMSAN_FLIP_CONVENTION
  poison_in_malloc, poison_in_free, poison_reuse,  \* run-time flags
  DanglingStores  \* the program may store to freed memory

Bytes == 0 .. MaxCap - 1
Sizes == 0 .. MaxCap

ASSUME HeapAssumption ==
  /\ MaxCap \in Nat
  /\ Primary \subseteq Chunks
  /\ Cap \in [Chunks -> Sizes]
  /\ Backend \in {"combined", "glibc"}
  /\ ReleaseFrom \in Nat
ASSUME FlagAssumption ==
  {Flip, poison_in_malloc, poison_in_free, poison_reuse, DanglingStores}
    \subseteq BOOLEAN

VARIABLES
  live,           \* chunks the program owns
  requested_size, poisoned_size,  \* Metadata; the glibc layer keeps no
                  \* poisoned_size, which is a history there
  shadow,         \* the shadow bytes of each chunk
  written,        \* history: the bytes of the program's object that have a value,
                  \* i.e. were stored to (the detector ignores what is stored)
  stray           \* history: the bytes stored to while the chunk was free, until
                  \* it is freed again

vars == <<live, requested_size, poisoned_size, shadow, written, stray>>

TypeOK ==
  /\ live \subseteq Chunks
  /\ requested_size \in [Chunks -> Sizes]
  /\ \A c \in Chunks : requested_size[c] <= Cap[c]
  /\ poisoned_size \in [Chunks -> Sizes]
  /\ shadow \in [Chunks -> [Bytes -> {0, 255}]]
  /\ written \in [Chunks -> SUBSET Bytes]
  /\ stray \in [Chunks -> SUBSET Bytes]

\* Fresh memory: zero shadow, zero metadata.
Init ==
  /\ live = {}
  /\ requested_size = [c \in Chunks |-> 0]
  /\ poisoned_size = [c \in Chunks |-> 0]
  /\ shadow = [c \in Chunks |-> [i \in Bytes |-> 0]]
  /\ written = [c \in Chunks |-> {}]
  /\ stray = [c \in Chunks |-> {}]

--------------------------------------------------------------------------------
kCleanByte == IF Flip THEN 255 ELSE 0
kPoisonByte == IF Flip THEN 0 ELSE 255

\* SetShadow on the bytes lo .. hi-1 of a chunk's shadow.
SetShadow(s, lo, hi, value) ==
  [i \in Bytes |-> IF lo <= i /\ i < hi THEN value ELSE s[i]]

\* PoisonMemory: all ones in either convention.
PoisonMemory(s, lo, hi) == SetShadow(s, lo, hi, 255)

\* In the flipped build malloc leaves the poisoning to free.
PoisonsInMalloc == poison_in_malloc /\ ~(Flip /\ poison_in_free)

\* The extent that free is known to have poisoned.  The glibc build keeps no
\* record.
Already(c) ==
  IF Backend = "combined" /\ poison_reuse /\ c \in Primary
    THEN poisoned_size[c] ELSE 0

\* What CQMsanAllocate without `zero' leaves for s bytes of chunk c.
MallocShadow(c, s) ==
  IF PoisonsInMalloc THEN SetShadow(shadow[c], Already(c), s, kPoisonByte)
                     ELSE shadow[c]
MallocRecord(c, s) == IF PoisonsInMalloc THEN s ELSE poisoned_size[c]

\* malloc, and calloc with `zero'.
CQMsanAllocate(c, s, zero) ==
  /\ c \notin live /\ s <= Cap[c]
  /\ live' = live \cup {c}
  /\ requested_size' = [requested_size EXCEPT ![c] = s]
  /\ poisoned_size' = [poisoned_size EXCEPT ![c] =
                         IF zero THEN 0 ELSE MallocRecord(c, s)]
  /\ shadow' = [shadow EXCEPT ![c] =
                  IF zero THEN SetShadow(@, 0, s, kCleanByte)
                          ELSE MallocShadow(c, s)]
  /\ written' = [written EXCEPT ![c] = IF zero THEN 0 .. s - 1 ELSE {}]
  /\ UNCHANGED stray

\* The shadow of a large block is given back before the block is poisoned
\* (all of it here; whole pages of it in the code).
Released(c) ==
  IF Backend = "glibc" /\ requested_size[c] >= ReleaseFrom
    THEN SetShadow(shadow[c], 0, requested_size[c], 0) ELSE shadow[c]

\* Mutant: freed memory keeps the shadow of its last owner.
PoisonedByFreeNever(c) == FALSE

\* free poisons what is kept; a mapping of the secondary is not.
PoisonedByFree(c) == poison_in_free /\ (Backend = "glibc" \/ c \in Primary)

\* OnUnmap: cleaned, then the shadow pages are given back to the system.
Unmapped(c) == Backend = "combined" /\ c \notin Primary

FreeShadow(c) ==
  IF Unmapped(c) THEN SetShadow(shadow[c], 0, Cap[c], 0)
  ELSE IF PoisonedByFree(c)
    THEN SetShadow(Released(c), 0, requested_size[c], kPoisonByte)
  ELSE Released(c)

\* Mutant: the record covers the chunk, not the block.
FreeRecordChunk(c) == IF PoisonedByFree(c) THEN Cap[c] ELSE 0

FreeRecord(c) == IF PoisonedByFree(c) THEN requested_size[c] ELSE 0

\* free, and realloc to size 0.
CQMsanDeallocate(c) ==
  /\ c \in live
  /\ live' = live \ {c}
  /\ requested_size' = [requested_size EXCEPT ![c] = 0]
  /\ poisoned_size' = [poisoned_size EXCEPT ![c] = FreeRecord(c)]
  /\ shadow' = [shadow EXCEPT ![c] = FreeShadow(c)]
  /\ written' = [written EXCEPT ![c] = {}]
  /\ stray' = [stray EXCEPT ![c] = {}]

\* Mutant: a block that grows in place is not poisoned.
GrownShadowKept(c, s) == shadow[c]

GrownShadow(c, s) ==
  IF poison_in_malloc THEN PoisonMemory(shadow[c], requested_size[c], s)
                      ELSE shadow[c]

\* Mutant: realloc grows in place past the end of the chunk.
ReallocInPlaceUnbounded(c, s) ==
  /\ Backend = "combined"
  /\ c \in live /\ 0 < s
  /\ requested_size' = [requested_size EXCEPT ![c] = s]
  /\ shadow' = [shadow EXCEPT ![c] =
                  IF s > requested_size[c] THEN GrownShadow(c, s) ELSE shadow[c]]
  /\ written' = [written EXCEPT ![c] = @ \cap 0 .. s - 1]
  /\ UNCHANGED <<live, poisoned_size, stray>>

\* realloc to a size that the chunk already has.
ReallocInPlace(c, s) ==
  /\ Backend = "combined"
  /\ c \in live /\ 0 < s /\ s <= Cap[c]
  /\ requested_size' = [requested_size EXCEPT ![c] = s]
  /\ shadow' = [shadow EXCEPT ![c] =
                  IF s > requested_size[c] THEN GrownShadow(c, s) ELSE shadow[c]]
  /\ written' = [written EXCEPT ![c] = @ \cap 0 .. s - 1]
  /\ UNCHANGED <<live, poisoned_size, stray>>

\* Mutant: only the data is copied.
CopyShadowNot(dst, src, n) == dst

\* CopyMemory copies the shadow with the n bytes.
CopyShadow(dst, src, n) == [i \in Bytes |-> IF i < n THEN src[i] ELSE dst[i]]

\* realloc to another chunk d: allocate, copy, free.
ReallocMove(c, d, s) ==
  LET n == IF s < requested_size[c] THEN s ELSE requested_size[c] IN
  /\ c \in live /\ d \notin live /\ 0 < s /\ s <= Cap[d]
  /\ Backend = "combined" => s > Cap[c]
  /\ live' = (live \ {c}) \cup {d}
  /\ requested_size' = [requested_size EXCEPT ![d] = s, ![c] = 0]
  /\ poisoned_size' = [poisoned_size EXCEPT ![d] = MallocRecord(d, s),
                                            ![c] = FreeRecord(c)]
  /\ shadow' = [shadow EXCEPT
                  ![d] = CopyShadow(MallocShadow(d, s), shadow[c], n),
                  ![c] = FreeShadow(c)]
  /\ written' = [written EXCEPT ![d] = written[c] \cap 0 .. n - 1, ![c] = {}]
  /\ stray' = [stray EXCEPT ![d] = @ \cup stray[c], ![c] = {}]

\* An instrumented store to byte i, or a memcpy or memset that covers it.
Store(c, i) ==
  /\ c \in live /\ i < requested_size[c]
  /\ shadow' = [shadow EXCEPT ![c][i] = kCleanByte]
  /\ written' = [written EXCEPT ![c] = @ \cup {i}]
  /\ UNCHANGED <<live, requested_size, poisoned_size, stray>>

\* A store through a dangling pointer cleans too (freed mappings fault).
DanglingStore(c, i) ==
  /\ DanglingStores /\ c \in Primary \ live /\ i < Cap[c]
  /\ shadow' = [shadow EXCEPT ![c][i] = kCleanByte]
  /\ stray' = [stray EXCEPT ![c] = @ \cup {i}]
  /\ UNCHANGED <<live, requested_size, poisoned_size, written>>

Next ==
  \E c \in Chunks :
    \/ \E s \in Sizes, zero \in BOOLEAN : CQMsanAllocate(c, s, zero)
    \/ CQMsanDeallocate(c)
    \/ \E s \in Sizes : ReallocInPlace(c, s)
    \/ \E d \in Chunks, s \in Sizes : ReallocMove(c, d, s)
    \/ \E i \in Bytes : Store(c, i) \/ DanglingStore(c, i)

Spec == Init /\ [][Next]_vars
--------------------------------------------------------------------------------
(* Properties.                                                              *)

Poisoned(c, i) == shadow[c][i] = kPoisonByte

\* No read of uninitialised heap memory goes unnoticed: every byte of a live
\* block that has no value is poisoned, whoever had the chunk before and
\* however the block got its size.  A store through a dangling pointer hides
\* at most the bytes it hit, only if poison_reuse spares malloc the poisoning,
\* and only until the chunk is freed again.
NoMissedByte ==
  \A c \in live : \A i \in Bytes :
    i < requested_size[c] /\ i \notin written[c]
      => Poisoned(c, i) \/ (poison_reuse /\ i \in stray[c])

\* No read of a value is reported: a byte that was stored to, zeroed by calloc
\* or carried over by realloc is clean.
NoFalseAlarm ==
  \A c \in live : \A i \in written[c] : ~Poisoned(c, i)

\* "The recorded extent stays valid": a chunk in the free list is poisoned as
\* far as its metadata says, which malloc relies on, but for what was stored
\* to it there.
RecordedExtentValid ==
  \A c \in Primary \ live : \A i \in Bytes :
    i < poisoned_size[c] => Poisoned(c, i) \/ i \in stray[c]

\* "Recycled memory is already poisoned from its last free()": memory that
\* nobody owns is poisoned, so that malloc need not poison it.
RecycledIsPoisoned ==
  \A c \in Chunks \ live : \A i \in Bytes : i < Cap[c] => Poisoned(c, i)
=============================================================================
