--------------------------- MODULE HeapShadow_proofs ---------------------------
(***************************************************************************)
(* Theorems about the shadow of the heap, for any chunks, sizes and        *)
(* requests.                                                               *)
(***************************************************************************)
EXTENDS HeapShadow, TLAPS

USE HeapAssumption, FlagAssumption

LEMMA SizesAreNumbers ==
  /\ 0 \in Sizes /\ Sizes \subseteq Nat /\ Bytes \subseteq Nat
  /\ \A s \in Sizes : 0 .. s - 1 \subseteq Bytes
BY DEF Sizes, Bytes

LEMMA CapIsNumber == \A k \in Chunks : Cap[k] \in Nat /\ 0 <= Cap[k]
<1> SUFFICES ASSUME NEW k \in Chunks PROVE Cap[k] \in Nat /\ 0 <= Cap[k]
  OBVIOUS
<1>1. Cap[k] \in Sizes
  OBVIOUS
<1> QED BY <1>1 DEF Sizes

LEMMA SetShadowType ==
  ASSUME NEW s \in [Bytes -> {0, 255}], NEW lo, NEW hi, NEW value \in {0, 255}
  PROVE  SetShadow(s, lo, hi, value) \in [Bytes -> {0, 255}]
BY DEF SetShadow

LEMMA CopyShadowType ==
  ASSUME NEW s \in [Bytes -> {0, 255}], NEW t \in [Bytes -> {0, 255}], NEW n
  PROVE  CopyShadow(s, t, n) \in [Bytes -> {0, 255}]
<1> DEFINE v(i) == IF i < n THEN t[i] ELSE s[i]
<1>1. \A i \in Bytes : v(i) \in {0, 255}
  OBVIOUS
<1>2. CopyShadow(s, t, n) = [i \in Bytes |-> v(i)]
  BY DEF CopyShadow
<1> HIDE DEF v
<1> QED BY <1>1, <1>2

\* What the helpers return has the type of what they are stored in.
LEMMA MallocType ==
  ASSUME TypeOK, NEW c \in Chunks, NEW s \in Sizes
  PROVE  /\ MallocShadow(c, s) \in [Bytes -> {0, 255}]
         /\ SetShadow(shadow[c], 0, s, kCleanByte) \in [Bytes -> {0, 255}]
         /\ MallocRecord(c, s) \in Sizes
<1>1. shadow[c] \in [Bytes -> {0, 255}] /\ poisoned_size[c] \in Sizes
  BY DEF TypeOK
<1>2. kCleanByte \in {0, 255} /\ kPoisonByte \in {0, 255}
  BY DEF kCleanByte, kPoisonByte
<1>3. MallocShadow(c, s) \in [Bytes -> {0, 255}]
  BY <1>1, <1>2, SetShadowType DEF MallocShadow
<1>4. MallocRecord(c, s) \in Sizes
  BY <1>1, SizesAreNumbers DEF MallocRecord
<1> QED BY <1>1, <1>2, <1>3, <1>4, SetShadowType

LEMMA FreeType ==
  ASSUME TypeOK, NEW c \in Chunks
  PROVE  /\ FreeShadow(c) \in [Bytes -> {0, 255}]
         /\ FreeRecord(c) \in Sizes
<1>1. shadow[c] \in [Bytes -> {0, 255}] /\ requested_size[c] \in Sizes
  BY DEF TypeOK
<1>2. kPoisonByte \in {0, 255}
  BY DEF kPoisonByte
<1>3. Released(c) \in [Bytes -> {0, 255}]
  BY <1>1, SetShadowType DEF Released
<1>4. FreeShadow(c) \in [Bytes -> {0, 255}]
  BY <1>1, <1>2, <1>3, SetShadowType DEF FreeShadow
<1>5. FreeRecord(c) \in Sizes
  BY <1>1, SizesAreNumbers DEF FreeRecord
<1> QED BY <1>4, <1>5

LEMMA TypeNext == TypeOK /\ [Next]_vars => TypeOK'
<1> SUFFICES ASSUME TypeOK, [Next]_vars PROVE TypeOK'
  OBVIOUS
<1>0. kCleanByte \in {0, 255}
  BY DEF kCleanByte
<1>1. ASSUME NEW c \in Chunks, NEW s \in Sizes, NEW zero \in BOOLEAN,
             CQMsanAllocate(c, s, zero)
      PROVE  TypeOK'
  <2>1. /\ MallocShadow(c, s) \in [Bytes -> {0, 255}]
        /\ SetShadow(shadow[c], 0, s, kCleanByte) \in [Bytes -> {0, 255}]
        /\ MallocRecord(c, s) \in Sizes
    BY MallocType
  <2>2. written' \in [Chunks -> SUBSET Bytes] /\ stray' \in [Chunks -> SUBSET Bytes]
    BY <1>1, SizesAreNumbers DEF CQMsanAllocate, TypeOK
  <2>3. shadow' \in [Chunks -> [Bytes -> {0, 255}]]
    BY <1>1, <2>1 DEF CQMsanAllocate, TypeOK
  <2> QED BY <1>1, <2>1, <2>2, <2>3, SizesAreNumbers DEF CQMsanAllocate, TypeOK
<1>2. ASSUME NEW c \in Chunks, CQMsanDeallocate(c)
      PROVE  TypeOK'
  <2>1. FreeShadow(c) \in [Bytes -> {0, 255}] /\ FreeRecord(c) \in Sizes
    BY FreeType
  <2>2. \A k \in Chunks : 0 <= Cap[k]
    BY CapIsNumber
  <2> QED BY <1>2, <2>1, <2>2, SizesAreNumbers DEF CQMsanDeallocate, TypeOK
<1>3. ASSUME NEW c \in Chunks, NEW s \in Sizes, ReallocInPlace(c, s)
      PROVE  TypeOK'
  <2>1. GrownShadow(c, s) \in [Bytes -> {0, 255}]
    BY SetShadowType DEF GrownShadow, PoisonMemory, TypeOK
  <2> QED BY <1>3, <2>1 DEF ReallocInPlace, TypeOK
<1>4. ASSUME NEW c \in Chunks, NEW d \in Chunks, NEW s \in Sizes,
             ReallocMove(c, d, s)
      PROVE  TypeOK'
  <2>1. ASSUME NEW n
        PROVE  CopyShadow(MallocShadow(d, s), shadow[c], n)
                 \in [Bytes -> {0, 255}]
    <3>1. MallocShadow(d, s) \in [Bytes -> {0, 255}]
      BY MallocType
    <3>2. shadow[c] \in [Bytes -> {0, 255}]
      BY DEF TypeOK
    <3> QED BY <3>1, <3>2, CopyShadowType
  <2>2. MallocRecord(d, s) \in Sizes
    BY MallocType
  <2>3. FreeShadow(c) \in [Bytes -> {0, 255}] /\ FreeRecord(c) \in Sizes
    BY FreeType
  <2>4. \A k \in Chunks : 0 <= Cap[k]
    BY CapIsNumber
  <2>5. live' \subseteq Chunks /\ poisoned_size' \in [Chunks -> Sizes]
    BY <1>4, <2>2, <2>3 DEF ReallocMove, TypeOK
  <2>6. /\ requested_size' \in [Chunks -> Sizes]
        /\ \A k \in Chunks : requested_size'[k] <= Cap[k]
    BY <1>4, <2>4, SizesAreNumbers DEF ReallocMove, TypeOK
  <2>7. shadow' \in [Chunks -> [Bytes -> {0, 255}]]
    BY <1>4, <2>1, <2>3 DEF ReallocMove, TypeOK
  <2>8. written' \in [Chunks -> SUBSET Bytes] /\ stray' \in [Chunks -> SUBSET Bytes]
    BY <1>4 DEF ReallocMove, TypeOK
  <2> QED BY <2>5, <2>6, <2>7, <2>8 DEF TypeOK
<1>5. ASSUME NEW c \in Chunks, NEW i \in Bytes,
             Store(c, i) \/ DanglingStore(c, i)
      PROVE  TypeOK'
  <2>1. [shadow[c] EXCEPT ![i] = kCleanByte] \in [Bytes -> {0, 255}]
    BY <1>0 DEF TypeOK
  <2>2. shadow' = [shadow EXCEPT ![c] = [shadow[c] EXCEPT ![i] = kCleanByte]]
    BY <1>5 DEF Store, DanglingStore
  <2>3. shadow' \in [Chunks -> [Bytes -> {0, 255}]]
    BY <2>1, <2>2 DEF TypeOK
  <2>4. CASE Store(c, i)
    <3>1. written' \in [Chunks -> SUBSET Bytes]
      BY <2>4 DEF Store, TypeOK
    <3> QED BY <2>3, <2>4, <3>1 DEF Store, TypeOK
  <2>5. CASE DanglingStore(c, i)
    <3>1. stray' \in [Chunks -> SUBSET Bytes]
      BY <2>5 DEF DanglingStore, TypeOK
    <3> QED BY <2>3, <2>5, <3>1 DEF DanglingStore, TypeOK
  <2> QED BY <1>5, <2>4, <2>5
<1>6. CASE UNCHANGED vars
  BY <1>6 DEF vars, TypeOK
<1> QED BY <1>1, <1>2, <1>3, <1>4, <1>5, <1>6 DEF Next

LEMMA TypeInit == Init => TypeOK
<1> SUFFICES ASSUME Init PROVE TypeOK
  OBVIOUS
<1>1. \A c \in Chunks : requested_size[c] <= Cap[c]
  BY CapIsNumber DEF Init
<1>2. shadow \in [Chunks -> [Bytes -> {0, 255}]]
  <2>1. [i \in Bytes |-> 0] \in [Bytes -> {0, 255}]
    OBVIOUS
  <2> QED BY <2>1, Zenon DEF Init
<1> QED BY <1>1, <1>2, SizesAreNumbers DEF Init, TypeOK

\* The state keeps its types, and no block outgrows its chunk.
THEOREM TypeCorrect == Spec => []TypeOK
BY TypeInit, TypeNext, PTL DEF Spec

--------------------------------------------------------------------------------
(* What malloc, free and realloc do to each byte.                           *)

LEMMA FreeBytes ==
  ASSUME TypeOK, NEW c \in Primary, NEW i \in Bytes, i < FreeRecord(c)
  PROVE  FreeShadow(c)[i] = kPoisonByte
<1>1. requested_size[c] \in Nat /\ i \in Nat
  BY SizesAreNumbers DEF TypeOK
<1>2. PoisonedByFree(c) /\ i < requested_size[c]
  BY <1>1 DEF FreeRecord
<1>3. FreeShadow(c) = SetShadow(Released(c), 0, requested_size[c], kPoisonByte)
  BY <1>2 DEF FreeShadow, Unmapped
<1> QED BY <1>1, <1>2, <1>3 DEF SetShadow

LEMMA ExtentNext ==
  ASSUME TypeOK, RecordedExtentValid, [Next]_vars
  PROVE  RecordedExtentValid'
<1> SUFFICES ASSUME NEW k \in Primary \ live', NEW i \in Bytes,
                    i < poisoned_size'[k]
             PROVE  shadow'[k][i] = kPoisonByte \/ i \in stray'[k]
  BY DEF RecordedExtentValid, Poisoned, kPoisonByte
<1>0. k \in Chunks
  OBVIOUS
<1>1. CASE k \notin live /\ poisoned_size'[k] = poisoned_size[k]
                         /\ shadow'[k] = shadow[k] /\ stray'[k] = stray[k]
  BY <1>1 DEF RecordedExtentValid, Poisoned
<1>2. CASE poisoned_size'[k] = FreeRecord(k) /\ shadow'[k] = FreeShadow(k)
  BY <1>2, FreeBytes
<1>3. ASSUME NEW c \in Chunks, NEW s \in Sizes, NEW zero \in BOOLEAN,
             CQMsanAllocate(c, s, zero)
      PROVE  shadow'[k][i] = kPoisonByte \/ i \in stray'[k]
  BY <1>0, <1>1, <1>3 DEF CQMsanAllocate, TypeOK
<1>4. ASSUME NEW c \in Chunks, CQMsanDeallocate(c)
      PROVE  shadow'[k][i] = kPoisonByte \/ i \in stray'[k]
  BY <1>0, <1>1, <1>2, <1>4 DEF CQMsanDeallocate, TypeOK
<1>5. ASSUME NEW c \in Chunks, NEW s \in Sizes, ReallocInPlace(c, s)
      PROVE  shadow'[k][i] = kPoisonByte \/ i \in stray'[k]
  BY <1>0, <1>1, <1>5 DEF ReallocInPlace, TypeOK
<1>6. ASSUME NEW c \in Chunks, NEW d \in Chunks, NEW s \in Sizes,
             ReallocMove(c, d, s)
      PROVE  shadow'[k][i] = kPoisonByte \/ i \in stray'[k]
  BY <1>0, <1>1, <1>2, <1>6 DEF ReallocMove, TypeOK
<1>7. ASSUME NEW c \in Chunks, NEW j \in Bytes, Store(c, j)
      PROVE  shadow'[k][i] = kPoisonByte \/ i \in stray'[k]
  BY <1>0, <1>1, <1>7 DEF Store, TypeOK
<1>9. ASSUME NEW c \in Chunks, NEW j \in Bytes, DanglingStore(c, j)
      PROVE  shadow'[k][i] = kPoisonByte \/ i \in stray'[k]
  <2>1. CASE k # c
    BY <1>0, <1>1, <1>9, <2>1 DEF DanglingStore, TypeOK
  <2>2. CASE k = c
    <3>1. /\ k \notin live /\ poisoned_size'[k] = poisoned_size[k]
          /\ stray'[k] = stray[k] \cup {j}
          /\ shadow'[k] = [shadow[k] EXCEPT ![j] = kCleanByte]
      BY <1>0, <1>9, <2>2 DEF DanglingStore, TypeOK
    <3>2. shadow[k][i] = kPoisonByte \/ i \in stray[k]
      BY <3>1 DEF RecordedExtentValid, Poisoned
    <3>3. i # j => shadow'[k][i] = shadow[k][i]
      BY <1>0, <3>1 DEF TypeOK
    <3> QED BY <3>1, <3>2, <3>3
  <2> QED BY <2>1, <2>2
<1>8. CASE UNCHANGED vars
  BY <1>1, <1>8 DEF vars
<1> QED BY <1>3, <1>4, <1>5, <1>6, <1>7, <1>8, <1>9 DEF Next

\* Whatever the flags and the build: a chunk in the free list is poisoned as
\* far as its metadata says, but for the bytes stored to in the meantime.
THEOREM ExtentStaysValid == Spec => []RecordedExtentValid
<1>1. Init => RecordedExtentValid
  BY SizesAreNumbers DEF Init, RecordedExtentValid
<1>2. TypeOK /\ RecordedExtentValid /\ [Next]_vars => RecordedExtentValid'
  BY ExtentNext
<1> QED BY <1>1, <1>2, TypeCorrect, PTL DEF Spec

--------------------------------------------------------------------------------
(* The shadow of a live block is exact.                                     *)

WrittenInBlock ==
  \A c \in live : \A i \in written[c] : i < requested_size[c]

\* What the shadow v of byte i must be, if the bytes w of its block were
\* written and the bytes st were stored to while the chunk was free.
Right(i, w, st, v) ==
  IF i \in w THEN v = kCleanByte
             ELSE v = kPoisonByte \/ (poison_reuse /\ i \in st)

BlockShadow ==
  \A c \in live : \A i \in Bytes :
    i < requested_size[c] => Right(i, written[c], stray[c], shadow[c][i])

ExactInv == /\ TypeOK /\ WrittenInBlock /\ BlockShadow
            /\ RecordedExtentValid

\* malloc leaves every byte poisoned: by itself, or by an earlier free.
LEMMA MallocBytes ==
  ASSUME ExactInv, PoisonsInMalloc, NEW c \in Chunks \ live,
         NEW s \in Sizes, NEW i \in Bytes, i < s
  PROVE  Right(i, {}, stray[c], MallocShadow(c, s)[i])
<1>1. /\ i \in Nat /\ s \in Nat /\ Already(c) \in Nat
  BY SizesAreNumbers DEF ExactInv, TypeOK, Already
<1>2. MallocShadow(c, s) = SetShadow(shadow[c], Already(c), s, kPoisonByte)
  BY DEF MallocShadow
<1>3. CASE Already(c) <= i
  BY <1>1, <1>2, <1>3 DEF SetShadow, Right
<1>4. CASE i < Already(c)
  <2>1. poison_reuse /\ c \in Primary /\ i < poisoned_size[c]
    BY <1>1, <1>4 DEF Already
  <2>2. shadow[c][i] = kPoisonByte \/ i \in stray[c]
    BY <2>1 DEF ExactInv, RecordedExtentValid, Poisoned
  <2>3. MallocShadow(c, s)[i] = shadow[c][i]
    BY <1>1, <1>2, <1>4 DEF SetShadow
  <2> QED BY <2>1, <2>2, <2>3 DEF Right
<1>5. Already(c) <= i \/ i < Already(c)
  BY <1>1
<1> QED BY <1>3, <1>4, <1>5

LEMMA ExactNext ==
  ASSUME PoisonsInMalloc, ~Flip \/ Backend = "glibc", ExactInv, [Next]_vars
  PROVE  ExactInv'
<1>1. TypeOK /\ TypeOK'
  BY TypeNext DEF ExactInv
<1>2. RecordedExtentValid'
  BY ExtentNext DEF ExactInv
<1>3. PoisonsInMalloc /\ poison_in_malloc
  BY DEF PoisonsInMalloc
<1>4. ASSUME NEW c \in Chunks, NEW s \in Sizes, NEW zero \in BOOLEAN,
             CQMsanAllocate(c, s, zero)
      PROVE  WrittenInBlock' /\ BlockShadow'
  <2>1. \A k \in live' \ {c} : /\ k \in live
                               /\ requested_size'[k] = requested_size[k]
                               /\ written'[k] = written[k]
                               /\ shadow'[k] = shadow[k]
                               /\ stray'[k] = stray[k]
    BY <1>1, <1>4 DEF CQMsanAllocate, TypeOK
  <2>2. /\ requested_size'[c] = s /\ c \in Chunks \ live
        /\ written'[c] = IF zero THEN 0 .. s - 1 ELSE {}
        /\ shadow'[c] = IF zero THEN SetShadow(shadow[c], 0, s, kCleanByte)
                               ELSE MallocShadow(c, s)
        /\ stray' = stray
    BY <1>1, <1>4 DEF CQMsanAllocate, TypeOK
  <2>3. ASSUME NEW i \in Bytes, i < s
        PROVE  /\ SetShadow(shadow[c], 0, s, kCleanByte)[i] = kCleanByte
               /\ i \in 0 .. s - 1
    BY <2>3, SizesAreNumbers DEF SetShadow
  <2>4. ASSUME NEW i \in Bytes, i < s
        PROVE  Right(i, {}, stray[c], MallocShadow(c, s)[i])
    BY <1>3, <2>2, <2>4, MallocBytes
  <2>5. WrittenInBlock'
    BY <2>1, <2>2, SizesAreNumbers DEF ExactInv, WrittenInBlock
  <2>6. BlockShadow'
    <3> SUFFICES ASSUME NEW k \in live', NEW i \in Bytes,
                        i < requested_size'[k]
                 PROVE  Right(i, written'[k], stray'[k], shadow'[k][i])
      BY DEF BlockShadow, Right, kCleanByte, kPoisonByte
    <3>1. CASE k = c
      BY <2>2, <2>3, <2>4, <3>1 DEF Right
    <3>2. CASE k # c
      BY <2>1, <3>2 DEF ExactInv, BlockShadow
    <3> QED BY <3>1, <3>2
  <2> QED BY <2>5, <2>6
<1>5. ASSUME NEW c \in Chunks, CQMsanDeallocate(c)
      PROVE  WrittenInBlock' /\ BlockShadow'
  <2>1. \A k \in live' : /\ k \in live
                         /\ requested_size'[k] = requested_size[k]
                         /\ written'[k] = written[k]
                         /\ shadow'[k] = shadow[k]
                         /\ stray'[k] = stray[k]
    BY <1>1, <1>5 DEF CQMsanDeallocate, TypeOK
  <2> QED BY <2>1 DEF ExactInv, WrittenInBlock, BlockShadow, Right, kCleanByte,
                      kPoisonByte
<1>6. ASSUME NEW c \in Chunks, NEW s \in Sizes, ReallocInPlace(c, s)
      PROVE  WrittenInBlock' /\ BlockShadow'
  <2>1. \A k \in live \ {c} : /\ requested_size'[k] = requested_size[k]
                              /\ written'[k] = written[k]
                              /\ shadow'[k] = shadow[k]
                              /\ stray'[k] = stray[k]
    BY <1>1, <1>6 DEF ReallocInPlace, TypeOK
  <2>2. /\ live' = live /\ c \in live /\ requested_size'[c] = s
        /\ written'[c] = written[c] \cap 0 .. s - 1
        /\ shadow'[c] = IF s > requested_size[c] THEN GrownShadow(c, s)
                                                 ELSE shadow[c]
        /\ stray' = stray
    BY <1>1, <1>6 DEF ReallocInPlace, TypeOK
  <2>3. requested_size[c] \in Nat /\ s \in Nat
    BY <1>1, SizesAreNumbers DEF TypeOK
  <2>4. WrittenInBlock'
    BY <2>1, <2>2, <2>3 DEF ExactInv, WrittenInBlock
  <2>5. ASSUME NEW i \in Bytes, i < s
        PROVE  Right(i, written'[c], stray'[c], shadow'[c][i])
    <3>1. i \in Nat /\ (i \in written'[c] <=> i \in written[c])
      BY <2>2, <2>3, <2>5, SizesAreNumbers
    <3>2. CASE i < requested_size[c]
      <4>1. shadow'[c][i] = shadow[c][i]
        BY <2>2, <2>3, <3>1, <3>2 DEF GrownShadow, PoisonMemory, SetShadow
      <4> QED BY <2>2, <3>1, <3>2, <4>1 DEF ExactInv, BlockShadow, Right
    <3>3. CASE requested_size[c] <= i
      <4>0. kPoisonByte = 255
        BY <1>6 DEF ReallocInPlace, kPoisonByte
      <4>1. shadow'[c][i] = 255
        BY <1>3, <2>2, <2>3, <2>5, <3>1, <3>3 DEF GrownShadow, PoisonMemory, SetShadow
      <4>2. i \notin written[c]
        BY <2>2, <2>3, <3>1, <3>3 DEF ExactInv, WrittenInBlock
      <4> QED BY <3>1, <4>0, <4>1, <4>2 DEF Right
    <3> QED BY <2>3, <3>1, <3>2, <3>3
  <2>6. BlockShadow'
    <3> SUFFICES ASSUME NEW k \in live', NEW i \in Bytes,
                        i < requested_size'[k]
                 PROVE  Right(i, written'[k], stray'[k], shadow'[k][i])
      BY DEF BlockShadow, Right, kCleanByte, kPoisonByte
    <3>1. CASE k = c
      BY <2>2, <2>5, <3>1
    <3>2. CASE k # c
      BY <2>1, <2>2, <3>2 DEF ExactInv, BlockShadow
    <3> QED BY <3>1, <3>2
  <2> QED BY <2>4, <2>6
<1>7. ASSUME NEW c \in Chunks, NEW d \in Chunks, NEW s \in Sizes,
             ReallocMove(c, d, s)
      PROVE  WrittenInBlock' /\ BlockShadow'
  <2> DEFINE n == IF s < requested_size[c] THEN s ELSE requested_size[c]
             a == MallocShadow(d, s)
  <2>1. c \in live /\ d \in Chunks \ live /\ c # d
    BY <1>7 DEF ReallocMove
  <2>2. \A k \in live' \ {d} : /\ k \in live
                               /\ requested_size'[k] = requested_size[k]
                               /\ written'[k] = written[k]
                               /\ shadow'[k] = shadow[k]
                               /\ stray'[k] = stray[k]
    BY <1>1, <1>7 DEF ReallocMove, TypeOK
  <2>3. requested_size'[d] = s
    BY <1>1, <1>7, <2>1 DEF ReallocMove, TypeOK
  <2>4. written'[d] = written[c] \cap 0 .. n - 1
    BY <1>1, <1>7, <2>1 DEF ReallocMove, TypeOK
  <2>5. shadow'[d] = CopyShadow(a, shadow[c], n)
    BY <1>1, <1>7, <2>1 DEF ReallocMove, TypeOK
  <2>6. requested_size[c] \in Nat /\ s \in Nat
    BY <1>1, SizesAreNumbers DEF TypeOK
  <2>7. n \in Nat /\ n <= s /\ n <= requested_size[c]
    BY <2>6
  <2>11. ASSUME NEW i \in Bytes, i < s PROVE Right(i, {}, stray[d], a[i])
    BY <1>3, <2>1, <2>11, MallocBytes
  <2>13. stray'[d] = stray[d] \cup stray[c]
    BY <1>1, <1>7, <2>1 DEF ReallocMove, TypeOK
  <2> HIDE DEF n, a
  <2>8. WrittenInBlock'
    <3>1. \A i \in written'[d] : i < s
      BY <2>4, <2>6, <2>7
    <3> QED BY <2>2, <2>3, <3>1 DEF ExactInv, WrittenInBlock
  <2>9. ASSUME NEW i \in Bytes, i < s
        PROVE  Right(i, written'[d], stray'[d], shadow'[d][i])
    <3>1. i \in Nat
      BY SizesAreNumbers
    <3>2. CASE i < n
      <4>1. shadow'[d][i] = shadow[c][i] /\ (i \in written'[d] <=> i \in written[c])
        BY <2>4, <2>5, <2>7, <3>1, <3>2 DEF CopyShadow
      <4>2. i < requested_size[c]
        BY <2>6, <2>7, <3>1, <3>2
      <4>3. Right(i, written[c], stray[c], shadow[c][i])
        BY <2>1, <4>2 DEF ExactInv, BlockShadow
      <4> QED BY <2>13, <4>1, <4>3 DEF Right
    <3>3. CASE n <= i
      <4>1. shadow'[d][i] = a[i] /\ i \notin written'[d]
        BY <2>4, <2>5, <2>7, <3>1, <3>3 DEF CopyShadow
      <4> QED BY <2>11, <2>13, <2>9, <4>1 DEF Right
    <3> QED BY <2>7, <3>1, <3>2, <3>3
  <2>12. BlockShadow'
    <3> SUFFICES ASSUME NEW k \in live', NEW i \in Bytes,
                        i < requested_size'[k]
                 PROVE  Right(i, written'[k], stray'[k], shadow'[k][i])
      BY DEF BlockShadow, Right, kCleanByte, kPoisonByte
    <3>1. CASE k = d
      BY <2>3, <2>9, <3>1
    <3>2. CASE k # d
      BY <2>2, <3>2 DEF ExactInv, BlockShadow
    <3> QED BY <3>1, <3>2
  <2> QED BY <2>8, <2>12
<1>8. ASSUME NEW c \in Chunks, NEW j \in Bytes, Store(c, j)
      PROVE  WrittenInBlock' /\ BlockShadow'
  <2>1. /\ live' = live /\ requested_size' = requested_size /\ stray' = stray
        /\ c \in live /\ j < requested_size[c]
    BY <1>8 DEF Store
  <2>2. written'[c] = written[c] \cup {j}
        /\ \A k \in live \ {c} : written'[k] = written[k]
    BY <1>1, <1>8 DEF Store, TypeOK
  <2>3. /\ \A k \in live \ {c} : shadow'[k] = shadow[k]
        /\ shadow'[c] = [shadow[c] EXCEPT ![j] = kCleanByte]
    BY <1>1, <1>8 DEF Store, TypeOK
  <2>4. shadow'[c][j] = kCleanByte
        /\ \A i \in Bytes \ {j} : shadow'[c][i] = shadow[c][i]
    BY <1>1, <2>3 DEF TypeOK
  <2>5. WrittenInBlock'
    BY <2>1, <2>2 DEF ExactInv, WrittenInBlock
  <2>6. BlockShadow'
    <3> SUFFICES ASSUME NEW k \in live', NEW i \in Bytes,
                        i < requested_size'[k]
                 PROVE  Right(i, written'[k], stray'[k], shadow'[k][i])
      BY DEF BlockShadow, Right, kCleanByte, kPoisonByte
    <3>1. CASE k = c /\ i = j
      BY <2>2, <2>4, <3>1 DEF Right
    <3>2. CASE k = c /\ i # j
      BY <2>1, <2>2, <2>4, <3>2 DEF ExactInv, BlockShadow, Right
    <3>3. CASE k # c
      BY <2>1, <2>2, <2>3, <3>3 DEF ExactInv, BlockShadow
    <3> QED BY <3>1, <3>2, <3>3
  <2> QED BY <2>5, <2>6
<1>9. ASSUME NEW c \in Chunks, NEW j \in Bytes, DanglingStore(c, j)
      PROVE  WrittenInBlock' /\ BlockShadow'
  <2>1. /\ live' = live /\ requested_size' = requested_size
        /\ written' = written
        /\ \A k \in live : shadow'[k] = shadow[k] /\ stray'[k] = stray[k]
    BY <1>1, <1>9 DEF DanglingStore, TypeOK
  <2> QED BY <2>1 DEF ExactInv, WrittenInBlock, BlockShadow, Right, kCleanByte,
                      kPoisonByte
<1>10. CASE UNCHANGED vars
  BY <1>1, <1>2, <1>10 DEF vars, ExactInv, WrittenInBlock, BlockShadow, Right,
                           kCleanByte, kPoisonByte
<1> QED
  BY <1>1, <1>2, <1>4, <1>5, <1>6, <1>7, <1>8, <1>9, <1>10 DEF ExactInv, Next

LEMMA ExactAlways ==
  ASSUME PoisonsInMalloc, ~Flip \/ Backend = "glibc"
  PROVE  Spec => []ExactInv
<1>1. Init => ExactInv
  <2>1. Init => RecordedExtentValid
    BY SizesAreNumbers DEF Init, RecordedExtentValid
  <2> QED BY <2>1, TypeInit DEF Init, ExactInv, WrittenInBlock, BlockShadow
<1>2. ExactInv /\ [Next]_vars => ExactInv'
  BY ExactNext
<1> QED BY <1>1, <1>2, PTL DEF Spec

\* Where malloc poisons, in either allocator in the default convention and on
\* glibc's in the flipped one, every load from a live heap block of a byte that
\* has no value is reported, unless poison_reuse is on and a dangling pointer
\* was stored through.
THEOREM NoByteIsMissed ==
  ASSUME PoisonsInMalloc, ~Flip \/ Backend = "glibc"
  PROVE  Spec => []NoMissedByte
<1>1. ExactInv => NoMissedByte
  BY DEF ExactInv, BlockShadow, Right, NoMissedByte, Poisoned
<1> QED BY <1>1, ExactAlways, PTL

--------------------------------------------------------------------------------
(* The flipped build on glibc's allocator, where malloc does not poison:    *)
(* a byte with no value has a zero shadow, in or out of a block.            *)

ZeroOutside ==
  \A c \in Chunks :
    /\ \A i \in written[c] : c \in live /\ i < requested_size[c]
    /\ \A i \in Bytes \ written[c] : shadow[c][i] = 0

LEMMA FlippedFree ==
  ASSUME Backend = "glibc", Flip, poison_in_free, TypeOK, ZeroOutside,
         NEW c \in Chunks, NEW i \in Bytes
  PROVE  FreeShadow(c)[i] = 0
<1>1. /\ kPoisonByte = 0 /\ i \in Nat /\ requested_size[c] \in Nat
  BY SizesAreNumbers DEF kPoisonByte, TypeOK
<1>2. FreeShadow(c) = SetShadow(Released(c), 0, requested_size[c], 0)
  BY <1>1 DEF FreeShadow, Unmapped, PoisonedByFree
<1>3. CASE i < requested_size[c]
  BY <1>1, <1>2, <1>3 DEF SetShadow
<1>4. CASE requested_size[c] <= i
  <2>1. i \notin written[c]
    BY <1>1, <1>4 DEF ZeroOutside
  <2>2. shadow[c][i] = 0
    BY <2>1 DEF ZeroOutside
  <2>3. Released(c)[i] = 0
    BY <2>2 DEF Released, SetShadow
  <2> QED BY <1>1, <1>2, <1>4, <2>3 DEF SetShadow
<1> QED BY <1>1, <1>3, <1>4

LEMMA ZeroNext ==
  ASSUME Backend = "glibc", Flip, poison_in_free, ~DanglingStores,
         TypeOK, ZeroOutside, [Next]_vars
  PROVE  ZeroOutside'
<1>1. TypeOK'
  BY TypeNext
<1>2. ASSUME NEW c \in Chunks, NEW s \in Sizes, NEW zero \in BOOLEAN,
             CQMsanAllocate(c, s, zero)
      PROVE  ZeroOutside'
  <2>1. \A k \in Chunks \ {c} : /\ requested_size'[k] = requested_size[k]
                                /\ written'[k] = written[k]
                                /\ shadow'[k] = shadow[k]
                                /\ k \in live => k \in live'
    BY <1>2 DEF CQMsanAllocate, TypeOK
  <2>2. /\ requested_size'[c] = s /\ c \in live' /\ c \notin live
        /\ written'[c] = IF zero THEN 0 .. s - 1 ELSE {}
        /\ shadow'[c] = IF zero THEN SetShadow(shadow[c], 0, s, kCleanByte)
                                ELSE shadow[c]
    BY <1>2 DEF CQMsanAllocate, TypeOK, MallocShadow, PoisonsInMalloc
  <2>3. s \in Nat /\ \A i \in Bytes : shadow[c][i] = 0 /\ i \in Nat
    BY <2>2, SizesAreNumbers DEF ZeroOutside
  <2>4. \A i \in written'[c] : i < s
    BY <2>2, <2>3
  <2>5. \A i \in Bytes \ written'[c] : shadow'[c][i] = 0
    BY <2>2, <2>3 DEF SetShadow
  <2>6. \A i \in written'[c] : i < requested_size'[c]
    BY <2>2, <2>4
  <2> SUFFICES ASSUME NEW k \in Chunks
               PROVE  /\ \A i \in written'[k] :
                           k \in live' /\ i < requested_size'[k]
                      /\ \A i \in Bytes \ written'[k] : shadow'[k][i] = 0
    BY DEF ZeroOutside
  <2>7. CASE k = c
    BY <2>2, <2>5, <2>6, <2>7
  <2>8. CASE k # c
    BY <2>1, <2>8 DEF ZeroOutside
  <2> QED BY <2>7, <2>8
<1>3. ASSUME NEW c \in Chunks, CQMsanDeallocate(c)
      PROVE  ZeroOutside'
  <2>1. \A k \in Chunks \ {c} : /\ requested_size'[k] = requested_size[k]
                                /\ written'[k] = written[k]
                                /\ shadow'[k] = shadow[k]
                                /\ k \in live => k \in live'
    BY <1>3 DEF CQMsanDeallocate, TypeOK
  <2>2. written'[c] = {} /\ shadow'[c] = FreeShadow(c)
    BY <1>3 DEF CQMsanDeallocate, TypeOK
  <2>3. \A i \in Bytes : shadow'[c][i] = 0
    BY <2>2, FlippedFree
  <2> QED BY <2>1, <2>2, <2>3 DEF ZeroOutside
<1>4. ASSUME NEW c \in Chunks, NEW d \in Chunks, NEW s \in Sizes,
             ReallocMove(c, d, s)
      PROVE  ZeroOutside'
  <2> DEFINE n == IF s < requested_size[c] THEN s ELSE requested_size[c]
  <2>1. c \in live /\ d \notin live /\ c # d
    BY <1>4 DEF ReallocMove
  <2>2. \A k \in Chunks \ {c, d} : /\ requested_size'[k] = requested_size[k]
                                   /\ written'[k] = written[k]
                                   /\ shadow'[k] = shadow[k]
                                   /\ k \in live => k \in live'
    BY <1>4 DEF ReallocMove, TypeOK
  <2>3. written'[c] = {} /\ shadow'[c] = FreeShadow(c)
    BY <1>4, <2>1 DEF ReallocMove, TypeOK
  <2>4. \A i \in Bytes : shadow'[c][i] = 0
    BY <2>3, FlippedFree
  <2>5. /\ requested_size'[d] = s /\ d \in live'
        /\ written'[d] = written[c] \cap 0 .. n - 1
    BY <1>4, <2>1 DEF ReallocMove, TypeOK
  <2>6. shadow'[d] = CopyShadow(shadow[d], shadow[c], n)
    BY <1>4, <2>1 DEF ReallocMove, TypeOK, MallocShadow, PoisonsInMalloc
  <2>7. n \in Nat /\ s \in Nat /\ n <= s /\ Bytes \subseteq Nat
    BY SizesAreNumbers DEF TypeOK
  <2> HIDE DEF n
  <2>8. \A i \in written'[d] : i < s
    BY <2>5, <2>7
  <2>9. ASSUME NEW i \in Bytes \ written'[d]
        PROVE  shadow'[d][i] = 0
    <3>1. shadow[d][i] = 0
      BY <2>1 DEF ZeroOutside
    <3>2. ASSUME i < n
          PROVE  shadow[c][i] = 0
      <4>1. i \in 0 .. n - 1
        BY <2>7, <3>2
      <4>2. i \notin written[c]
        BY <2>5, <4>1
      <4> QED BY <4>2 DEF ZeroOutside
    <3> QED BY <2>6, <3>1, <3>2 DEF CopyShadow
  <2> QED BY <2>2, <2>3, <2>4, <2>5, <2>8, <2>9 DEF ZeroOutside
<1>5. ASSUME NEW c \in Chunks, NEW j \in Bytes, Store(c, j)
      PROVE  ZeroOutside'
  <2>1. \A k \in Chunks \ {c} : written'[k] = written[k] /\ shadow'[k] = shadow[k]
    BY <1>5 DEF Store, TypeOK
  <2>2. /\ live' = live /\ requested_size' = requested_size
        /\ c \in live /\ j < requested_size[c]
        /\ written'[c] = written[c] \cup {j}
        /\ \A i \in Bytes \ {j} : shadow'[c][i] = shadow[c][i]
    BY <1>5 DEF Store, TypeOK
  <2> QED BY <2>1, <2>2 DEF ZeroOutside
<1>6. CASE UNCHANGED vars
  BY <1>6 DEF vars, ZeroOutside
<1> QED BY <1>2, <1>3, <1>4, <1>5, <1>6 DEF Next, ReallocInPlace, DanglingStore

\* The flipped build on glibc's allocator misses nothing although malloc does
\* not poison: memory nobody owns is always poisoned.
THEOREM FlippedGlibcMissesNothing ==
  ASSUME Backend = "glibc", Flip, poison_in_free, ~DanglingStores
  PROVE  Spec => [](NoMissedByte /\ RecycledIsPoisoned)
<1>1. Init => ZeroOutside
  BY DEF Init, ZeroOutside
<1>2. TypeOK /\ ZeroOutside /\ [Next]_vars => ZeroOutside'
  BY ZeroNext
<1>3. TypeOK /\ ZeroOutside => NoMissedByte /\ RecycledIsPoisoned
  BY DEF TypeOK, ZeroOutside, NoMissedByte, RecycledIsPoisoned, Poisoned,
         kPoisonByte
<1> QED BY <1>1, <1>2, <1>3, TypeCorrect, PTL DEF Spec

--------------------------------------------------------------------------------
(* Values stay clean, in both builds and both allocators: growing in place  *)
(* marks only what is past the block, whichever byte it writes, and what    *)
(* malloc and free poison has no value yet, or none any more.               *)

CleanBytes(w, size, sh) == \A i \in w : i < size /\ sh[i] = kCleanByte

CleanInside ==
  \A c \in Chunks : CleanBytes(written[c], requested_size[c], shadow[c])

LEMMA CleanNext ==
  ASSUME TypeOK, CleanInside, [Next]_vars
  PROVE  CleanInside'
<1>0. Bytes \subseteq Nat /\ Sizes \subseteq Nat /\ kCleanByte' = kCleanByte
  BY SizesAreNumbers DEF kCleanByte
<1> DEFINE Kept(k) == /\ written'[k] = written[k] /\ shadow'[k] = shadow[k]
                      /\ requested_size'[k] = requested_size[k]
           Clean(k) == CleanBytes(written'[k], requested_size'[k], shadow'[k])
<1>1. SUFFICES ASSUME NEW k \in Chunks PROVE Kept(k) \/ Clean(k)
  BY <1>0 DEF CleanInside, CleanBytes
<1>9. CleanBytes(written[k], requested_size[k], shadow[k])
      /\ written[k] \subseteq Bytes /\ requested_size[k] \in Nat
  BY <1>0 DEF CleanInside, TypeOK
<1>2. ASSUME NEW c \in Chunks, NEW s \in Sizes, NEW zero \in BOOLEAN,
             CQMsanAllocate(c, s, zero)
      PROVE  Kept(k) \/ Clean(k)
  <2>1. CASE k # c
    BY <1>2, <2>1 DEF CQMsanAllocate, TypeOK
  <2>2. CASE k = c /\ zero
    <3>1. /\ written'[k] = 0 .. s - 1 /\ requested_size'[k] = s
          /\ shadow'[k] = SetShadow(shadow[k], 0, s, kCleanByte)
      BY <1>2, <2>2 DEF CQMsanAllocate, TypeOK
    <3>2. s \in Nat /\ 0 .. s - 1 \subseteq Bytes
      BY <1>0, SizesAreNumbers
    <3>3. \A i \in 0 .. s - 1 : i < s /\ SetShadow(shadow[k], 0, s, kCleanByte)[i] = kCleanByte
      BY <3>2 DEF SetShadow
    <3> QED BY <3>1, <3>3 DEF CleanBytes
  <2>3. CASE k = c /\ ~zero
    <3>1. written'[k] = {}
      BY <1>2, <2>3 DEF CQMsanAllocate, TypeOK
    <3> QED BY <3>1 DEF CleanBytes
  <2> QED BY <2>1, <2>2, <2>3
<1>3. ASSUME NEW c \in Chunks, CQMsanDeallocate(c)
      PROVE  Kept(k) \/ Clean(k)
  <2>1. CASE k # c
    BY <1>3, <2>1 DEF CQMsanDeallocate, TypeOK
  <2>2. CASE k = c
    <3>1. written'[k] = {}
      BY <1>3, <2>2 DEF CQMsanDeallocate, TypeOK
    <3> QED BY <3>1 DEF CleanBytes
  <2> QED BY <2>1, <2>2
<1>4. ASSUME NEW c \in Chunks, NEW s \in Sizes, ReallocInPlace(c, s)
      PROVE  Kept(k) \/ Clean(k)
  <2>1. CASE k # c
    BY <1>4, <2>1 DEF ReallocInPlace, TypeOK
  <2>2. CASE k = c
    <3>1. /\ written'[k] = written[k] \cap 0 .. s - 1 /\ requested_size'[k] = s
          /\ shadow'[k] = shadow[k] \/ shadow'[k] = GrownShadow(k, s)
      BY <1>4, <2>2 DEF ReallocInPlace, TypeOK
    <3>2. ASSUME NEW i \in Bytes, i < requested_size[k]
          PROVE  GrownShadow(k, s)[i] = shadow[k][i]
      BY <1>0, <1>9, <3>2 DEF GrownShadow, PoisonMemory, SetShadow
    <3>3. \A i \in written'[k] : /\ i < s /\ i \in Bytes /\ i < requested_size[k]
                                 /\ shadow[k][i] = kCleanByte
      BY <1>0, <1>9, <3>1 DEF CleanBytes
    <3> QED BY <3>1, <3>2, <3>3 DEF CleanBytes
  <2> QED BY <2>1, <2>2
<1>5. ASSUME NEW c \in Chunks, NEW d \in Chunks, NEW s \in Sizes,
             ReallocMove(c, d, s)
      PROVE  Kept(k) \/ Clean(k)
  <2> DEFINE n == IF s < requested_size[c] THEN s ELSE requested_size[c]
  <2>1. c # d /\ n \in Nat /\ n <= s /\ s \in Nat
    BY <1>0, <1>5 DEF ReallocMove, TypeOK
  <2>2. CASE k # c /\ k # d
    BY <1>5, <2>2 DEF ReallocMove, TypeOK
  <2>3. CASE k = c
    <3>1. written'[k] = {}
      BY <1>5, <2>1, <2>3 DEF ReallocMove, TypeOK
    <3> QED BY <3>1 DEF CleanBytes
  <2>4. CASE k = d
    <3>1. written'[k] = written[c] \cap 0 .. n - 1 /\ requested_size'[k] = s
      BY <1>5, <2>1, <2>4 DEF ReallocMove, TypeOK
    <3>2. shadow'[k] = CopyShadow(MallocShadow(d, s), shadow[c], n)
      BY <1>5, <2>1, <2>4 DEF ReallocMove, TypeOK
    <3>3. \A i \in written[c] : i \in Bytes /\ shadow[c][i] = kCleanByte
      BY DEF CleanInside, CleanBytes, TypeOK
    <3> HIDE DEF n
    <3>4. \A i \in written'[k] : i < n /\ i < s /\ i \in Bytes /\ i \in written[c]
      BY <1>0, <2>1, <3>1, <3>3
    <3>5. \A i \in written'[k] : shadow'[k][i] = kCleanByte
      BY <3>2, <3>3, <3>4 DEF CopyShadow
    <3> QED BY <3>1, <3>4, <3>5 DEF CleanBytes
  <2> QED BY <2>2, <2>3, <2>4
<1>6. ASSUME NEW c \in Chunks, NEW j \in Bytes, Store(c, j)
      PROVE  Kept(k) \/ Clean(k)
  <2>1. CASE k # c
    BY <1>6, <2>1 DEF Store, TypeOK
  <2>2. CASE k = c
    <3>1. /\ written'[k] = written[k] \cup {j} /\ requested_size'[k] = requested_size[k]
          /\ j < requested_size[k] /\ shadow'[k][j] = kCleanByte
          /\ \A i \in Bytes \ {j} : shadow'[k][i] = shadow[k][i]
      BY <1>6, <2>2 DEF Store, TypeOK
    <3> QED BY <1>9, <3>1 DEF CleanBytes
  <2> QED BY <2>1, <2>2
<1>7. ASSUME NEW c \in Chunks, NEW j \in Bytes, DanglingStore(c, j)
      PROVE  Kept(k) \/ Clean(k)
  <2>1. CASE k # c
    BY <1>7, <2>1 DEF DanglingStore, TypeOK
  <2>2. CASE k = c
    <3>1. /\ written'[k] = written[k] /\ requested_size'[k] = requested_size[k]
          /\ shadow'[k][j] = kCleanByte
          /\ \A i \in Bytes \ {j} : shadow'[k][i] = shadow[k][i]
      BY <1>7, <2>2 DEF DanglingStore, TypeOK
    <3> QED BY <1>9, <3>1 DEF CleanBytes
  <2> QED BY <2>1, <2>2
<1>8. CASE UNCHANGED vars
  BY <1>8 DEF vars
<1> QED BY <1>2, <1>3, <1>4, <1>5, <1>6, <1>7, <1>8 DEF Next

\* No load of a byte that has a value is reported, in both builds and both
\* allocators, for all flags and wherever the program stores.
THEOREM NoAlarmIsFalse == Spec => []NoFalseAlarm
<1>1. Init => CleanInside
  BY DEF Init, CleanInside, CleanBytes
<1>2. TypeOK /\ CleanInside /\ [Next]_vars => CleanInside'
  BY CleanNext
<1>3. kCleanByte # kPoisonByte
  BY DEF kCleanByte, kPoisonByte
<1>4. TypeOK /\ CleanInside => NoFalseAlarm
  BY <1>3 DEF TypeOK, CleanInside, CleanBytes, NoFalseAlarm, Poisoned
<1> QED BY <1>1, <1>2, <1>4, TypeCorrect, PTL DEF Spec
=============================================================================
