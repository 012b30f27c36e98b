---------------------------- MODULE Memory_proofs ----------------------------
(***************************************************************************)
(* Proofs about the word allocator, for every arena size and every set of  *)
(* request sizes.                                                          *)
(***************************************************************************)
EXTENDS Memory, FiniteSetTheorems, TLAPS

(***************************************************************************)
(* The inductive invariant: what each scan knows about the words behind it *)
(***************************************************************************)
WF(bm) ==
  /\ \A s \in Word : bm[s] = "START" => \E e \in Word : s < e /\ IsBlock(bm, s, e)
  /\ \A e \in Word : bm[e] = "END" => \E s \in Word : s < e /\ IsBlock(bm, s, e)

\* No block has words on both sides of the boundary before word k.
NoStraddle(bm, k) ==
  \A s \in Word, e \in Word : IsBlock(bm, s, e) /\ s < k => e < k

\* The n-word runs ending before word k all touch a block.
NoRunBefore(bm, k, n) ==
  \A p \in Word : p + n <= k => ~ FreeRun(bm, p, n)

\* A free run that reaches word k cannot begin before it.
RunStartsAt(bm, k) == k = 0 \/ Covered(bm, k - 1)

Inside(bm, k) ==
  \E s \in 0 .. k - 1 :
    bm[s] = "START" /\ \A j \in s + 1 .. k - 1 : bm[j] = "FREE_OR_USED"

Scanning == pc \in {"allocate", "num_free"}

ScanInv ==
  /\ Scanning /\ state \in {"INIT", "FREE_LENGTH_CHECK"} => NoStraddle(bitmap, i)
  /\ Scanning /\ state = "SKIP" => Inside(bitmap, i)
  /\ pc \notin {"allocate", "num_free"} => state = "INIT"
  /\ pc = "num_free" => state # "ALLOC_DONE"
  /\ pc = "idle" => i = 0 /\ free_length = 0 /\ sum_length = 0
  /\ free_length <= i /\ sum_length <= i

AllocInv ==
  pc = "allocate" =>
    /\ num_words \in Requests
    /\ state # "ALLOC_DONE" /\ num_words > 0 => NoRunBefore(bitmap, i, num_words)
    /\ state \in {"INIT", "SKIP"} => RunStartsAt(bitmap, i)
    /\ state = "FREE_LENGTH_CHECK" =>
         /\ start_ix < i /\ free_length = i - start_ix
         /\ num_words > 0 => free_length < num_words
         /\ \A k \in start_ix .. i - 1 : ~ Covered(bitmap, k)
         /\ RunStartsAt(bitmap, start_ix)
    /\ state = "ALLOC_DONE" =>
         /\ num_words > 0 /\ end_ix = start_ix + num_words - 1
         /\ FreeRun(bitmap, start_ix, num_words)
         /\ \A q \in 0 .. start_ix - 1 : ~ FreeRun(bitmap, q, num_words)

CountInv ==
  pc = "num_free" =>
    sum_length = Cardinality({k \in 0 .. i - 1 : ~ Covered(bitmap, k)})

FreeInv ==
  pc = "free" =>
    /\ bitmap[ix] = "FREE_OR_USED"
    /\ \E e \in Word : i <= e /\ ix < e /\ ix <= i /\ IsBlock(View, ix, e)

IInv == TypeOK /\ WF(View) /\ ScanInv /\ AllocInv /\ CountInv /\ FreeInv

(***************************************************************************)
(* Facts about bitmaps                                                     *)
(***************************************************************************)
\* Two blocks of a bitmap that share a word are the same block.
LEMMA BlocksDisjoint ==
  ASSUME NEW bm \in [Word -> Status],
         NEW s \in Word, NEW e \in Word, NEW a \in Word, NEW b \in Word,
         IsBlock(bm, s, e), IsBlock(bm, a, b), s <= b, a <= e
  PROVE  s = a /\ e = b
  BY MemorySizeAssumption DEF IsBlock, Word, Status

\* A word is covered exactly when some block holds it.
LEMMA CoveredByBlock ==
  ASSUME NEW bm \in [Word -> Status], NEW k \in Word
  PROVE  Covered(bm, k) <=>
           \E s \in Word, e \in Word : IsBlock(bm, s, e) /\ s <= k /\ k <= e
  BY MemorySizeAssumption DEF Covered, Word

\* A word of no block has status FREE_OR_USED in a well-formed bitmap.
LEMMA UncoveredStatus ==
  ASSUME NEW bm \in [Word -> Status], WF(bm), NEW k \in Word, ~ Covered(bm, k)
  PROVE  bm[k] = "FREE_OR_USED"
  <1>1. CASE bm[k] = "START" BY <1>1, CoveredByBlock, MemorySizeAssumption DEF WF, Word
  <1>2. CASE bm[k] = "END" BY <1>2, CoveredByBlock, MemorySizeAssumption DEF WF, Word
  <1>3. CASE bm[k] = "START_END"
    <2>1. IsBlock(bm, k, k) BY <1>3 DEF IsBlock
    <2> QED BY <2>1, CoveredByBlock, MemorySizeAssumption DEF Word
  <1> QED BY <1>1, <1>2, <1>3 DEF Status

\* memory_allocate's set_status calls add one block to a well-formed bitmap
\* and disturb no other.
LEMMA MarkAddsBlock ==
  ASSUME NEW bm \in [Word -> Status], WF(bm), NEW s \in Word, NEW n \in Nat, n > 0,
         FreeRun(bm, s, n), NEW e \in Word, e = s + n - 1
  PROVE  /\ MarkBlock(bm, s, e) \in [Word -> Status]
         /\ WF(MarkBlock(bm, s, e))
         /\ \A a \in Word, b \in Word :
              IsBlock(MarkBlock(bm, s, e), a, b) <=>
                IsBlock(bm, a, b) \/ (a = s /\ b = e)
  <1> DEFINE bm2 == MarkBlock(bm, s, e)
  <1>0. memory_size \in Nat BY MemorySizeAssumption
  <1>1. \A k \in s .. e : k \in Word /\ ~ Covered(bm, k) /\ bm[k] = "FREE_OR_USED"
    <2>1. \A k \in s .. e : k \in Word /\ ~ Covered(bm, k)
      BY <1>0 DEF FreeRun, Word
    <2> QED BY <2>1, UncoveredStatus
  <1>2. bm2 \in [Word -> Status] BY DEF MarkBlock, Status
  <1>3. \A k \in Word : k # s /\ k # e => bm2[k] = bm[k] BY DEF MarkBlock
  <1>4. IsBlock(bm2, s, e)
    BY <1>0, <1>1, <1>3 DEF MarkBlock, IsBlock, Word
  <1>5. ASSUME NEW a \in Word, NEW b \in Word, IsBlock(bm, a, b)
        PROVE  IsBlock(bm2, a, b)
    <2>1. b < s \/ e < a
      <3>1. \A k \in s .. e : ~ (a <= k /\ k <= b)
        BY <1>1, <1>5, CoveredByBlock
      <3>2. a <= b BY <1>5, <1>0 DEF IsBlock, Word
      <3>3. CASE a <= s BY <3>1, <3>2, <3>3, <1>0 DEF Word
      <3>4. CASE s < a BY <3>1, <3>2, <3>4, <1>0 DEF Word
      <3> QED BY <3>3, <3>4, <1>0 DEF Word
    <2> QED BY <2>1, <1>3, <1>5, <1>0 DEF IsBlock, Word
  <1>6. ASSUME NEW a \in Word, NEW b \in Word, IsBlock(bm2, a, b),
               ~ (a = s /\ b = e)
        PROVE  IsBlock(bm, a, b)
    <2>1. a <= b BY <1>6, <1>0 DEF IsBlock, Word
    <2>2. b < s \/ e < a
      BY <1>2, <1>4, <1>6, <1>0, BlocksDisjoint DEF Word
    <2> QED BY <2>1, <2>2, <1>3, <1>6, <1>0 DEF IsBlock, Word
  <1>7. WF(bm2)
    <2>1. ASSUME NEW k \in Word, bm2[k] = "START"
          PROVE  \E z \in Word : k < z /\ IsBlock(bm2, k, z)
      <3>1. CASE k = s BY <3>1, <2>1, <1>4, <1>0 DEF MarkBlock, Word
      <3>2. CASE k = e /\ k # s BY <3>2, <2>1 DEF MarkBlock
      <3>3. CASE k # s /\ k # e BY <3>3, <2>1, <1>3, <1>5 DEF WF
      <3> QED BY <3>1, <3>2, <3>3
    <2>2. ASSUME NEW k \in Word, bm2[k] = "END"
          PROVE  \E z \in Word : z < k /\ IsBlock(bm2, z, k)
      <3>1. CASE k = s BY <3>1, <2>2 DEF MarkBlock
      <3>2. CASE k = e /\ k # s BY <3>2, <2>2, <1>4, <1>0 DEF MarkBlock, Word
      <3>3. CASE k # s /\ k # e BY <3>3, <2>2, <1>3, <1>5 DEF WF
      <3> QED BY <3>1, <3>2, <3>3
    <2> QED BY <2>1, <2>2 DEF WF
  <1> QED BY <1>2, <1>4, <1>5, <1>6, <1>7

\* Erasing both ends of a block, as memory_free does, removes that block from
\* a well-formed bitmap and disturbs no other.
EraseBlock(bm, s, e) == [bm EXCEPT ![s] = "FREE_OR_USED", ![e] = "FREE_OR_USED"]

LEMMA EraseRemovesBlock ==
  ASSUME NEW bm \in [Word -> Status], WF(bm), NEW s \in Word, NEW e \in Word,
         IsBlock(bm, s, e)
  PROVE  /\ EraseBlock(bm, s, e) \in [Word -> Status]
         /\ WF(EraseBlock(bm, s, e))
         /\ \A a \in Word, b \in Word :
              IsBlock(EraseBlock(bm, s, e), a, b) <=>
                IsBlock(bm, a, b) /\ ~ (a = s /\ b = e)
  <1> DEFINE bm2 == EraseBlock(bm, s, e)
  <1>0. memory_size \in Nat /\ s <= e BY MemorySizeAssumption DEF IsBlock, Word
  <1>1. bm2[s] = "FREE_OR_USED" /\ bm2[e] = "FREE_OR_USED"
        /\ (\A k \in Word : k # s /\ k # e => bm2[k] = bm[k])
        /\ bm2 \in [Word -> Status]
    BY DEF EraseBlock, Status
  <1> HIDE DEF bm2
  <1>2. ASSUME NEW a \in Word, NEW b \in Word, IsBlock(bm, a, b), ~ (a = s /\ b = e)
        PROVE  IsBlock(bm2, a, b)
    <2>1. b < s \/ e < a BY <1>2, <1>0, BlocksDisjoint DEF Word
    <2> QED BY <2>1, <1>1, <1>2, <1>0 DEF IsBlock, Word
  <1>3. ASSUME NEW a \in Word, NEW b \in Word, IsBlock(bm2, a, b)
        PROVE  IsBlock(bm, a, b) /\ ~ (a = s /\ b = e)
    <2>1. a # s /\ a # e /\ b # s /\ b # e BY <1>1, <1>3 DEF IsBlock
    <2>2. CASE a = b BY <2>1, <2>2, <1>1, <1>3, <1>0 DEF IsBlock, Word
    <2>3. CASE a # b
      <3>1. a < b /\ bm[a] = "START" BY <2>1, <2>3, <1>1, <1>3 DEF IsBlock
      <3>2. PICK z \in Word : a < z /\ IsBlock(bm, a, z) BY <3>1 DEF WF
      <3>3. IsBlock(bm2, a, z) BY <2>1, <3>2, <1>2
      <3>4. a <= z /\ a <= b BY <3>1, <3>2, <1>0 DEF Word
      <3>5. z = b BY <1>1, <3>3, <3>4, <1>3, BlocksDisjoint
      <3> QED BY <2>1, <3>2, <3>5
    <2> QED BY <2>2, <2>3
  <1>4. WF(bm2) BY <1>1, <1>2, <1>0 DEF WF, Word
  <1> QED BY <1>1, <1>2, <1>3, <1>4 DEF bm2

(***************************************************************************)
(* The invariant is inductive                                              *)
(***************************************************************************)
LEMMA InitInv == Init => IInv
  <1> SUFFICES ASSUME Init PROVE IInv OBVIOUS
  <1> USE MemorySizeAssumption, RequestsAssumption
  <1>1. TypeOK BY DEF Init, TypeOK, Status, ScanState, Word
  <1>2. WF(View) BY DEF Init, WF, View
  <1> QED BY <1>1, <1>2 DEF Init, IInv, ScanInv, AllocInv, CountInv, FreeInv, Scanning

\* At the boundary of a block the scans change state as the block demands.
LEMMA ScanBoundary ==
  ASSUME NEW bm \in [Word -> Status], WF(bm), NEW k \in Word,
         bm[k] # "FREE_OR_USED"
  PROVE  /\ Covered(bm, k)
         /\ bm[k] = "START" => Inside(bm, k + 1)
         /\ bm[k] # "START" => NoStraddle(bm, k + 1)
  <1> USE MemorySizeAssumption
  <1>1. Covered(bm, k) BY UncoveredStatus
  <1>2. ASSUME bm[k] = "START" PROVE Inside(bm, k + 1) BY <1>2 DEF Inside, Word
  <1>3. ASSUME bm[k] # "START" PROVE NoStraddle(bm, k + 1)
    <2> SUFFICES ASSUME NEW s \in Word, NEW e \in Word, IsBlock(bm, s, e), s < k + 1
                 PROVE  e < k + 1
      BY DEF NoStraddle
    <2> QED BY <1>3 DEF IsBlock, Word, Status
  <1> QED BY <1>1, <1>2, <1>3

\* At a body or free word, a scan that is outside every block finds a free
\* word, and one that is inside a block stays inside.
LEMMA ScanPlain ==
  ASSUME NEW bm \in [Word -> Status], WF(bm), NEW k \in Word,
         bm[k] = "FREE_OR_USED"
  PROVE  /\ NoStraddle(bm, k) => ~ Covered(bm, k) /\ NoStraddle(bm, k + 1)
         /\ Inside(bm, k) => Covered(bm, k) /\ Inside(bm, k + 1)
  <1> USE MemorySizeAssumption
  <1>1. ASSUME NoStraddle(bm, k) PROVE ~ Covered(bm, k) /\ NoStraddle(bm, k + 1)
    <2>1. ~ Covered(bm, k) BY <1>1, CoveredByBlock DEF NoStraddle, IsBlock, Word
    <2>2. NoStraddle(bm, k + 1) BY <1>1 DEF NoStraddle, IsBlock, Word
    <2> QED BY <2>1, <2>2
  <1>2. ASSUME Inside(bm, k) PROVE Covered(bm, k) /\ Inside(bm, k + 1)
    <2>1. PICK s \in 0 .. k - 1 :
            bm[s] = "START" /\ \A j \in s + 1 .. k - 1 : bm[j] = "FREE_OR_USED"
      BY <1>2 DEF Inside
    <2>2. s \in Word /\ s < k BY <2>1 DEF Word
    <2>3. PICK e \in Word : s < e /\ IsBlock(bm, s, e) BY <2>1, <2>2 DEF WF
    <2>4. k < e
      <3>1. e >= k BY <2>1, <2>2, <2>3 DEF IsBlock, Word
      <3>2. e # k BY <2>3 DEF IsBlock
      <3> QED BY <3>1, <3>2 DEF Word
    <2>5. Covered(bm, k) BY <2>2, <2>3, <2>4, CoveredByBlock DEF Word
    <2>6. Inside(bm, k + 1) BY <2>1, <2>2 DEF Inside, Word
    <2> QED BY <2>5, <2>6
  <1> QED BY <1>1, <1>2

\* Counting the free words up to and including word k.
LEMMA CountOne ==
  ASSUME NEW bm, NEW k \in Nat
  PROVE  LET F(m) == {j \in 0 .. m - 1 : ~ Covered(bm, j)} IN
           /\ IsFiniteSet(F(k))
           /\ Covered(bm, k) => Cardinality(F(k + 1)) = Cardinality(F(k))
           /\ ~ Covered(bm, k) => Cardinality(F(k + 1)) = Cardinality(F(k)) + 1
  <1> DEFINE F(m) == {j \in 0 .. m - 1 : ~ Covered(bm, j)}
  <1>1. IsFiniteSet(0 .. k - 1) BY FS_Interval
  <1>2. IsFiniteSet(F(k)) BY <1>1, FS_Subset
  <1>3. Covered(bm, k) => F(k + 1) = F(k) OBVIOUS
  <1>4. ~ Covered(bm, k) => F(k + 1) = F(k) \cup {k} /\ k \notin F(k) OBVIOUS
  <1>5. ~ Covered(bm, k) => Cardinality(F(k + 1)) = Cardinality(F(k)) + 1
    <2> HIDE DEF F
    <2> QED BY <1>2, <1>4, FS_AddElement
  <1> QED BY <1>2, <1>3, <1>5

LEMMA StepIdle ==
  ASSUME IInv,
         \/ \E n \in Requests : memory_allocate(n)
         \/ memory_num_free
  PROVE  IInv'
  <1> USE MemorySizeAssumption, RequestsAssumption DEF IInv
  <1>1. TypeOK' BY DEF TypeOK, memory_allocate, memory_num_free, scanVars
  <1>2. pc = "idle" /\ i = 0 /\ state = "INIT" /\ i' = 0 /\ state' = "INIT"
        /\ bitmap' = bitmap /\ pc' \in {"allocate", "num_free"}
        /\ free_length' = 0 /\ sum_length' = 0
    BY DEF ScanInv, memory_allocate, memory_num_free, scanVars
  <1>3. View = bitmap /\ View' = bitmap' BY <1>2 DEF View
  <1>4. WF(View)' BY <1>2, <1>3
  <1>5. NoStraddle(bitmap', 0) BY DEF NoStraddle, Word
  <1>6. ScanInv' BY <1>2, <1>5 DEF ScanInv, Scanning
  <1>7. AllocInv'
    <2>1. RunStartsAt(bitmap', 0) BY DEF RunStartsAt
    <2>2. \A n : n \in Nat /\ n > 0 => NoRunBefore(bitmap', 0, n) BY DEF NoRunBefore, Word
    <2>3. num_words' \in Nat BY <1>1 DEF TypeOK
    <2>4. pc' = "allocate" => num_words' \in Requests
      BY DEF memory_allocate, memory_num_free
    <2> QED BY <1>2, <2>1, <2>2, <2>3, <2>4 DEF AllocInv
  <1>8. CountInv'
    <2>1. {k \in 0 .. 0 - 1 : ~ Covered(bitmap', k)} = {} OBVIOUS
    <2> QED BY <1>2, <2>1, FS_EmptySet DEF CountInv
  <1>9. FreeInv' BY <1>2 DEF FreeInv
  <1> QED BY <1>1, <1>4, <1>6, <1>7, <1>8, <1>9

\* A scan that has just left word i at a covered word.
LEMMA NoRunPastCovered ==
  ASSUME NEW bm, NEW k \in Word, NEW n \in Nat, n > 0,
         NoRunBefore(bm, k, n), Covered(bm, k)
  PROVE  NoRunBefore(bm, k + 1, n)
  BY MemorySizeAssumption DEF NoRunBefore, FreeRun, Word

LEMMA StepAllocBoundary == ASSUME IInv, AllocBoundary PROVE IInv'
  <1> USE MemorySizeAssumption, RequestsAssumption DEF IInv
  <1>1. /\ i \in Word /\ i' = i + 1 /\ bitmap' = bitmap /\ pc = "allocate" /\ pc' = pc
        /\ View = bitmap /\ View' = bitmap /\ bitmap[i] # "FREE_OR_USED"
        /\ state # "ALLOC_DONE" /\ UNCHANGED scanVars
        /\ bitmap[i] = "START" => state' = "SKIP"
        /\ bitmap[i] # "START" => state' = "INIT"
    BY DEF TypeOK, AllocBoundary, AllocScanning, AfterBoundary, View, Word, status
  <1>2. TypeOK' BY <1>1 DEF TypeOK, AllocBoundary, scanVars, ScanState, Word
  <1>3. WF(View)' BY <1>1
  <1>4. Covered(bitmap, i) /\ (bitmap[i] = "START" => Inside(bitmap, i + 1))
        /\ (bitmap[i] # "START" => NoStraddle(bitmap, i + 1))
    BY <1>1, ScanBoundary DEF TypeOK
  <1>5. ScanInv' BY <1>1, <1>4 DEF ScanInv, Scanning, scanVars, TypeOK
  <1>6. AllocInv'
    <2>1. RunStartsAt(bitmap, i + 1) BY <1>1, <1>4 DEF RunStartsAt, Word
    <2>2. num_words > 0 => NoRunBefore(bitmap, i + 1, num_words)
      BY <1>1, <1>4, NoRunPastCovered DEF AllocInv, TypeOK
    <2>3. num_words' = num_words BY <1>1 DEF scanVars
    <2> QED BY <1>1, <2>1, <2>2, <2>3 DEF AllocInv
  <1>7. CountInv' /\ FreeInv' BY <1>1 DEF CountInv, FreeInv
  <1> QED BY <1>2, <1>3, <1>5, <1>6, <1>7

LEMMA StepAllocRunBegins == ASSUME IInv, AllocRunBegins PROVE IInv'
  <1> USE MemorySizeAssumption, RequestsAssumption DEF IInv
  <1>1. /\ i \in Word /\ i' = i + 1 /\ bitmap' = bitmap /\ pc = "allocate" /\ pc' = pc
        /\ View = bitmap /\ View' = bitmap /\ bitmap[i] = "FREE_OR_USED"
        /\ state = "INIT" /\ start_ix' = i /\ num_words' = num_words
        /\ sum_length' = sum_length /\ num_words \in Nat
        /\ num_words = 1 => end_ix' = i /\ state' = "ALLOC_DONE" /\ free_length' = free_length
        /\ num_words # 1 => state' = "FREE_LENGTH_CHECK" /\ free_length' = 1
    BY DEF TypeOK, AllocRunBegins, AllocScanning, View, Word, status
  <1>2. TypeOK' BY DEF TypeOK, AllocRunBegins, AllocScanning, ScanState, Word
  <1>3. WF(View)' BY <1>1
  <1>4. ~ Covered(bitmap, i) /\ NoStraddle(bitmap, i + 1)
    BY <1>1, ScanPlain DEF TypeOK, ScanInv, Scanning
  <1>5. ScanInv' BY <1>1, <1>4 DEF ScanInv, Scanning, TypeOK
  <1>6. AllocInv'
    <2>1. CASE num_words = 1
      <3>1. FreeRun(bitmap, i, 1) BY <1>1, <1>4 DEF FreeRun, Word
      <3>2. \A q \in 0 .. i - 1 : ~ FreeRun(bitmap, q, 1)
        BY <1>1, <2>1 DEF AllocInv, NoRunBefore, Word
      <3> QED BY <1>1, <2>1, <3>1, <3>2 DEF AllocInv, Word
    <2>2. CASE num_words # 1
      <3>1. RunStartsAt(bitmap, i) BY <1>1 DEF AllocInv
      <3>2. ASSUME num_words > 0 PROVE NoRunBefore(bitmap, i + 1, num_words)
        <4> SUFFICES ASSUME NEW p \in Word, p + num_words <= i + 1,
                            FreeRun(bitmap, p, num_words)
                     PROVE  FALSE
          BY DEF NoRunBefore
        <4>1. p + num_words = i + 1
          BY <1>1, <3>2 DEF AllocInv, NoRunBefore, Word
        <4>2. p < i BY <1>1, <2>2, <3>2, <4>1 DEF Word
        <4>3. i - 1 \in p .. p + num_words - 1 BY <1>1, <4>1, <4>2 DEF Word
        <4> QED BY <1>1, <3>1, <3>2, <4>2, <4>3 DEF RunStartsAt, FreeRun, Word
      <3>3. \A k \in i .. i + 1 - 1 : ~ Covered(bitmap, k) BY <1>1, <1>4 DEF Word
      <3> QED BY <1>1, <2>2, <3>1, <3>2, <3>3 DEF AllocInv, Word
    <2> QED BY <2>1, <2>2
  <1>7. CountInv' /\ FreeInv' BY <1>1 DEF CountInv, FreeInv
  <1> QED BY <1>2, <1>3, <1>5, <1>6, <1>7

LEMMA StepAllocRunGrows == ASSUME IInv, AllocRunGrows PROVE IInv'
  <1> USE MemorySizeAssumption, RequestsAssumption DEF IInv
  <1>1. /\ i \in Word /\ i' = i + 1 /\ bitmap' = bitmap /\ pc = "allocate" /\ pc' = pc
        /\ View = bitmap /\ View' = bitmap /\ bitmap[i] = "FREE_OR_USED"
        /\ state = "FREE_LENGTH_CHECK" /\ start_ix' = start_ix /\ start_ix \in Word
        /\ num_words' = num_words /\ sum_length' = sum_length /\ num_words \in Nat
        /\ free_length' = free_length + 1 /\ free_length \in Nat
        /\ free_length + 1 = num_words => end_ix' = i /\ state' = "ALLOC_DONE"
        /\ free_length + 1 # num_words => state' = state
    BY DEF TypeOK, AllocRunGrows, AllocScanning, View, Word, status
  <1>2. /\ start_ix < i /\ free_length = i - start_ix
        /\ num_words > 0 => free_length < num_words
        /\ \A k \in start_ix .. i - 1 : ~ Covered(bitmap, k)
        /\ RunStartsAt(bitmap, start_ix)
        /\ num_words > 0 => NoRunBefore(bitmap, i, num_words)
    BY <1>1 DEF AllocInv
  <1>3. TypeOK'
    BY <1>1, <1>2 DEF TypeOK, AllocRunGrows, AllocScanning, ScanState, Word
  <1>4. WF(View)' BY <1>1
  <1>5. ~ Covered(bitmap, i) /\ NoStraddle(bitmap, i + 1)
    BY <1>1, ScanPlain DEF TypeOK, ScanInv, Scanning
  <1>6. ScanInv' BY <1>1, <1>2, <1>5 DEF ScanInv, Scanning, TypeOK, Word
  <1>7. \A k \in start_ix .. i : ~ Covered(bitmap, k) BY <1>1, <1>2, <1>5 DEF Word
  <1>8. ASSUME NEW p \in Word, p < start_ix, FreeRun(bitmap, p, num_words),
               num_words > 0
        PROVE  p + num_words <= i
    <2>1. ~ (start_ix - 1 \in p .. p + num_words - 1)
      BY <1>1, <1>2, <1>8 DEF RunStartsAt, FreeRun, Word
    <2> QED BY <1>1, <1>2, <1>8, <2>1 DEF Word
  <1>9. AllocInv'
    <2>1. CASE free_length + 1 = num_words
      <3>1. end_ix' = start_ix + num_words - 1 /\ FreeRun(bitmap, start_ix, num_words)
        BY <1>1, <1>2, <1>7, <2>1 DEF FreeRun, Word
      <3>2. \A q \in 0 .. start_ix - 1 : ~ FreeRun(bitmap, q, num_words)
        BY <1>1, <1>2, <1>8, <2>1 DEF NoRunBefore, Word
      <3> QED BY <1>1, <2>1, <3>1, <3>2 DEF AllocInv
    <2>2. CASE free_length + 1 # num_words
      <3>1. ASSUME num_words > 0 PROVE NoRunBefore(bitmap, i + 1, num_words)
        <4> SUFFICES ASSUME NEW p \in Word, p + num_words <= i + 1,
                            FreeRun(bitmap, p, num_words)
                     PROVE  FALSE
          BY DEF NoRunBefore
        <4>1. p + num_words = i + 1 BY <1>1, <1>2, <3>1 DEF NoRunBefore, Word
        <4>2. p < start_ix BY <1>1, <1>2, <2>2, <3>1, <4>1 DEF Word
        <4> QED BY <1>1, <1>8, <3>1, <4>1, <4>2 DEF Word
      <3> QED BY <1>1, <1>2, <1>7, <2>2, <3>1 DEF AllocInv, Word
    <2> QED BY <2>1, <2>2
  <1>10. CountInv' /\ FreeInv' BY <1>1 DEF CountInv, FreeInv
  <1> QED BY <1>3, <1>4, <1>6, <1>9, <1>10

LEMMA StepAllocSkip == ASSUME IInv, AllocSkip PROVE IInv'
  <1> USE MemorySizeAssumption, RequestsAssumption DEF IInv
  <1>1. /\ i \in Word /\ i' = i + 1 /\ bitmap' = bitmap /\ pc = "allocate" /\ pc' = pc
        /\ View = bitmap /\ View' = bitmap /\ bitmap[i] = "FREE_OR_USED"
        /\ state = "SKIP" /\ state' = state /\ UNCHANGED scanVars
    BY DEF TypeOK, AllocSkip, AllocScanning, View, Word, status
  <1>2. TypeOK' BY <1>1 DEF TypeOK, AllocSkip, scanVars, Word
  <1>3. WF(View)' BY <1>1
  <1>4. Covered(bitmap, i) /\ Inside(bitmap, i + 1)
    BY <1>1, ScanPlain DEF TypeOK, ScanInv, Scanning
  <1>5. ScanInv' BY <1>1, <1>4 DEF ScanInv, Scanning, scanVars, TypeOK
  <1>6. AllocInv'
    <2>1. RunStartsAt(bitmap, i + 1) BY <1>1, <1>4 DEF RunStartsAt, Word
    <2>2. num_words > 0 => NoRunBefore(bitmap, i + 1, num_words)
      BY <1>1, <1>4, NoRunPastCovered DEF AllocInv, TypeOK
    <2>3. num_words' = num_words BY <1>1 DEF scanVars
    <2> QED BY <1>1, <2>1, <2>2, <2>3 DEF AllocInv
  <1>7. CountInv' /\ FreeInv' BY <1>1 DEF CountInv, FreeInv
  <1> QED BY <1>2, <1>3, <1>5, <1>6, <1>7

\* After a return every local is reset, so only the bitmap matters.
LEMMA AfterReturn ==
  ASSUME IInv, NEW op, NEW v, Return(op, v),
         op \in {"allocate", "free", "num_free"}, v \in Int,
         bitmap' \in [Word -> Status], WF(bitmap')
  PROVE  IInv'
  <1> USE MemorySizeAssumption, RequestsAssumption DEF Return
  <1>1. TypeOK' BY DEF TypeOK, ScanState, Word
  <1>2. WF(View)' BY DEF View
  <1> QED BY <1>1, <1>2 DEF IInv, ScanInv, AllocInv, CountInv, FreeInv, Scanning

LEMMA StepAllocReturn == ASSUME IInv, AllocReturn PROVE IInv'
  <1> USE MemorySizeAssumption, RequestsAssumption DEF IInv
  <1>1. pc = "allocate" /\ View = bitmap BY DEF AllocReturn, View
  <1>2. CASE state = "ALLOC_DONE"
    <2>1. /\ num_words > 0 /\ end_ix = start_ix + num_words - 1
          /\ FreeRun(bitmap, start_ix, num_words)
      BY <1>1, <1>2 DEF AllocInv
    <2>2. num_words \in Nat /\ start_ix \in Word /\ end_ix \in Word
          /\ bitmap \in [Word -> Status]
      BY DEF TypeOK
    <2>3. bitmap' \in [Word -> Status] /\ WF(bitmap')
      BY <1>1, <1>2, <2>1, <2>2, MarkAddsBlock DEF AllocReturn
    <2> QED BY <1>2, <2>2, <2>3, AfterReturn DEF AllocReturn, Word
  <1>3. CASE state # "ALLOC_DONE"
    <2>1. bitmap' \in [Word -> Status] /\ WF(bitmap')
      BY <1>1, <1>3 DEF AllocReturn, TypeOK
    <2>2. NULL \in Int BY DEF NULL
    <2> QED BY <1>3, <2>1, <2>2, AfterReturn DEF AllocReturn
  <1> QED BY <1>2, <1>3

LEMMA StepFree == ASSUME IInv, NEW w \in Word, memory_free(w) PROVE IInv'
  <1> USE MemorySizeAssumption, RequestsAssumption DEF IInv
  <1>1. pc = "idle" /\ View = bitmap /\ bitmap \in [Word -> Status] /\ state = "INIT"
        /\ i = 0 /\ free_length = 0 /\ sum_length = 0
    BY DEF memory_free, View, TypeOK, ScanInv
  <1>2. CASE status(w) = "START"
    <2>1. /\ bitmap' = [bitmap EXCEPT ![w] = "FREE_OR_USED"]
          /\ pc' = "free" /\ ix' = w /\ i' = w
          /\ UNCHANGED <<state, start_ix, end_ix, free_length, num_words, sum_length, ret>>
      BY <1>2 DEF memory_free
    <2>2. bitmap[w] = "START" BY <1>2 DEF status
    <2>3. View' = bitmap BY <1>1, <2>1, <2>2 DEF View
    <2>4. PICK e \in Word : w < e /\ IsBlock(bitmap, w, e) BY <1>1, <2>2 DEF WF
    <2>5. TypeOK' BY <1>1, <2>1 DEF TypeOK, Status, Word
    <2>6. FreeInv' BY <1>1, <2>1, <2>3, <2>4 DEF FreeInv, Word
    <2>7. WF(View)' BY <1>1, <2>3
    <2>8. ScanInv' /\ AllocInv' /\ CountInv'
      BY <1>1, <2>1 DEF ScanInv, AllocInv, CountInv, Scanning, Word
    <2> QED BY <2>5, <2>6, <2>7, <2>8
  <1>3. CASE status(w) = "START_END"
    <2>1. bitmap' = [bitmap EXCEPT ![w] = "FREE_OR_USED"] /\ Return("free", 1)
      BY <1>3 DEF memory_free
    <2>2. IsBlock(bitmap, w, w) BY <1>3 DEF IsBlock, status
    <2>3. bitmap' \in [Word -> Status] BY <1>1, <2>1 DEF Status
    <2>4. bitmap' = EraseBlock(bitmap, w, w) BY <1>1, <2>1 DEF EraseBlock
    <2>5. WF(bitmap') BY <1>1, <2>2, <2>3, <2>4, EraseRemovesBlock
    <2>6. 1 \in Int OBVIOUS
    <2> QED BY <2>1, <2>3, <2>5, <2>6, AfterReturn
  <1>4. CASE status(w) \notin {"START", "START_END"}
    <2>1. bitmap' = bitmap /\ Return("free", 0) BY <1>4 DEF memory_free
    <2> QED BY <1>1, <2>1, AfterReturn
  <1> QED BY <1>2, <1>3, <1>4

LEMMA StepFreeScan == ASSUME IInv, FreeScan PROVE IInv'
  <1> USE MemorySizeAssumption, RequestsAssumption DEF IInv
  <1>1. /\ pc = "free" /\ pc' = pc /\ i \in Word /\ i' = i + 1 /\ bitmap' = bitmap
        /\ bitmap[i] # "END" /\ state' = state /\ UNCHANGED scanVars /\ ret' = ret
    BY DEF FreeScan, TypeOK, Word, status
  <1>2. View' = View BY <1>1 DEF View, scanVars
  <1>3. TypeOK' BY <1>1 DEF TypeOK, scanVars, Word
  <1>4. PICK e \in Word : i <= e /\ ix < e /\ ix <= i /\ IsBlock(View, ix, e)
    BY <1>1 DEF FreeInv
  <1>5. e # i
    <2>1. View[e] = "END" /\ View[e] = bitmap[e] BY <1>1, <1>4 DEF View, IsBlock, TypeOK, Word
    <2> QED BY <1>1, <2>1
  <1>6. FreeInv' BY <1>1, <1>2, <1>4, <1>5 DEF FreeInv, scanVars, Word, TypeOK
  <1>7. WF(View)' BY <1>2
  <1>8. ScanInv' /\ AllocInv' /\ CountInv'
    BY <1>1 DEF ScanInv, AllocInv, CountInv, Scanning, scanVars, TypeOK
  <1> QED BY <1>3, <1>6, <1>7, <1>8

\* The END that memory_free erases belongs to the block it is freeing.
LEMMA FreeEndErases ==
  ASSUME IInv, FreeEnd
  PROVE  /\ i \in Word /\ ix \in Word /\ IsBlock(View, ix, i)
         /\ View \in [Word -> Status]
         /\ bitmap' \in [Word -> Status]
         /\ bitmap' = EraseBlock(View, ix, i)
  <1> USE MemorySizeAssumption DEF IInv
  <1>1. /\ pc = "free" /\ i \in Word /\ ix \in Word /\ bitmap[i] = "END"
        /\ bitmap' = [bitmap EXCEPT ![i] = "FREE_OR_USED"]
        /\ bitmap \in [Word -> Status] /\ bitmap[ix] = "FREE_OR_USED"
    BY DEF FreeEnd, TypeOK, Word, status, FreeInv
  <1>2. View = [bitmap EXCEPT ![ix] = "START"] /\ View \in [Word -> Status]
    BY <1>1 DEF View, Status
  <1>3. PICK e \in Word : i <= e /\ ix < e /\ ix <= i /\ IsBlock(View, ix, e)
    BY <1>1 DEF FreeInv
  <1>4. ix # i /\ View[i] = "END" BY <1>1, <1>2
  <1>5. e = i BY <1>1, <1>3, <1>4 DEF IsBlock, Word
  <1>6. bitmap' = EraseBlock(View, ix, i) BY <1>1, <1>2, <1>4 DEF EraseBlock
  <1>7. bitmap' \in [Word -> Status] BY <1>1 DEF Status
  <1> QED BY <1>1, <1>2, <1>3, <1>5, <1>6, <1>7

LEMMA StepFreeEnd == ASSUME IInv, FreeEnd PROVE IInv'
  <1>1. WF(bitmap') BY FreeEndErases, EraseRemovesBlock DEF IInv
  <1>2. 1 \in Int OBVIOUS
  <1>3. Return("free", 1) BY DEF FreeEnd
  <1>4. bitmap' \in [Word -> Status] BY FreeEndErases
  <1> QED BY <1>1, <1>2, <1>3, <1>4, AfterReturn

LEMMA StepCount == ASSUME IInv, CountStep PROVE IInv'
  <1> USE MemorySizeAssumption, RequestsAssumption DEF IInv
  <1>1. /\ pc = "num_free" /\ pc' = pc /\ i \in Word /\ i' = i + 1 /\ bitmap' = bitmap
        /\ View = bitmap /\ View' = bitmap /\ state \in {"INIT", "FREE_LENGTH_CHECK", "SKIP"}
        /\ free_length' = free_length /\ sum_length \in Nat /\ bitmap \in [Word -> Status]
    BY DEF CountStep, TypeOK, View, Word, ScanInv, ScanState
  <1>2. sum_length = Cardinality({k \in 0 .. i - 1 : ~ Covered(bitmap, k)})
    BY <1>1 DEF CountInv
  <1>3. i \in Nat BY <1>1 DEF Word
  <1>4. CASE bitmap[i] # "FREE_OR_USED"
    <2>1. /\ sum_length' = sum_length
          /\ bitmap[i] = "START" => state' = "SKIP"
          /\ bitmap[i] # "START" => state' = "INIT"
      BY <1>4 DEF CountStep, status, AfterBoundary
    <2>2. Covered(bitmap, i) /\ (bitmap[i] = "START" => Inside(bitmap, i + 1))
          /\ (bitmap[i] # "START" => NoStraddle(bitmap, i + 1))
      BY <1>1, <1>4, ScanBoundary
    <2>3. CountInv'
      <3>1. sum_length' = Cardinality({k \in 0 .. (i + 1) - 1 : ~ Covered(bitmap, k)})
        BY <1>2, <1>3, <2>1, <2>2, CountOne
      <3> QED BY <1>1, <3>1 DEF CountInv
    <2>4. ScanInv' BY <1>1, <2>1, <2>2 DEF ScanInv, Scanning, TypeOK
    <2>5. TypeOK' BY <1>1, <2>1 DEF TypeOK, CountStep, ScanState, Word
    <2> QED BY <1>1, <2>3, <2>4, <2>5 DEF AllocInv, FreeInv
  <1>5. CASE bitmap[i] = "FREE_OR_USED" /\ state = "SKIP"
    <2>1. sum_length' = sum_length /\ state' = state BY <1>5 DEF CountStep, status
    <2>2. Covered(bitmap, i) /\ Inside(bitmap, i + 1)
      BY <1>1, <1>5, ScanPlain DEF ScanInv, Scanning
    <2>3. CountInv'
      <3>1. sum_length' = Cardinality({k \in 0 .. (i + 1) - 1 : ~ Covered(bitmap, k)})
        BY <1>2, <1>3, <2>1, <2>2, CountOne
      <3> QED BY <1>1, <3>1 DEF CountInv
    <2>4. ScanInv' BY <1>1, <1>5, <2>1, <2>2 DEF ScanInv, Scanning, TypeOK
    <2>5. TypeOK' BY <1>1, <2>1 DEF TypeOK, CountStep, Word
    <2> QED BY <1>1, <2>3, <2>4, <2>5 DEF AllocInv, FreeInv
  <1>6. CASE bitmap[i] = "FREE_OR_USED" /\ state # "SKIP"
    <2>1. sum_length' = sum_length + 1 /\ state' = "FREE_LENGTH_CHECK"
      BY <1>6 DEF CountStep, status
    <2>2. ~ Covered(bitmap, i) /\ NoStraddle(bitmap, i + 1)
      BY <1>1, <1>6, ScanPlain DEF ScanInv, Scanning
    <2>3. CountInv'
      <3>1. sum_length' = Cardinality({k \in 0 .. (i + 1) - 1 : ~ Covered(bitmap, k)})
        BY <1>2, <1>3, <2>1, <2>2, CountOne
      <3> QED BY <1>1, <3>1 DEF CountInv
    <2>4. ScanInv' BY <1>1, <2>1, <2>2 DEF ScanInv, Scanning, TypeOK
    <2>5. TypeOK' BY <1>1, <2>1 DEF TypeOK, CountStep, ScanInv, ScanState, Word
    <2> QED BY <1>1, <2>3, <2>4, <2>5 DEF AllocInv, FreeInv
  <1> QED BY <1>4, <1>5, <1>6

LEMMA StepCountReturn == ASSUME IInv, CountReturn PROVE IInv'
  <1>1. pc = "num_free" /\ View = bitmap /\ bitmap' = bitmap
        /\ Return("num_free", sum_length) /\ sum_length \in Int
    BY MemorySizeAssumption DEF CountReturn, View, IInv, TypeOK
  <1> QED BY <1>1, AfterReturn DEF IInv, TypeOK

LEMMA NextInv == IInv /\ [Next]_vars => IInv'
  <1> SUFFICES ASSUME IInv, [Next]_vars PROVE IInv' OBVIOUS
  <1>1. CASE UNCHANGED vars
    BY <1>1 DEF vars, IInv, TypeOK, View, ScanInv, AllocInv, CountInv, FreeInv, Scanning
  <1>2. CASE Next
    BY <1>2, StepIdle, StepAllocBoundary, StepAllocRunBegins, StepAllocRunGrows,
       StepAllocSkip, StepAllocReturn, StepFree, StepFreeScan, StepFreeEnd,
       StepCount, StepCountReturn DEF Next
  <1> QED BY <1>1, <1>2

\* The scans of memory.c keep the invariant, whatever the calls.
THEOREM Invariance == Spec => []IInv
  BY InitInv, NextInv, PTL DEF Spec

\* The locals of every scan stay in range in every state of the allocator.
THEOREM TypeCorrect == Spec => []TypeOK
  BY Invariance, PTL DEF IInv

\* The bitmap parses in every state, also while memory_free is half done.
THEOREM BitmapWellFormed == Spec => []WellFormed
  <1>1. IInv => WellFormed BY DEF IInv, WF, WellFormed
  <1> QED BY <1>1, Invariance, PTL

\* memory_allocate never hands out a word of a live block.
THEOREM AllocationIsFresh == Spec => []HandsOutFreeWords
  <1>1. IInv => HandsOutFreeWords BY DEF IInv, AllocInv, HandsOutFreeWords
  <1> QED BY <1>1, Invariance, PTL

\* memory_allocate returns NULL only when no run of free words is long enough.
THEOREM AllocationIsComplete == Spec => []FailsOnlyWhenFull
  <1>1. IInv => FailsOnlyWhenFull
    <2> SUFFICES ASSUME IInv, pc = "allocate", ~ AllocScanning, state # "ALLOC_DONE",
                        num_words > 0, NEW p \in Word, FreeRun(bitmap, p, num_words)
                 PROVE  FALSE
      BY DEF FailsOnlyWhenFull
    <2>1. i = memory_size
      BY MemorySizeAssumption DEF AllocScanning, IInv, TypeOK
    <2>2. NoRunBefore(bitmap, memory_size, num_words) BY <2>1 DEF IInv, AllocInv
    <2> QED BY <2>2 DEF NoRunBefore, FreeRun
  <1> QED BY <1>1, Invariance, PTL

\* The scan of memory_free stays within the block that is being freed.
THEOREM FreeIsLocal == Spec => []FreeStaysInBlock
  <1>1. IInv => FreeStaysInBlock BY DEF IInv, FreeInv, FreeStaysInBlock
  <1> QED BY <1>1, Invariance, PTL

(***************************************************************************)
(* Memory implements MemoryAbs                                             *)
(***************************************************************************)
LEMMA AbsFreeWord ==
  ASSUME View \in [Word -> Status], NEW k \in Word
  PROVE  Abs!FreeWord(k) <=> ~ Covered(View, k)
  <1>1. \A b \in Blocks(View) : b[1] \in Word /\ b[2] \in Word /\ IsBlock(View, b[1], b[2])
    BY DEF Blocks
  <1>2. \A s \in Word, e \in Word : IsBlock(View, s, e) => <<s, e>> \in Blocks(View)
    BY DEF Blocks
  <1>3. ASSUME Covered(View, k) PROVE ~ Abs!FreeWord(k)
    <2>1. PICK s \in Word, e \in Word : IsBlock(View, s, e) /\ s <= k /\ k <= e
      BY <1>3, CoveredByBlock
    <2>2. <<s, e>> \in Blocks(View) BY <1>2, <2>1
    <2>3. <<s, e>>[1] = s /\ <<s, e>>[2] = e OBVIOUS
    <2>4. ~ (k < <<s, e>>[1] \/ k > <<s, e>>[2])
      BY <2>1, MemorySizeAssumption DEF Word
    <2> QED BY <2>2, <2>4 DEF Abs!FreeWord
  <1>4. ASSUME ~ Covered(View, k) PROVE Abs!FreeWord(k)
    <2> SUFFICES ASSUME NEW b \in Blocks(View) PROVE k < b[1] \/ k > b[2]
      BY DEF Abs!FreeWord
    <2> QED BY <1>1, <1>4, CoveredByBlock, MemorySizeAssumption DEF Word
  <1> QED BY <1>3, <1>4

LEMMA AbsHole ==
  ASSUME View \in [Word -> Status], NEW p \in Word, NEW n \in Nat
  PROVE  Abs!Hole(p, n) <=> FreeRun(View, p, n)
  <1>1. p + n <= memory_size => \A k \in p .. p + n - 1 : k \in Word
    BY MemorySizeAssumption DEF Word
  <1> QED BY <1>1, AbsFreeWord DEF Abs!Hole, FreeRun

LEMMA AbsAllocReturn ==
  ASSUME IInv, AllocReturn
  PROVE  \E n \in Requests : Abs!Allocate(n) \/ Abs!Refuse(n)
  <1> USE MemorySizeAssumption, RequestsAssumption
  <1>1. pc = "allocate" /\ View = bitmap /\ View' = bitmap'
        /\ bitmap \in [Word -> Status] /\ WF(bitmap)
    BY DEF AllocReturn, View, Return, IInv, TypeOK
  <1>2. CASE state = "ALLOC_DONE"
    <2>1. /\ num_words \in Nat /\ num_words \in Requests /\ num_words > 0
          /\ start_ix \in Word /\ end_ix \in Word
          /\ end_ix = start_ix + num_words - 1 /\ FreeRun(bitmap, start_ix, num_words)
          /\ \A q \in 0 .. start_ix - 1 : ~ FreeRun(bitmap, q, num_words)
      BY <1>1, <1>2 DEF IInv, TypeOK, AllocInv
    <2>2. bitmap' = MarkBlock(bitmap, start_ix, end_ix) /\ ret' = <<"allocate", start_ix>>
      BY <1>2 DEF AllocReturn, Return
    <2>3. \A a \in Word, b \in Word :
            IsBlock(bitmap', a, b) <=> IsBlock(bitmap, a, b) \/ (a = start_ix /\ b = end_ix)
      BY <1>1, <2>1, <2>2, MarkAddsBlock
    <2>4. Blocks(bitmap') = Blocks(bitmap) \cup {<<start_ix, end_ix>>}
      <3>1. ASSUME NEW c \in Word \X Word
            PROVE  c \in Blocks(bitmap') <=> c \in Blocks(bitmap) \/ c = <<start_ix, end_ix>>
        <4>1. /\ c[1] \in Word /\ c[2] \in Word
              /\ c = <<start_ix, end_ix>> <=> c[1] = start_ix /\ c[2] = end_ix
          OBVIOUS
        <4> QED BY <2>3, <4>1 DEF Blocks
      <3>2. \A bm2 : Blocks(bm2) \subseteq Word \X Word BY DEF Blocks
      <3> QED BY <2>1, <3>1, <3>2
    <2>5. Abs!Hole(start_ix, num_words) BY <1>1, <2>1, AbsHole
    <2>6. \A q \in 0 .. start_ix - 1 : ~ Abs!Hole(q, num_words)
      <3>1. \A q \in 0 .. start_ix - 1 : q \in Word BY <2>1 DEF Word
      <3> QED BY <1>1, <2>1, <3>1, AbsHole
    <2>7. Abs!Allocate(num_words)
      BY <1>1, <2>1, <2>2, <2>4, <2>5, <2>6 DEF Abs!Allocate, Abs!Word, Word
    <2> QED BY <2>1, <2>7
  <1>3. CASE state # "ALLOC_DONE"
    <2>1. ret' = <<"allocate", NULL>> /\ bitmap' = bitmap
      BY <1>3 DEF AllocReturn, Return
    <2>2. num_words > 0 => \A p \in Word : ~ FreeRun(bitmap, p, num_words)
      <3>1. i = memory_size BY <1>1, <1>3 DEF AllocReturn, AllocScanning, IInv, TypeOK
      <3>2. num_words > 0 => NoRunBefore(bitmap, memory_size, num_words)
        BY <1>1, <1>3, <3>1 DEF IInv, AllocInv
      <3> QED BY <3>2 DEF NoRunBefore, FreeRun
    <2>3. num_words \in Nat BY DEF IInv, TypeOK
    <2>4. num_words = 0 \/ \A p \in Word : ~ Abs!Hole(p, num_words)
      BY <1>1, <2>2, <2>3, AbsHole
    <2>5. Abs!Refuse(num_words)
      BY <1>1, <2>1, <2>4 DEF Abs!Refuse, Abs!Word, Word, NULL, Abs!NULL
    <2>6. num_words \in Requests BY <1>1 DEF IInv, AllocInv
    <2> QED BY <2>5, <2>6
  <1> QED BY <1>2, <1>3

LEMMA AbsErase ==
  ASSUME NEW bm \in [Word -> Status], WF(bm), NEW s \in Word, NEW e \in Word,
         IsBlock(bm, s, e)
  PROVE  /\ <<s, e>> \in Blocks(bm)
         /\ Blocks(EraseBlock(bm, s, e)) = Blocks(bm) \ {<<s, e>>}
  <1>1. \A a \in Word, b \in Word :
          IsBlock(EraseBlock(bm, s, e), a, b) <=>
            IsBlock(bm, a, b) /\ ~ (a = s /\ b = e)
    BY EraseRemovesBlock
  <1>2. ASSUME NEW c \in Word \X Word
        PROVE  c \in Blocks(EraseBlock(bm, s, e)) <=> c \in Blocks(bm) /\ c # <<s, e>>
    <2>1. c[1] \in Word /\ c[2] \in Word /\ (c = <<s, e>> <=> c[1] = s /\ c[2] = e)
      OBVIOUS
    <2> QED BY <1>1, <2>1 DEF Blocks
  <1>3. \A bm2 : Blocks(bm2) \subseteq Word \X Word BY DEF Blocks
  <1> QED BY <1>2, <1>3 DEF Blocks

LEMMA AbsFreeEnd ==
  ASSUME IInv, FreeEnd
  PROVE  \E w \in Word : Abs!Free(w)
  <1>1. View' = bitmap' /\ ret' = <<"free", 1>> BY DEF FreeEnd, Return, View
  <1>2. <<ix, i>> \in Blocks(View) /\ Blocks(bitmap') = Blocks(View) \ {<<ix, i>>}
    BY FreeEndErases, AbsErase DEF IInv
  <1>3. <<ix, i>>[1] = ix OBVIOUS
  <1>4. Abs!Free(ix) BY <1>1, <1>2, <1>3 DEF Abs!Free
  <1> QED BY <1>4, FreeEndErases

LEMMA AbsFree ==
  ASSUME IInv, NEW w \in Word, memory_free(w)
  PROVE  Abs!Free(w) \/ Abs!Reject(w) \/ UNCHANGED Abs!absVars
  <1> USE MemorySizeAssumption
  <1>1. pc = "idle" /\ View = bitmap /\ bitmap \in [Word -> Status] /\ WF(bitmap)
    BY DEF memory_free, View, IInv, TypeOK
  <1>2. CASE status(w) = "START"
    <2>1. /\ bitmap' = [bitmap EXCEPT ![w] = "FREE_OR_USED"]
          /\ pc' = "free" /\ ix' = w /\ ret' = ret
      BY <1>2 DEF memory_free
    <2>2. View' = bitmap BY <1>1, <1>2, <2>1 DEF View, status
    <2> QED BY <1>1, <2>1, <2>2 DEF Abs!absVars
  <1>3. CASE status(w) = "START_END"
    <2>1. /\ bitmap' = [bitmap EXCEPT ![w] = "FREE_OR_USED"]
          /\ ret' = <<"free", 1>> /\ View' = bitmap'
      BY <1>3 DEF memory_free, Return, View
    <2>2. IsBlock(bitmap, w, w) BY <1>3 DEF IsBlock, status
    <2>3. bitmap' \in [Word -> Status] BY <1>1, <2>1 DEF Status
    <2>4. bitmap' = EraseBlock(bitmap, w, w) BY <1>1, <2>1 DEF EraseBlock
    <2>5. <<w, w>> \in Blocks(bitmap) /\ Blocks(bitmap') = Blocks(bitmap) \ {<<w, w>>}
      BY <1>1, <2>2, <2>3, <2>4, AbsErase
    <2>6. <<w, w>>[1] = w OBVIOUS
    <2>7. Abs!Free(w) BY <1>1, <2>1, <2>5, <2>6 DEF Abs!Free
    <2> QED BY <2>7
  <1>4. CASE status(w) \notin {"START", "START_END"}
    <2>1. bitmap' = bitmap /\ ret' = <<"free", 0>> /\ View' = bitmap'
      BY <1>4 DEF memory_free, Return, View
    <2>2. \A b \in Blocks(bitmap) : b[1] # w
      BY <1>4 DEF Blocks, IsBlock, status
    <2>3. Abs!Reject(w) BY <1>1, <2>1, <2>2 DEF Abs!Reject
    <2> QED BY <2>3
  <1> QED BY <1>2, <1>3, <1>4

LEMMA AbsCountReturn == ASSUME IInv, CountReturn PROVE Abs!NumFree
  <1>1. /\ pc = "num_free" /\ i = memory_size /\ View = bitmap /\ View' = bitmap'
        /\ bitmap' = bitmap /\ ret' = <<"num_free", sum_length>>
        /\ View \in [Word -> Status]
    BY DEF CountReturn, Return, View, IInv, TypeOK
  <1>2. sum_length = Cardinality({k \in Word : ~ Covered(View, k)})
    BY <1>1 DEF IInv, CountInv, Word
  <1>3. {k \in Word : ~ Covered(View, k)} = {k \in Abs!Word : Abs!FreeWord(k)}
    BY <1>1, AbsFreeWord DEF Abs!Word, Word
  <1> QED BY <1>1, <1>2, <1>3 DEF Abs!NumFree, Abs!Cardinality, Cardinality

\* The steps that change neither the blocks nor the last result.
LEMMA AbsStutter ==
  ASSUME \/ \E n \in Requests : memory_allocate(n)
         \/ AllocBoundary \/ AllocRunBegins \/ AllocRunGrows \/ AllocSkip
         \/ FreeScan \/ memory_num_free \/ CountStep
         \/ UNCHANGED vars
  PROVE  UNCHANGED Abs!absVars
  <1>1. View' = View /\ ret' = ret
    BY DEF memory_allocate, AllocBoundary, AllocRunBegins, AllocRunGrows, AllocSkip,
           FreeScan, memory_num_free, CountStep, AllocScanning, scanVars, vars, View
  <1> QED BY <1>1 DEF Abs!absVars

\* Every behaviour of the bitmap scans is one of the abstract allocator:
\* disjoint blocks, lowest hole first, refusal only when nothing fits, whole
\* blocks freed, and an exact count of the free words.
THEOREM Refinement == Spec => ImplementsAbs
  <1>1. Init => Abs!AbsInit
    <2> SUFFICES ASSUME Init PROVE Abs!AbsInit OBVIOUS
    <2>1. Blocks(View) = {} BY DEF Init, View, Blocks, IsBlock
    <2> QED BY <2>1 DEF Init, Abs!AbsInit
  <1>2. IInv /\ [Next]_vars => [Abs!AbsNext]_(Abs!absVars)
    <2> SUFFICES ASSUME IInv, [Next]_vars
                 PROVE  Abs!AbsNext \/ UNCHANGED Abs!absVars
      OBVIOUS
    <2>1. CASE AllocReturn BY <2>1, AbsAllocReturn DEF Abs!AbsNext
    <2>2. CASE FreeEnd BY <2>2, AbsFreeEnd DEF Abs!AbsNext, Abs!Word, Word
    <2>3. CASE CountReturn BY <2>3, AbsCountReturn DEF Abs!AbsNext
    <2>4. ASSUME NEW w \in Word, memory_free(w)
          PROVE  Abs!AbsNext \/ UNCHANGED Abs!absVars
      BY <2>4, AbsFree DEF Abs!AbsNext, Abs!Word, Word
    <2>5. CASE ~ (AllocReturn \/ FreeEnd \/ CountReturn \/ \E w \in Word : memory_free(w))
      BY <2>5, AbsStutter DEF Next
    <2> QED BY <2>1, <2>2, <2>3, <2>4, <2>5
  <1> QED BY <1>1, <1>2, Invariance, PTL DEF Spec, ImplementsAbs, Abs!AbsSpec
=============================================================================
