------------------------------- MODULE Memory -------------------------------
(***************************************************************************)
(* The word allocator of src/src/memory.c.  Two status bits per word of    *)
(* the arena record where a block starts and ends; a word inside a block   *)
(* and a free word both read FREE_OR_USED, so every operation has to scan  *)
(* the bitmap with a little state machine to tell them apart.  One step of *)
(* this specification is one iteration of a scan.                          *)
(***************************************************************************)
EXTENDS Integers, FiniteSets

CONSTANTS memory_size,   \* words of the arena, the bitmap_size << 4 of the loops
          Requests       \* values of num_words that callers ask for

\* memory_init accepts multiples of 16 only; no operation depends on that.
ASSUME MemorySizeAssumption == memory_size \in Nat \ {0}
ASSUME RequestsAssumption == Requests \subseteq Nat

VARIABLES bitmap,        \* the status of every word
          pc,            \* the operation in progress, or "idle"
          state,         \* the scan's state
          i,             \* the scan's index
          start_ix, end_ix, free_length, num_words,   \* memory_allocate
          ix,                                         \* memory_free
          sum_length,                                 \* memory_num_free
          ret            \* <<operation, value>> of the last call to return

vars == <<bitmap, pc, state, i, start_ix, end_ix, free_length, num_words, ix,
          sum_length, ret>>
scanVars == <<start_ix, end_ix, free_length, num_words, ix, sum_length>>

Word == 0 .. memory_size - 1
NULL == -1
Status == {"FREE_OR_USED", "END", "START", "START_END"}
ScanState == {"INIT", "FREE_LENGTH_CHECK", "SKIP", "ALLOC_DONE"}

status(k) == bitmap[k]

\* memory_init: every status is cleared.
Init ==
  /\ bitmap = [k \in Word |-> "FREE_OR_USED"]
  /\ pc = "idle" /\ state = "INIT" /\ i = 0
  /\ start_ix = 0 /\ end_ix = 0 /\ free_length = 0 /\ num_words = 0
  /\ ix = 0 /\ sum_length = 0
  /\ ret = <<"init", 1>>

\* Fault: the count of memory_num_free survives its call.
Return_KeepsCount(op, v) ==
  /\ ret' = <<op, v>>
  /\ pc' = "idle" /\ state' = "INIT" /\ i' = 0
  /\ start_ix' = 0 /\ end_ix' = 0 /\ free_length' = 0 /\ num_words' = 0
  /\ ix' = 0 /\ UNCHANGED sum_length

\* A call returns v; its locals die with it.
Return(op, v) ==
  /\ ret' = <<op, v>>
  /\ pc' = "idle" /\ state' = "INIT" /\ i' = 0
  /\ start_ix' = 0 /\ end_ix' = 0 /\ free_length' = 0 /\ num_words' = 0
  /\ ix' = 0 /\ sum_length' = 0

(***************************************************************************)
(* memory_allocate                                                         *)
(***************************************************************************)
memory_allocate(n) ==
  /\ pc = "idle"
  /\ pc' = "allocate" /\ num_words' = n
  /\ UNCHANGED <<bitmap, state, i, start_ix, end_ix, free_length, ix,
                 sum_length, ret>>

AllocScanning == pc = "allocate" /\ i < memory_size /\ state # "ALLOC_DONE"

\* Fault: the words inside a block are taken for free ones.
AfterBoundary_ForgetsBody(s) == "INIT"
\* Fault: the words behind a block are taken for its body.
AfterBoundary_SkipsOn(s) == IF s \in {"START", "END"} THEN "SKIP" ELSE "INIT"

\* A status other than FREE_OR_USED decides the next state by itself.
AfterBoundary(s) == IF s = "START" THEN "SKIP" ELSE "INIT"

AllocBoundary ==
  /\ AllocScanning
  /\ status(i) # "FREE_OR_USED"
  /\ state' = AfterBoundary(status(i))
  /\ i' = i + 1
  /\ UNCHANGED <<bitmap, pc, ret>> /\ UNCHANGED scanVars

\* The first word of a free run.
AllocRunBegins ==
  /\ AllocScanning
  /\ status(i) = "FREE_OR_USED" /\ state = "INIT"
  /\ start_ix' = i
  /\ IF num_words = 1
       THEN end_ix' = i /\ state' = "ALLOC_DONE" /\ UNCHANGED free_length
       ELSE state' = "FREE_LENGTH_CHECK" /\ free_length' = 1 /\ UNCHANGED end_ix
  /\ i' = i + 1
  /\ UNCHANGED <<bitmap, pc, num_words, ix, sum_length, ret>>

AllocRunGrows ==
  /\ AllocScanning
  /\ status(i) = "FREE_OR_USED" /\ state = "FREE_LENGTH_CHECK"
  /\ free_length' = free_length + 1
  /\ IF free_length' = num_words
       THEN end_ix' = i /\ state' = "ALLOC_DONE"
       ELSE UNCHANGED <<end_ix, state>>
  /\ i' = i + 1
  /\ UNCHANGED <<bitmap, pc, start_ix, num_words, ix, sum_length, ret>>

\* A word in the middle of a block.
AllocSkip ==
  /\ AllocScanning
  /\ status(i) = "FREE_OR_USED" /\ state = "SKIP"
  /\ i' = i + 1
  /\ UNCHANGED <<bitmap, pc, state, ret>> /\ UNCHANGED scanVars

\* Fault: a block of one word is marked like a longer one.
MarkBlock_NoSingle(bm, s, e) == [bm EXCEPT ![s] = "START", ![e] = "END"]

\* The bitmap once the words from s to e have become a block.
MarkBlock(bm, s, e) ==
  IF s = e THEN [bm EXCEPT ![s] = "START_END"]
           ELSE [bm EXCEPT ![s] = "START", ![e] = "END"]

AllocReturn ==
  /\ pc = "allocate" /\ ~ AllocScanning
  /\ IF state = "ALLOC_DONE"
       THEN /\ bitmap' = MarkBlock(bitmap, start_ix, end_ix)
            /\ Return("allocate", start_ix)
       ELSE /\ Return("allocate", NULL)
            /\ UNCHANGED bitmap

(***************************************************************************)
(* memory_free                                                             *)
(***************************************************************************)
\* Fault: an END is accepted as the start of a block.
memory_free_AnyBoundary(w) ==
  /\ pc = "idle"
  /\ \/ /\ status(w) \in {"START", "END"}
        /\ bitmap' = [bitmap EXCEPT ![w] = "FREE_OR_USED"]
        /\ pc' = "free" /\ ix' = w /\ i' = w
        /\ UNCHANGED <<state, start_ix, end_ix, free_length, num_words, sum_length, ret>>
     \/ /\ status(w) = "START_END"
        /\ bitmap' = [bitmap EXCEPT ![w] = "FREE_OR_USED"]
        /\ Return("free", 1)

memory_free(w) ==
  /\ pc = "idle"
  /\ \/ /\ status(w) = "START"
        /\ bitmap' = [bitmap EXCEPT ![w] = "FREE_OR_USED"]
        /\ pc' = "free" /\ ix' = w /\ i' = w
        /\ UNCHANGED <<state, start_ix, end_ix, free_length, num_words,
                       sum_length, ret>>
     \/ /\ status(w) = "START_END"
        /\ bitmap' = [bitmap EXCEPT ![w] = "FREE_OR_USED"]
        /\ Return("free", 1)
     \/ /\ status(w) \notin {"START", "START_END"}
        /\ Return("free", 0)
        /\ UNCHANGED bitmap

FreeScan ==
  /\ pc = "free" /\ i < memory_size
  /\ status(i) # "END"
  /\ i' = i + 1
  /\ UNCHANGED <<bitmap, pc, state, ret>> /\ UNCHANGED scanVars

FreeEnd ==
  /\ pc = "free" /\ i < memory_size
  /\ status(i) = "END"
  /\ bitmap' = [bitmap EXCEPT ![i] = "FREE_OR_USED"]
  /\ Return("free", 1)

(***************************************************************************)
(* memory_num_free                                                         *)
(***************************************************************************)
memory_num_free ==
  /\ pc = "idle"
  /\ pc' = "num_free"
  /\ UNCHANGED <<bitmap, state, i, ret>> /\ UNCHANGED scanVars

\* Fault: the words of a block are counted as free.
CountStep_CountsBodies ==
  /\ pc = "num_free" /\ i < memory_size
  /\ IF status(i) # "FREE_OR_USED"
       THEN state' = AfterBoundary(status(i)) /\ UNCHANGED sum_length
       ELSE sum_length' = sum_length + 1 /\ UNCHANGED state
  /\ i' = i + 1
  /\ UNCHANGED <<bitmap, pc, start_ix, end_ix, free_length, num_words, ix, ret>>

CountStep ==
  /\ pc = "num_free" /\ i < memory_size
  /\ IF status(i) # "FREE_OR_USED"
       THEN state' = AfterBoundary(status(i)) /\ UNCHANGED sum_length
       ELSE IF state = "SKIP"
         THEN UNCHANGED <<state, sum_length>>
         ELSE state' = "FREE_LENGTH_CHECK" /\ sum_length' = sum_length + 1
  /\ i' = i + 1
  /\ UNCHANGED <<bitmap, pc, start_ix, end_ix, free_length, num_words, ix, ret>>

CountReturn ==
  /\ pc = "num_free" /\ i = memory_size
  /\ Return("num_free", sum_length)
  /\ UNCHANGED bitmap

Next ==
  \/ \E n \in Requests : memory_allocate(n)
  \/ AllocBoundary \/ AllocRunBegins \/ AllocRunGrows \/ AllocSkip \/ AllocReturn
  \/ \E w \in Word : memory_free(w)
  \/ FreeScan \/ FreeEnd
  \/ memory_num_free \/ CountStep \/ CountReturn

Spec == Init /\ [][Next]_vars

(***************************************************************************)
(* The blocks the bitmap describes                                         *)
(***************************************************************************)
\* While memory_free looks for the end of a block it has already erased the
\* start; the block is counted as live until its end is erased too.
View == IF pc = "free" THEN [bitmap EXCEPT ![ix] = "START"] ELSE bitmap

IsBlock(bm, s, e) ==
  \/ s = e /\ bm[s] = "START_END"
  \/ /\ s < e /\ bm[s] = "START" /\ bm[e] = "END"
     /\ \A k \in s + 1 .. e - 1 : bm[k] = "FREE_OR_USED"

Blocks(bm) == {b \in Word \X Word : IsBlock(bm, b[1], b[2])}

Covered(bm, k) ==
  \E s \in 0 .. k, e \in k .. memory_size - 1 : IsBlock(bm, s, e)

FreeRun(bm, p, n) ==
  p + n <= memory_size /\ \A k \in p .. p + n - 1 : ~ Covered(bm, k)

(***************************************************************************)
(* Properties                                                              *)
(***************************************************************************)
\* The locals of the scans stay within the arena.
TypeOK ==
  /\ bitmap \in [Word -> Status]
  /\ pc \in {"idle", "allocate", "free", "num_free"}
  /\ state \in ScanState
  /\ i \in 0 .. memory_size
  /\ start_ix \in Word /\ end_ix \in Word
  /\ free_length \in 0 .. memory_size /\ sum_length \in 0 .. memory_size
  /\ num_words \in Requests \cup {0}
  /\ ix \in Word
  /\ ret \in {"init", "allocate", "free", "num_free"} \X Int

\* The bitmap always parses: every START is followed by its own END with
\* nothing but body words between them, and every END closes a block.
\* memory_free relies on it (it clears the nearest END) and so do the scans.
WellFormed ==
  /\ \A s \in Word : View[s] = "START" =>
       \E e \in Word : s < e /\ IsBlock(View, s, e)
  /\ \A e \in Word : View[e] = "END" =>
       \E s \in Word : s < e /\ IsBlock(View, s, e)

\* What memory_allocate is about to hand out lies in no live block.
HandsOutFreeWords ==
  pc = "allocate" /\ state = "ALLOC_DONE" =>
    /\ end_ix = start_ix + num_words - 1
    /\ FreeRun(bitmap, start_ix, num_words)

\* memory_allocate gives up only when no run of num_words free words exists,
\* however the arena is fragmented.
FailsOnlyWhenFull ==
  pc = "allocate" /\ ~ AllocScanning /\ state # "ALLOC_DONE" /\ num_words > 0 =>
    \A p \in Word : ~ FreeRun(bitmap, p, num_words)

\* The scan of memory_free never leaves the block being freed: it cannot run
\* off the arena, nor erase the END of another block.
FreeStaysInBlock ==
  pc = "free" =>
    \E e \in Word : i <= e /\ IsBlock(View, ix, e)

Abs == INSTANCE MemoryAbs WITH blocks <- Blocks(View)

\* The scans over the bitmap implement an allocator of disjoint blocks:
\* lowest hole first, whole blocks freed, exact count of free words.
ImplementsAbs == Abs!AbsSpec
=============================================================================
