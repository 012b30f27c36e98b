-------------------------- MODULE Scheduler_proofs --------------------------
(***************************************************************************)
(* Proofs about the scheduler, for every number of contexts and programs,  *)
(* every clock width and every sleep: the types, that no context is lost   *)
(* or linked twice, and that none runs before it has slept long enough.    *)
(***************************************************************************)
EXTENDS Scheduler, SequenceTheorems, TLAPS

(***************************************************************************)
(* Sequences                                                               *)
(***************************************************************************)
LEMMA AppendFacts ==
  ASSUME NEW S, NEW s \in Seq(S), NEW p \in S
  PROVE  /\ Append(s, p) \in Seq(S) /\ Len(Append(s, p)) = Len(s) + 1
         /\ \A k \in 1 .. Len(s) : Append(s, p)[k] = s[k]
         /\ Append(s, p)[Len(s) + 1] = p /\ Append(s, p) # <<>>
         /\ Elems(Append(s, p)) = Elems(s) \cup {p}
  <1>1. /\ Append(s, p) \in Seq(S) /\ Len(Append(s, p)) = Len(s) + 1
        /\ \A k \in 1 .. Len(s) : Append(s, p)[k] = s[k]
        /\ Append(s, p)[Len(s) + 1] = p /\ Append(s, p) # <<>>
    OBVIOUS
  <1>2. Len(s) \in Nat OBVIOUS
  <1>3. Elems(Append(s, p)) = Elems(s) \cup {p}
    <2>1. ASSUME NEW x \in Elems(Append(s, p)) PROVE x \in Elems(s) \cup {p}
      <3>1. PICK k \in 1 .. Len(s) + 1 : x = Append(s, p)[k] BY <1>1, <2>1 DEF Elems
      <3>2. CASE k = Len(s) + 1 BY <1>1, <3>1, <3>2
      <3>3. CASE k # Len(s) + 1
        <4>1. k \in 1 .. Len(s) BY <1>2, <3>3
        <4> QED BY <1>1, <3>1, <4>1 DEF Elems
      <3> QED BY <3>2, <3>3
    <2>2. ASSUME NEW x \in Elems(s) PROVE x \in Elems(Append(s, p))
      <3>1. PICK k \in 1 .. Len(s) : x = s[k] BY <2>2 DEF Elems
      <3>2. k \in 1 .. Len(s) + 1 BY <1>2
      <3> QED BY <1>1, <3>1, <3>2 DEF Elems
    <2>3. p \in Elems(Append(s, p))
      <3>1. Len(s) + 1 \in 1 .. Len(s) + 1 BY <1>2
      <3> QED BY <1>1, <3>1 DEF Elems
    <2> QED BY <2>1, <2>2, <2>3
  <1> QED BY <1>1, <1>3

LEMMA ConsFacts ==
  ASSUME NEW S, NEW s \in Seq(S), NEW p \in S
  PROVE  /\ <<p>> \o s \in Seq(S) /\ Len(<<p>> \o s) = Len(s) + 1
         /\ (<<p>> \o s)[1] = p /\ <<p>> \o s # <<>>
         /\ \A k \in 1 .. Len(s) : (<<p>> \o s)[k + 1] = s[k]
         /\ Elems(<<p>> \o s) = Elems(s) \cup {p}
  <1> DEFINE t == <<p>> \o s
  <1>0. <<p>> \in Seq(S) /\ Len(<<p>>) = 1 /\ <<p>>[1] = p OBVIOUS
  <1>1. /\ t \in Seq(S) /\ Len(t) = 1 + Len(s)
        /\ \A k \in 1 .. 1 + Len(s) : t[k] = IF k <= 1 THEN <<p>>[k] ELSE s[k - 1]
    BY <1>0, ConcatProperties
  <1>2. Len(s) \in Nat OBVIOUS
  <1>3. t[1] = p /\ t # <<>> BY <1>0, <1>1, <1>2
  <1>4. \A k \in 1 .. Len(s) : t[k + 1] = s[k]
    <2> SUFFICES ASSUME NEW k \in 1 .. Len(s) PROVE t[k + 1] = s[k] OBVIOUS
    <2>1. k + 1 \in 1 .. 1 + Len(s) /\ ~ (k + 1 <= 1) /\ (k + 1) - 1 = k BY <1>2
    <2> HIDE DEF t
    <2> QED BY <1>1, <2>1
  <1>5. Elems(t) = Elems(s) \cup {p}
    <2> HIDE DEF t
    <2>1. ASSUME NEW x \in Elems(t) PROVE x \in Elems(s) \cup {p}
      <3>1. PICK k \in 1 .. 1 + Len(s) : x = t[k] BY <1>1, <2>1 DEF Elems
      <3>2. CASE k = 1 BY <1>3, <3>1, <3>2
      <3>3. CASE k # 1
        <4>1. k - 1 \in 1 .. Len(s) /\ (k - 1) + 1 = k BY <1>2, <3>3
        <4>2. t[k] = s[k - 1] BY <1>4, <4>1
        <4> QED BY <3>1, <4>1, <4>2 DEF Elems
      <3> QED BY <3>2, <3>3
    <2>2. ASSUME NEW x \in Elems(s) PROVE x \in Elems(t)
      <3>1. PICK k \in 1 .. Len(s) : x = s[k] BY <2>2 DEF Elems
      <3>2. k + 1 \in 1 .. Len(t) /\ t[k + 1] = x BY <1>1, <1>2, <1>4, <3>1
      <3> QED BY <3>2 DEF Elems
    <2>3. p \in Elems(t)
      <3>1. 1 \in 1 .. Len(t) BY <1>1, <1>2
      <3> QED BY <1>3, <3>1 DEF Elems
    <2> QED BY <2>1, <2>2, <2>3
  <1> QED BY <1>1, <1>2, <1>3, <1>4, <1>5

Distinct(s) == \A j, k \in 1 .. Len(s) : j # k => s[j] # s[k]

\* Taking out one element of a sequence, at place k.
LEMMA WithoutFacts ==
  ASSUME NEW S, NEW s \in Seq(S), Distinct(s), NEW k \in 1 .. Len(s)
  PROVE  /\ Without(s, s[k]) \in Seq(S) /\ Len(Without(s, s[k])) = Len(s) - 1
         /\ \A j \in 1 .. Len(s) - 1 : Without(s, s[k])[j] = IF j < k THEN s[j] ELSE s[j + 1]
         /\ Elems(Without(s, s[k])) = Elems(s) \ {s[k]}
  <1> DEFINE t == Without(s, s[k])
  <1>1. Len(s) \in Nat \ {0} /\ k \in Nat /\ \A j \in 1 .. Len(s) : s[j] \in S OBVIOUS
  <1>2. s[k] \in Elems(s) BY DEF Elems
  <1>3. (CHOOSE j \in 1 .. Len(s) : s[j] = s[k]) = k BY DEF Distinct
  <1>4. t = [j \in 1 .. Len(s) - 1 |-> IF j < k THEN s[j] ELSE s[j + 1]]
    BY <1>2, <1>3 DEF Without
  <1> HIDE DEF t
  <1>5. \A j \in 1 .. Len(s) - 1 : j \in 1 .. Len(s) /\ j + 1 \in 1 .. Len(s) BY <1>1
  <1>6. t \in [1 .. Len(s) - 1 -> S] BY <1>1, <1>4, <1>5
  <1>7. t \in Seq(S) /\ Len(t) = Len(s) - 1
    <2>1. Len(s) - 1 \in Nat BY <1>1
    <2> QED BY <1>6, <2>1
  <1>8. \A j \in 1 .. Len(s) - 1 : t[j] = IF j < k THEN s[j] ELSE s[j + 1] BY <1>4
  <1>9. Elems(t) = Elems(s) \ {s[k]}
    <2>1. ASSUME NEW x \in Elems(t) PROVE x \in Elems(s) \ {s[k]}
      <3>1. PICK j \in 1 .. Len(s) - 1 : x = t[j] BY <1>7, <2>1 DEF Elems
      <3>2. CASE j < k
        <4>1. j \in 1 .. Len(s) /\ j # k BY <1>1, <3>2
        <4>2. x = s[j] BY <1>8, <3>1, <3>2
        <4> QED BY <4>1, <4>2 DEF Elems, Distinct
      <3>3. CASE ~ (j < k)
        <4>1. j + 1 \in 1 .. Len(s) /\ j + 1 # k BY <1>1, <3>3
        <4>2. x = s[j + 1] BY <1>8, <3>1, <3>3
        <4> QED BY <4>1, <4>2 DEF Elems, Distinct
      <3> QED BY <3>2, <3>3
    <2>2. ASSUME NEW x \in Elems(s) \ {s[k]} PROVE x \in Elems(t)
      <3>1. PICK j \in 1 .. Len(s) : x = s[j] BY <2>2 DEF Elems
      <3>2. j # k BY <2>2, <3>1
      <3>3. CASE j < k
        <4>1. j \in 1 .. Len(t) /\ j \in 1 .. Len(s) - 1 BY <1>1, <1>7, <3>3
        <4> QED BY <1>8, <3>1, <3>3, <4>1 DEF Elems
      <3>4. CASE ~ (j < k)
        <4>1. j - 1 \in 1 .. Len(t) /\ j - 1 \in 1 .. Len(s) - 1 /\ ~ (j - 1 < k)
              /\ (j - 1) + 1 = j
          BY <1>1, <1>7, <3>2, <3>4
        <4>2. t[j - 1] = s[j] BY <1>8, <4>1
        <4> QED BY <3>1, <4>1, <4>2 DEF Elems
      <3> QED BY <3>3, <3>4
    <2> QED BY <2>1, <2>2
  <1> QED BY <1>7, <1>8, <1>9 DEF t

LEMMA ModRange == \A a \in Nat, b \in Nat \ {0} : a % b \in 0 .. b - 1
  OBVIOUS

LEMMA ModNext ==
  \A b \in Nat \ {0} : \A a \in 0 .. b - 1 : (a + 1) % b = IF a + 1 = b THEN 0 ELSE a + 1
  OBVIOUS

LEMMA WithoutType ==
  ASSUME NEW S, NEW s \in Seq(S), NEW p
  PROVE  Without(s, p) \in Seq(S)
  <1>1. CASE p \notin Elems(s) BY <1>1 DEF Without
  <1>2. CASE p \in Elems(s)
    <2> DEFINE k == CHOOSE j \in 1 .. Len(s) : s[j] = p
    <2>1. k \in 1 .. Len(s) BY <1>2 DEF Elems
    <2>2. Without(s, p) = [j \in 1 .. Len(s) - 1 |-> IF j < k THEN s[j] ELSE s[j + 1]]
      BY <1>2 DEF Without
    <2> HIDE DEF k
    <2>3. Len(s) - 1 \in Nat /\ \A j \in 1 .. Len(s) : s[j] \in S BY <2>1
    <2>4. \A j \in 1 .. Len(s) - 1 : j \in 1 .. Len(s) /\ j + 1 \in 1 .. Len(s) BY <2>3
    <2>5. Without(s, p) \in [1 .. Len(s) - 1 -> S] BY <2>2, <2>3, <2>4
    <2> QED BY <2>3, <2>5
  <1> QED BY <1>1, <1>2

(***************************************************************************)
(* Types                                                                   *)
(***************************************************************************)
\* Where the two threads can be, and whom they then have in hand.
Control ==
  /\ pc = "search" => ctx_running # NULL
  /\ pc = "dequeue" => ctx_running = NULL
  /\ cpc = "ready" <=> cnew = NULL

\* Allocations that have failed since the context came to run leave their trace
\* in the flags, and one that comes to WAIT has none: hence at most two.
FailuresFlagged ==
  ctx_running # NULL =>
    /\ failures <= IF perform_gc THEN IF last_iteration_gc THEN 2 ELSE 1 ELSE 0
    /\ wait_for[ctx_running] # NotWaiting => failures = 0

TypeInv == TypeOK /\ Control /\ FailuresFlagged

PtrOrNull == Ptr \cup {NULL}

LEMMA PtrFacts == NULL \notin Ptr /\ Ptr \subseteq Nat /\ NumCtx \in Nat
  BY SchedulerAssumption DEF NULL, Ptr

LEMMA InitTypeInv == Init => TypeInv
  <1> SUFFICES ASSUME Init PROVE TypeInv OBVIOUS
  <1> USE SchedulerAssumption
  <1>1. id \in [Ptr -> 0 .. CidModulus - 1]
    <2>1. \A p \in Ptr : p % CidModulus \in 0 .. CidModulus - 1 BY PtrFacts, ModRange
    <2> QED BY <2>1 DEF Init
  <1>2. qs \in Seq(Ptr)
    <2>1. qs \in [1 .. NumStarted -> Ptr] BY DEF Init, Ptr
    <2> QED BY <2>1
  <1>3. ds \in Seq(Ptr)
    <2>1. <<>> \in Seq(Ptr) OBVIOUS
    <2> QED BY <2>1 DEF Init
  <1>4. /\ prev \in [Ptr -> Ptr \cup {NULL}] /\ next \in [Ptr -> Ptr \cup {NULL}]
        /\ alive \subseteq Ptr
        /\ {ctx_queue, ctx_queue_last, ctx_done, ctx_running, curr, cnew} \subseteq Ptr \cup {NULL}
    BY DEF Init, Ptr, NULL
  <1>5. /\ wait_for \in [Ptr -> Nat \cup {NotWaiting}]
        /\ timestamp \in [Ptr -> 0 .. ClockModulus - 1]
        /\ sleep_us \in [Ptr -> Sleeps \cup {0, WaitSleep}] /\ elapsed \in [Ptr -> 0 .. MaxLag]
        /\ t_now \in 0 .. ClockModulus - 1 /\ now \in 0 .. ClockModulus - 1
    BY DEF Init
  <1>6. /\ next_ctx_id \in Nat \ {0} /\ failures \in 0 .. 2 /\ submitted \in 0 .. NumSubmitted
        /\ pc \in {"loop", "dequeue", "search"}
        /\ cpc \in {"ready", "test", "first", "append", "last"}
    BY DEF Init
  <1>7. perform_gc \in BOOLEAN /\ last_iteration_gc \in BOOLEAN /\ raced \in BOOLEAN
    BY Zenon DEF Init
  <1>8. TypeOK BY <1>1, <1>2, <1>3, <1>4, <1>5, <1>6, <1>7 DEF TypeOK
  <1> QED BY <1>8 DEF TypeInv, Control, FailuresFlagged, Init

\* The fields of one context are overwritten, or the links.
LEMMA EnqueueType ==
  ASSUME TypeOK, NEW p \in Ptr, enqueue_ctx(p)
  PROVE  /\ prev' \in [Ptr -> Ptr \cup {NULL}] /\ next' \in [Ptr -> Ptr \cup {NULL}]
         /\ {ctx_queue', ctx_queue_last', ctx_done'} \subseteq Ptr \cup {NULL}
         /\ qs' \in Seq(Ptr) /\ ds' \in Seq(Ptr) /\ raced' \in BOOLEAN
  <1>1. /\ prev \in [Ptr -> Ptr \cup {NULL}] /\ next \in [Ptr -> Ptr \cup {NULL}]
        /\ {ctx_queue, ctx_queue_last, ctx_done} \subseteq Ptr \cup {NULL}
        /\ qs \in Seq(Ptr) /\ ds \in Seq(Ptr) /\ raced \in BOOLEAN
    BY DEF TypeOK
  <1>2. qs' \in Seq(Ptr) /\ ds' \in Seq(Ptr) BY <1>1 DEF enqueue_ctx
  <1>3. raced' \in BOOLEAN BY DEF enqueue_ctx, Overlap
  <1>4. /\ prev' \in [Ptr -> Ptr \cup {NULL}] /\ next' \in [Ptr -> Ptr \cup {NULL}]
        /\ {ctx_queue', ctx_queue_last', ctx_done'} \subseteq Ptr \cup {NULL}
    BY <1>1 DEF enqueue_ctx
  <1> QED BY <1>2, <1>3, <1>4

LEMMA UnlinkType ==
  ASSUME TypeOK, NEW p \in Ptr, Unlink(p)
  PROVE  /\ prev' \in [Ptr -> Ptr \cup {NULL}] /\ next' \in [Ptr -> Ptr \cup {NULL}]
         /\ {ctx_queue', ctx_queue_last', ctx_done'} \subseteq Ptr \cup {NULL}
         /\ qs' \in Seq(Ptr) /\ ds' \in Seq(Ptr) /\ raced' \in BOOLEAN
  <1>1. /\ prev \in [Ptr -> Ptr \cup {NULL}] /\ next \in [Ptr -> Ptr \cup {NULL}]
        /\ {ctx_queue, ctx_queue_last, ctx_done} \subseteq Ptr \cup {NULL}
        /\ qs \in Seq(Ptr) /\ ds \in Seq(Ptr)
    BY DEF TypeOK
  <1>2. qs' \in Seq(Ptr) /\ ds' \in Seq(Ptr) BY <1>1, WithoutType DEF Unlink
  <1>3. raced' \in BOOLEAN BY DEF Unlink, Overlap
  <1>4. /\ prev' \in [Ptr -> Ptr \cup {NULL}] /\ next' \in [Ptr -> Ptr \cup {NULL}]
        /\ {ctx_queue', ctx_queue_last', ctx_done'} \subseteq Ptr \cup {NULL}
    BY <1>1 DEF Unlink
  <1> QED BY <1>2, <1>3, <1>4

LEMMA FinishType ==
  ASSUME TypeOK, NEW p \in Ptr, finish_ctx(p)
  PROVE  /\ prev' \in [Ptr -> Ptr \cup {NULL}] /\ next' \in [Ptr -> Ptr \cup {NULL}]
         /\ {ctx_queue', ctx_queue_last', ctx_done'} \subseteq Ptr \cup {NULL}
         /\ qs' \in Seq(Ptr) /\ ds' \in Seq(Ptr) /\ raced' \in BOOLEAN
         /\ alive' \subseteq Ptr /\ ctx_running' = NULL
  <1>1. /\ prev \in [Ptr -> Ptr \cup {NULL}] /\ next \in [Ptr -> Ptr \cup {NULL}]
        /\ {ctx_queue, ctx_queue_last, ctx_done} \subseteq Ptr \cup {NULL}
        /\ qs \in Seq(Ptr) /\ ds \in Seq(Ptr) /\ alive \subseteq Ptr /\ raced \in BOOLEAN
    BY DEF TypeOK
  <1>2. ds' \in Seq(Ptr)
    <2>1. <<p>> \o ds \in Seq(Ptr) BY <1>1, ConsFacts
    <2> QED BY <1>1, <2>1 DEF finish_ctx
  <1>3. /\ prev' \in [Ptr -> Ptr \cup {NULL}] /\ next' \in [Ptr -> Ptr \cup {NULL}]
        /\ {ctx_queue', ctx_queue_last', ctx_done'} \subseteq Ptr \cup {NULL}
        /\ alive' \subseteq Ptr
    BY <1>1 DEF finish_ctx
  <1> QED BY <1>1, <1>2, <1>3 DEF finish_ctx

LEMMA RemoveDoneType ==
  ASSUME TypeOK, NEW p \in Ptr, RemoveDone(p)
  PROVE  /\ prev' \in [Ptr -> Ptr \cup {NULL}] /\ next' \in [Ptr -> Ptr \cup {NULL}]
         /\ {ctx_queue', ctx_queue_last', ctx_done'} \subseteq Ptr \cup {NULL}
         /\ qs' \in Seq(Ptr) /\ ds' \in Seq(Ptr) /\ raced' \in BOOLEAN
         /\ alive' \subseteq Ptr
  <1>1. /\ prev \in [Ptr -> Ptr \cup {NULL}] /\ next \in [Ptr -> Ptr \cup {NULL}]
        /\ {ctx_queue, ctx_queue_last, ctx_done} \subseteq Ptr \cup {NULL}
        /\ qs \in Seq(Ptr) /\ ds \in Seq(Ptr) /\ alive \subseteq Ptr /\ raced \in BOOLEAN
    BY DEF TypeOK
  <1>2. ds' \in Seq(Ptr) BY <1>1, WithoutType DEF RemoveDone
  <1>3. /\ prev' \in [Ptr -> Ptr \cup {NULL}] /\ next' \in [Ptr -> Ptr \cup {NULL}]
        /\ {ctx_queue', ctx_queue_last', ctx_done'} \subseteq Ptr \cup {NULL}
        /\ alive' \subseteq Ptr
    BY <1>1 DEF RemoveDone
  <1> QED BY <1>1, <1>2, <1>3 DEF RemoveDone

LEMMA CreateType ==
  ASSUME TypeOK, NEW p \in Ptr, create_ctx(p)
  PROVE  /\ id' \in [Ptr -> 0 .. CidModulus - 1] /\ wait_for' \in [Ptr -> Nat \cup {NotWaiting}]
         /\ timestamp' \in [Ptr -> 0 .. ClockModulus - 1]
         /\ sleep_us' \in [Ptr -> Sleeps \cup {0, WaitSleep}] /\ elapsed' \in [Ptr -> 0 .. MaxLag]
         /\ alive' \subseteq Ptr /\ next_ctx_id' \in Nat \ {0}
  <1> USE SchedulerAssumption
  <1>1. next_ctx_id % CidModulus \in 0 .. CidModulus - 1 BY ModRange DEF TypeOK
  <1>2. 0 \in 0 .. ClockModulus - 1 /\ 0 \in 0 .. MaxLag OBVIOUS
  <1>3. id' \in [Ptr -> 0 .. CidModulus - 1]
    <2>1. PICK n \in 0 .. CidModulus - 1 : n = next_ctx_id % CidModulus BY <1>1, Zenon
    <2>2. id' = [id EXCEPT ![p] = n] BY <2>1, Zenon DEF create_ctx
    <2>3. id \in [Ptr -> 0 .. CidModulus - 1] BY DEF TypeOK
    <2> QED BY <2>2, <2>3
  <1>4. alive' \subseteq Ptr /\ next_ctx_id' \in Nat \ {0}
    <2>1. alive' = alive \cup {p} /\ next_ctx_id' = next_ctx_id + 1 BY Zenon DEF create_ctx
    <2>2. alive \subseteq Ptr /\ next_ctx_id \in Nat \ {0} BY DEF TypeOK
    <2>3. alive \cup {p} \subseteq Ptr BY <2>2
    <2>4. next_ctx_id + 1 \in Nat \ {0} BY <2>2
    <2> QED BY <2>1, <2>3, <2>4
  <1>5. wait_for' \in [Ptr -> Nat \cup {NotWaiting}] BY DEF TypeOK, create_ctx
  <1>6. timestamp' \in [Ptr -> 0 .. ClockModulus - 1] /\ elapsed' \in [Ptr -> 0 .. MaxLag]
    BY <1>2 DEF TypeOK, create_ctx
  <1>7. sleep_us' \in [Ptr -> Sleeps \cup {0, WaitSleep}] BY DEF TypeOK, create_ctx
  <1> QED BY <1>3, <1>4, <1>5, <1>6, <1>7

LEMMA YieldType ==
  ASSUME TypeOK, ctx_running # NULL, NEW us \in Sleeps \cup {0, WaitSleep}, yield_ctx(us)
  PROVE  /\ timestamp' \in [Ptr -> 0 .. ClockModulus - 1]
         /\ sleep_us' \in [Ptr -> Sleeps \cup {0, WaitSleep}] /\ elapsed' \in [Ptr -> 0 .. MaxLag]
         /\ prev' \in [Ptr -> Ptr \cup {NULL}] /\ next' \in [Ptr -> Ptr \cup {NULL}]
         /\ {ctx_queue', ctx_queue_last', ctx_done'} \subseteq Ptr \cup {NULL}
         /\ qs' \in Seq(Ptr) /\ ds' \in Seq(Ptr) /\ raced' \in BOOLEAN
         /\ ctx_running' = NULL
  <1> USE SchedulerAssumption
  <1>1. ctx_running \in Ptr BY DEF TypeOK
  <1>2. 0 \in 0 .. MaxLag OBVIOUS
  <1>3. enqueue_ctx(ctx_running) BY DEF yield_ctx
  <1>4. /\ timestamp' \in [Ptr -> 0 .. ClockModulus - 1]
        /\ sleep_us' \in [Ptr -> Sleeps \cup {0, WaitSleep}] /\ elapsed' \in [Ptr -> 0 .. MaxLag]
        /\ ctx_running' = NULL
    BY <1>1, <1>2 DEF TypeOK, yield_ctx
  <1>5. PICK p \in Ptr : p = ctx_running BY <1>1
  <1>6. enqueue_ctx(p) BY <1>3, <1>5
  <1> QED BY <1>4, <1>6, EnqueueType

LEMMA NextTypeInv == TypeInv /\ [Next]_vars => TypeInv'
  <1> SUFFICES ASSUME TypeInv, [Next]_vars PROVE TypeInv' OBVIOUS
  <1> USE SchedulerAssumption, PtrFacts DEF TypeInv
  <1>1. CASE DequeueBegin
    BY <1>1 DEF DequeueBegin, TypeOK, Control, FailuresFlagged, lists, fields, client, gcFlags
  <1>2. CASE dequeue_ctx
    <2>1. curr \in Ptr BY <1>2 DEF TypeOK, dequeue_ctx
    <2>2. CASE Unlink(curr) /\ ctx_running' = curr /\ failures' = 0
               /\ elapsed' = [elapsed EXCEPT ![curr] = 0]
               /\ pc' = "loop" /\ curr' = NULL /\ t_now' = 0
      <3>1. /\ prev' \in [Ptr -> Ptr \cup {NULL}] /\ next' \in [Ptr -> Ptr \cup {NULL}]
            /\ {ctx_queue', ctx_queue_last', ctx_done'} \subseteq Ptr \cup {NULL}
            /\ qs' \in Seq(Ptr) /\ ds' \in Seq(Ptr) /\ raced' \in BOOLEAN
        BY <2>1, <2>2, UnlinkType
      <3>2. elapsed' \in [Ptr -> 0 .. MaxLag] /\ t_now' \in 0 .. ClockModulus - 1
        BY <2>1, <2>2 DEF TypeOK
      <3>3. /\ UNCHANGED <<id, timestamp, sleep_us, wait_for, alive, client, perform_gc,
                           last_iteration_gc, next_ctx_id, now>>
        BY <1>2 DEF dequeue_ctx
      <3>4. /\ {ctx_queue, ctx_queue_last, ctx_done, ctx_running, curr, cnew}' \subseteq Ptr \cup {NULL}
            /\ failures' \in 0 .. 2 /\ pc' \in {"loop", "dequeue", "search"}
        BY <2>1, <2>2, <3>1, <3>3 DEF TypeOK, client
      <3>5. TypeOK' BY <3>1, <3>2, <3>3, <3>4 DEF TypeOK, client
      <3>6. Control' BY <2>1, <2>2, <3>3 DEF Control, client
      <3>7. FailuresFlagged' BY <2>2 DEF FailuresFlagged
      <3> QED BY <3>5, <3>6, <3>7
    <2>3. CASE curr' = next[curr] /\ UNCHANGED <<lists, ctx_running, failures, elapsed, pc, t_now>>
      BY <1>2, <2>1, <2>3 DEF dequeue_ctx, TypeOK, Control, FailuresFlagged, lists, client
    <2> QED BY <1>2, <2>2, <2>3 DEF dequeue_ctx
  <1>3. CASE DequeueNone
    BY <1>3 DEF DequeueNone, TypeOK, Control, FailuresFlagged, lists, fields, client, gcFlags
  <1>4. CASE SearchBegin
    <2>1. /\ last_iteration_gc' = perform_gc /\ perform_gc' = FALSE
          /\ pc' = "search" /\ curr' = ctx_done /\ ctx_running # NULL
          /\ wait_for[ctx_running] # NotWaiting
          /\ UNCHANGED <<lists, fields, client, failures, ctx_running, next_ctx_id, t_now, now>>
      BY <1>4 DEF SearchBegin, Step
    <2>2. perform_gc' \in BOOLEAN /\ last_iteration_gc' \in BOOLEAN BY <2>1 DEF TypeOK
    <2>3. TypeOK' BY <2>1, <2>2 DEF TypeOK, lists, fields, client
    <2> QED BY <2>1, <2>3 DEF Control, FailuresFlagged, lists, fields, client
  <1>5. CASE eval_cps_remove_done_ctx
    <2>1. curr \in Ptr /\ ctx_running \in Ptr
      BY <1>5 DEF TypeOK, Control, eval_cps_remove_done_ctx
    <2>2. CASE RemoveDone(curr) /\ pc' = "loop" /\ curr' = NULL
               /\ wait_for' = [wait_for EXCEPT ![ctx_running] = NotWaiting]
      <3>1. /\ prev' \in [Ptr -> Ptr \cup {NULL}] /\ next' \in [Ptr -> Ptr \cup {NULL}]
            /\ {ctx_queue', ctx_queue_last', ctx_done'} \subseteq Ptr \cup {NULL}
            /\ qs' \in Seq(Ptr) /\ ds' \in Seq(Ptr) /\ raced' \in BOOLEAN
            /\ alive' \subseteq Ptr
        BY <2>1, <2>2, RemoveDoneType
      <3>2. wait_for' \in [Ptr -> Nat \cup {NotWaiting}] BY <2>1, <2>2 DEF TypeOK
      <3>3. UNCHANGED <<client, gcFlags, id, timestamp, sleep_us, elapsed, ctx_running,
                        next_ctx_id, t_now, now>>
        BY <1>5 DEF eval_cps_remove_done_ctx
      <3>4. TypeOK' BY <2>2, <3>1, <3>2, <3>3 DEF TypeOK, client, gcFlags
      <3>5. wait_for'[ctx_running'] = NotWaiting BY <2>1, <2>2, <3>3 DEF TypeOK
      <3> QED BY <2>2, <3>3, <3>4, <3>5 DEF Control, FailuresFlagged, client, gcFlags
    <2>3. CASE curr' = next[curr] /\ UNCHANGED <<lists, wait_for, alive, pc>>
      BY <1>5, <2>1, <2>3
        DEF eval_cps_remove_done_ctx, TypeOK, Control, FailuresFlagged, lists, client, gcFlags
    <2> QED BY <1>5, <2>2, <2>3 DEF eval_cps_remove_done_ctx
  <1>6. ASSUME NEW us \in Sleeps \cup {0, WaitSleep}, yield_ctx(us), ctx_running # NULL,
               pc' = "loop", UNCHANGED <<client, id, alive, next_ctx_id, curr, t_now, now, failures>>,
               wait_for' \in [Ptr -> Nat \cup {NotWaiting}],
               perform_gc' \in BOOLEAN, last_iteration_gc' \in BOOLEAN
        PROVE  TypeInv'
    <2>1. /\ timestamp' \in [Ptr -> 0 .. ClockModulus - 1]
          /\ sleep_us' \in [Ptr -> Sleeps \cup {0, WaitSleep}]
          /\ elapsed' \in [Ptr -> 0 .. MaxLag]
          /\ prev' \in [Ptr -> Ptr \cup {NULL}] /\ next' \in [Ptr -> Ptr \cup {NULL}]
          /\ {ctx_queue', ctx_queue_last', ctx_done'} \subseteq Ptr \cup {NULL}
          /\ qs' \in Seq(Ptr) /\ ds' \in Seq(Ptr) /\ raced' \in BOOLEAN
          /\ ctx_running' = NULL
      BY <1>6, YieldType
    <2>2. TypeOK' BY <1>6, <2>1 DEF TypeOK, client
    <2> QED BY <1>6, <2>1, <2>2 DEF Control, FailuresFlagged, client
  <1>7. CASE SearchFails
    <2>1. ctx_running # NULL /\ yield_ctx(WaitSleep) /\ pc' = "loop"
          /\ UNCHANGED <<client, gcFlags, id, wait_for, alive, next_ctx_id, curr, t_now, now>>
      BY <1>7 DEF SearchFails, Control
    <2> QED BY <1>6, <2>1 DEF gcFlags, TypeOK
  <1>8. ASSUME NEW us \in Sleeps, Yield(us) PROVE TypeInv'
    <2>1. ctx_running # NULL /\ yield_ctx(us) /\ pc' = "loop"
          /\ UNCHANGED <<client, failures, id, wait_for, alive, next_ctx_id, curr, t_now, now>>
          /\ perform_gc' = FALSE /\ last_iteration_gc' = perform_gc
      BY <1>8 DEF Yield, ProgramStep, Step
    <2>2. perform_gc' \in BOOLEAN /\ last_iteration_gc' \in BOOLEAN BY <2>1 DEF TypeOK
    <2> QED BY <1>6, <2>1, <2>2 DEF TypeOK
  <1>9. ASSUME NEW cid \in WaitCids, Wait(cid) PROVE TypeInv'
    <2>1. ctx_running # NULL /\ yield_ctx(WaitSleep) /\ pc' = "loop"
          /\ UNCHANGED <<client, failures, id, alive, next_ctx_id, curr, t_now, now>>
          /\ perform_gc' = FALSE /\ last_iteration_gc' = perform_gc
          /\ wait_for' = [wait_for EXCEPT ![ctx_running] = cid]
      BY <1>9 DEF Wait, ProgramStep, Step
    <2>2. perform_gc' \in BOOLEAN /\ last_iteration_gc' \in BOOLEAN BY <2>1 DEF TypeOK
    <2>3. wait_for' \in [Ptr -> Nat \cup {NotWaiting}] BY <2>1 DEF TypeOK
    <2> QED BY <1>6, <2>1, <2>2, <2>3
  <1>10. ASSUME finish_ctx(ctx_running), ctx_running # NULL, pc = "loop",
                UNCHANGED <<client, failures, id, timestamp, sleep_us, wait_for, elapsed, next_ctx_id,
                            pc, curr, t_now, now>>,
                perform_gc' \in BOOLEAN, last_iteration_gc' \in BOOLEAN
         PROVE  TypeInv'
    <2>1. PICK p \in Ptr : p = ctx_running BY <1>10 DEF TypeOK
    <2>2. /\ prev' \in [Ptr -> Ptr \cup {NULL}] /\ next' \in [Ptr -> Ptr \cup {NULL}]
          /\ {ctx_queue', ctx_queue_last', ctx_done'} \subseteq Ptr \cup {NULL}
          /\ qs' \in Seq(Ptr) /\ ds' \in Seq(Ptr) /\ raced' \in BOOLEAN
          /\ alive' \subseteq Ptr /\ ctx_running' = NULL
      BY <1>10, <2>1, FinishType
    <2>3. TypeOK' BY <1>10, <2>2 DEF TypeOK, client
    <2> QED BY <1>10, <2>2, <2>3 DEF Control, FailuresFlagged, client
  <1>11. CASE OutOfMemory
    BY <1>10, <1>11 DEF OutOfMemory, gcFlags, TypeOK
  <1>12. CASE Finish
    <2>1. perform_gc' = FALSE /\ last_iteration_gc' = perform_gc BY <1>12 DEF Finish, ProgramStep, Step
    <2>2. perform_gc' \in BOOLEAN /\ last_iteration_gc' \in BOOLEAN BY <2>1 DEF TypeOK
    <2> QED BY <1>10, <1>12, <2>2 DEF Finish, ProgramStep, Step
  <1>13. CASE Evaluate
    <2>1. /\ last_iteration_gc' = perform_gc /\ perform_gc' = FALSE /\ failures' = 0
          /\ UNCHANGED next_ctx_id
          /\ UNCHANGED <<lists, fields, client, ctx_running, pc, curr, t_now, now>>
      BY <1>13 DEF Evaluate, ProgramStep, Step
    <2>2. perform_gc' \in BOOLEAN /\ last_iteration_gc' \in BOOLEAN BY <2>1 DEF TypeOK
    <2>3. TypeOK' BY <2>1, <2>2 DEF TypeOK, lists, fields, client
    <2> QED BY <2>1, <2>3 DEF Control, FailuresFlagged, lists, fields, client
  <1>14. CASE AllocationFails
    <2>1. failures \in 0 .. 2 /\ perform_gc \in BOOLEAN /\ last_iteration_gc \in BOOLEAN BY DEF TypeOK
    <2>2. perform_gc' = TRUE /\ last_iteration_gc' = perform_gc /\ failures' = failures + 1
          /\ ctx_running # NULL /\ ~ (perform_gc /\ last_iteration_gc)
          /\ wait_for[ctx_running] = NotWaiting
          /\ UNCHANGED <<lists, fields, client, ctx_running, next_ctx_id, pc, curr, t_now, now>>
      BY <1>14 DEF AllocationFails, ProgramStep, Step
    <2>3. failures' \in 0 .. 2
          /\ failures' <= IF perform_gc' THEN IF last_iteration_gc' THEN 2 ELSE 1 ELSE 0
      BY <2>1, <2>2 DEF FailuresFlagged
    <2>4. TypeOK' BY <2>2, <2>3 DEF TypeOK, lists, fields, client
    <2> QED BY <2>2, <2>3, <2>4 DEF Control, FailuresFlagged, fields, client
  <1>15. CASE SpawnFails
    <2>1. /\ last_iteration_gc' = perform_gc /\ perform_gc' = FALSE /\ failures' = 0
          /\ next_ctx_id' = next_ctx_id + 1
          /\ UNCHANGED <<lists, fields, client, ctx_running, pc, curr, t_now, now>>
      BY <1>15 DEF SpawnFails, ProgramStep, Step
    <2>2. perform_gc' \in BOOLEAN /\ last_iteration_gc' \in BOOLEAN BY <2>1 DEF TypeOK
    <2>3. TypeOK' BY <2>1, <2>2 DEF TypeOK, lists, fields, client
    <2> QED BY <2>1, <2>3 DEF Control, FailuresFlagged, lists, fields, client
  <1>16. ASSUME NEW p \in Ptr, Spawn(p) PROVE TypeInv'
    <2>1. /\ create_ctx(p) /\ enqueue_ctx(p) /\ failures' = 0
          /\ perform_gc' = FALSE /\ last_iteration_gc' = perform_gc
          /\ UNCHANGED <<client, ctx_running, pc, curr, t_now, now>>
      BY <1>16 DEF Spawn, ProgramStep, Step
    <2>2. TypeOK'
      <3>1. /\ prev' \in [Ptr -> Ptr \cup {NULL}] /\ next' \in [Ptr -> Ptr \cup {NULL}]
            /\ {ctx_queue', ctx_queue_last', ctx_done'} \subseteq Ptr \cup {NULL}
            /\ qs' \in Seq(Ptr) /\ ds' \in Seq(Ptr) /\ raced' \in BOOLEAN
        BY <2>1, EnqueueType
      <3>2. /\ id' \in [Ptr -> 0 .. CidModulus - 1] /\ wait_for' \in [Ptr -> Nat \cup {NotWaiting}]
            /\ timestamp' \in [Ptr -> 0 .. ClockModulus - 1]
            /\ sleep_us' \in [Ptr -> Sleeps \cup {0, WaitSleep}] /\ elapsed' \in [Ptr -> 0 .. MaxLag]
            /\ alive' \subseteq Ptr /\ next_ctx_id' \in Nat \ {0}
        BY <2>1, CreateType
      <3>3. perform_gc' \in BOOLEAN /\ last_iteration_gc' \in BOOLEAN BY <2>1 DEF TypeOK
      <3>4. /\ {ctx_queue, ctx_queue_last, ctx_done, ctx_running, curr, cnew}' \subseteq Ptr \cup {NULL}
            /\ failures' \in 0 .. 2
        BY <2>1, <3>1 DEF TypeOK, client
      <3> QED BY <2>1, <3>1, <3>2, <3>3, <3>4 DEF TypeOK, client
    <2> QED BY <2>1, <2>2 DEF Control, FailuresFlagged, client
  <1>17. ASSUME NEW p \in Ptr, eval_cps_program(p) PROVE TypeInv'
    <2>1. /\ id' \in [Ptr -> 0 .. CidModulus - 1] /\ wait_for' \in [Ptr -> Nat \cup {NotWaiting}]
          /\ timestamp' \in [Ptr -> 0 .. ClockModulus - 1]
          /\ sleep_us' \in [Ptr -> Sleeps \cup {0, WaitSleep}] /\ elapsed' \in [Ptr -> 0 .. MaxLag]
          /\ alive' \subseteq Ptr /\ next_ctx_id' \in Nat \ {0}
      BY <1>17, CreateType DEF eval_cps_program
    <2>2. TypeOK'
      <3>1. /\ cpc' = "test" /\ cnew' = p /\ submitted' = submitted + 1 /\ submitted < NumSubmitted
            /\ UNCHANGED <<lists, gcFlags, ctx_running, pc, curr, t_now, now>>
        BY <1>17 DEF eval_cps_program
      <3>2. /\ {ctx_queue, ctx_queue_last, ctx_done, ctx_running, curr, cnew}' \subseteq Ptr \cup {NULL}
            /\ submitted' \in 0 .. NumSubmitted
        BY <3>1 DEF TypeOK, lists
      <3> QED BY <2>1, <3>1, <3>2 DEF TypeOK, lists, gcFlags
    <2>3. wait_for' = [wait_for EXCEPT ![p] = NotWaiting] /\ UNCHANGED <<ctx_running, gcFlags, pc>>
          /\ cpc' = "test" /\ cnew' = p
      BY <1>17, Zenon DEF eval_cps_program, create_ctx
    <2>4. FailuresFlagged' BY <2>3 DEF FailuresFlagged, gcFlags, TypeOK
    <2> QED BY <2>2, <2>3, <2>4 DEF Control
  <1>18. CASE SubmitTest
    BY <1>18 DEF SubmitTest, TypeOK, Control, FailuresFlagged, fields, gcFlags
  <1>19. CASE SubmitLink
    BY <1>19 DEF SubmitLink, TypeOK, Control, FailuresFlagged, fields, gcFlags
  <1>20. CASE SubmitLast
    <2>1. cnew \in Ptr BY <1>20 DEF SubmitLast, TypeOK, Control
    <2>2. qs' \in Seq(Ptr) BY <1>20, <2>1 DEF SubmitLast, TypeOK
    <2> QED BY <1>20, <2>1, <2>2 DEF SubmitLast, TypeOK, Control, FailuresFlagged, fields, gcFlags
  <1>21. CASE Tick
    <2>1. now' \in 0 .. ClockModulus - 1
      <3>1. now + 1 \in Nat BY DEF TypeOK
      <3> QED BY <1>21, <3>1, ModRange DEF Tick
    <2>2. elapsed' \in [Ptr -> 0 .. MaxLag] BY <1>21 DEF Tick, TypeOK
    <2>3. UNCHANGED <<lists, id, timestamp, sleep_us, wait_for, alive, client, gcFlags,
                      ctx_running, next_ctx_id, pc, curr, t_now>>
      BY <1>21 DEF Tick
    <2> QED BY <2>1, <2>2, <2>3 DEF TypeOK, Control, FailuresFlagged, lists, client, gcFlags
  <1>22. CASE UNCHANGED vars
    BY <1>22 DEF vars, TypeOK, Control, FailuresFlagged, lists, fields, client, gcFlags
  <1> QED BY <1>1, <1>2, <1>3, <1>4, <1>5, <1>7, <1>8, <1>9, <1>11, <1>12, <1>13, <1>14, <1>15,
             <1>16, <1>17, <1>18, <1>19, <1>20, <1>21, <1>22
      DEF Next, Dequeue, Search, Leave, Stay, Submit

LEMMA TypeInvCorrect == Spec => []TypeInv
  <1> QED BY InitTypeInv, NextTypeInv, PTL DEF Spec

\* Every variable keeps its type, also after a client's enqueue_ctx has been
\* overlapped; in particular no context sees more than two allocations fail in
\* a row before it is finished.
THEOREM TypeCorrect == Spec => []TypeOK
  <1>1. TypeInv => TypeOK BY DEF TypeInv
  <1> QED BY <1>1, TypeInvCorrect, PTL

(***************************************************************************)
(* Doubly linked lists: nx and pv are the links, h the first element and   *)
(* s the elements in order                                                 *)
(***************************************************************************)
Linked(nx, pv, h, s) ==
  /\ Distinct(s)
  /\ h = IF s = <<>> THEN NULL ELSE s[1]
  /\ \A k \in 1 .. Len(s) : nx[s[k]] = IF k = Len(s) THEN NULL ELSE s[k + 1]
  /\ \A k \in 1 .. Len(s) : pv[s[k]] = IF k = 1 THEN NULL ELSE s[k - 1]

LastOf(s) == IF s = <<>> THEN NULL ELSE s[Len(s)]

\* Links of contexts outside the list do not matter.
LEMMA LinkedElsewhere ==
  ASSUME NEW nx, NEW pv, NEW nx1, NEW pv1, NEW h, NEW s, Linked(nx, pv, h, s),
         \A p \in Elems(s) : nx1[p] = nx[p] /\ pv1[p] = pv[p]
  PROVE  Linked(nx1, pv1, h, s)
  <1>1. \A k \in 1 .. Len(s) : nx1[s[k]] = nx[s[k]] /\ pv1[s[k]] = pv[s[k]] BY DEF Elems
  <1> QED BY <1>1 DEF Linked

LEMMA SeqBasics ==
  ASSUME NEW s \in Seq(Ptr)
  PROVE  /\ Len(s) \in Nat /\ (s = <<>> <=> Len(s) = 0)
         /\ \A k \in 1 .. Len(s) : s[k] \in Ptr /\ s[k] # NULL /\ s[k] \in Elems(s)
         /\ Elems(s) \subseteq Ptr
         /\ LastOf(s) = NULL <=> s = <<>>
         /\ s # <<>> => LastOf(s) = s[Len(s)] /\ LastOf(s) \in Elems(s) /\ Len(s) \in 1 .. Len(s)
  <1>1. Len(s) \in Nat /\ (s = <<>> <=> Len(s) = 0) OBVIOUS
  <1>2. \A k \in 1 .. Len(s) : s[k] \in Ptr OBVIOUS
  <1>3. \A k \in 1 .. Len(s) : s[k] # NULL BY <1>2, PtrFacts
  <1>4. s # <<>> => Len(s) \in 1 .. Len(s) BY <1>1
  <1>5. Elems(s) \subseteq Ptr /\ \A k \in 1 .. Len(s) : s[k] \in Elems(s) BY <1>2 DEF Elems
  <1> QED BY <1>1, <1>2, <1>3, <1>4, <1>5 DEF LastOf

\* enqueue_ctx
LinksAfter(nx, pv, h, s, p, nx1, pv1, h1) ==
  /\ pv1 = [pv EXCEPT ![p] = LastOf(s)]
  /\ IF s = <<>> THEN h1 = p /\ nx1 = [nx EXCEPT ![p] = NULL]
       ELSE h1 = h /\ nx1 = [nx EXCEPT ![p] = NULL, ![LastOf(s)] = p]

LEMMA LinkedAppend ==
  ASSUME NEW nx \in [Ptr -> Ptr \cup {NULL}], NEW pv \in [Ptr -> Ptr \cup {NULL}],
         NEW h, NEW s \in Seq(Ptr), Linked(nx, pv, h, s),
         NEW p \in Ptr, p \notin Elems(s), NEW nx1, NEW pv1, NEW h1,
         LinksAfter(nx, pv, h, s, p, nx1, pv1, h1)
  PROVE  Linked(nx1, pv1, h1, Append(s, p)) /\ LastOf(Append(s, p)) = p
  <1> USE DEF LinksAfter
  <1> DEFINE t == Append(s, p)
             n == Len(s)
  <1>1. /\ t \in Seq(Ptr) /\ Len(t) = n + 1 /\ t # <<>>
        /\ \A k \in 1 .. n : t[k] = s[k]
        /\ t[n + 1] = p
    BY AppendFacts
  <1>2. n \in Nat /\ (s = <<>> <=> n = 0) BY SeqBasics
  <1>3. \A k \in 1 .. n : s[k] \in Ptr /\ s[k] # p BY DEF Elems
  <1>4. /\ Distinct(s) /\ h = IF s = <<>> THEN NULL ELSE s[1]
        /\ \A k \in 1 .. n : nx[s[k]] = IF k = n THEN NULL ELSE s[k + 1]
        /\ \A k \in 1 .. n : pv[s[k]] = IF k = 1 THEN NULL ELSE s[k - 1]
    BY DEF Linked
  <1>5. n # 0 => LastOf(s) = s[n] /\ n \in 1 .. n BY <1>2 DEF LastOf
  <1> HIDE DEF t
  <1>6. LastOf(t) = p BY <1>1 DEF LastOf
  <1>7. Distinct(t)
    <2> SUFFICES ASSUME NEW j \in 1 .. n + 1, NEW k \in 1 .. n + 1, j # k PROVE t[j] # t[k]
      BY <1>1 DEF Distinct
    <2>1. CASE j = n + 1
      <3>1. k \in 1 .. n BY <1>2, <2>1
      <3> QED BY <1>1, <1>3, <2>1, <3>1
    <2>2. CASE k = n + 1
      <3>1. j \in 1 .. n BY <1>2, <2>2
      <3> QED BY <1>1, <1>3, <2>2, <3>1
    <2>3. CASE j # n + 1 /\ k # n + 1
      <3>1. j \in 1 .. n /\ k \in 1 .. n BY <1>2, <2>3
      <3> QED BY <1>1, <1>4, <3>1 DEF Distinct
    <2> QED BY <2>1, <2>2, <2>3
  <1>8. h1 = t[1]
    <2>1. CASE n = 0 BY <1>1, <1>2, <2>1
    <2>2. CASE n # 0
      <3>1. 1 \in 1 .. n BY <1>2, <2>2
      <3> QED BY <1>1, <1>2, <1>4, <2>2, <3>1
    <2> QED BY <2>1, <2>2
  <1>9. ASSUME NEW k \in 1 .. n + 1 PROVE nx1[t[k]] = IF k = n + 1 THEN NULL ELSE t[k + 1]
    <2>1. CASE k = n + 1
      <3>1. nx1[p] = NULL
        <4>1. CASE n = 0 BY <1>2, <4>1
        <4>2. CASE n # 0
          <5>1. LastOf(s) # p /\ LastOf(s) \in Ptr BY <1>3, <1>5, <4>2
          <5> QED BY <1>2, <4>2, <5>1
        <4> QED BY <4>1, <4>2
      <3> QED BY <1>1, <2>1, <3>1
    <2>2. CASE k = n /\ n # 0
      <3>1. k \in 1 .. n /\ k # n + 1 BY <1>2, <2>2
      <3>2. nx1[s[n]] = p
        <4>1. LastOf(s) = s[n] /\ s[n] \in Ptr BY <1>3, <1>5, <2>2
        <4> QED BY <1>2, <2>2, <4>1
      <3> QED BY <1>1, <2>2, <3>1, <3>2
    <2>3. CASE k # n + 1 /\ ~ (k = n /\ n # 0)
      <3>1. k \in 1 .. n /\ k # n /\ n # 0 /\ k + 1 \in 1 .. n BY <1>2, <2>3
      <3>2. s[k] # LastOf(s) /\ s[k] # p /\ s[k] \in Ptr BY <1>3, <1>4, <1>5, <3>1 DEF Distinct
      <3>3. nx1[s[k]] = nx[s[k]] BY <1>2, <3>1, <3>2
      <3>4. nx[s[k]] = s[k + 1] BY <1>4, <3>1
      <3> QED BY <1>1, <2>3, <3>1, <3>3, <3>4
    <2> QED BY <2>1, <2>2, <2>3
  <1>10. ASSUME NEW k \in 1 .. n + 1 PROVE pv1[t[k]] = IF k = 1 THEN NULL ELSE t[k - 1]
    <2>1. CASE k = n + 1
      <3>1. pv1[t[k]] = LastOf(s) BY <1>1, <2>1
      <3>2. CASE n = 0 BY <1>2, <2>1, <3>1, <3>2 DEF LastOf
      <3>3. CASE n # 0
        <4>1. k # 1 /\ k - 1 \in 1 .. n /\ k - 1 = n BY <1>2, <2>1, <3>3
        <4> QED BY <1>1, <1>5, <3>1, <3>3, <4>1
      <3> QED BY <3>2, <3>3
    <2>2. CASE k # n + 1
      <3>1. k \in 1 .. n /\ (k # 1 => k - 1 \in 1 .. n) BY <1>2, <2>2
      <3>2. pv1[t[k]] = pv[s[k]] BY <1>1, <1>3, <3>1
      <3> QED BY <1>1, <1>4, <3>1, <3>2
    <2> QED BY <2>1, <2>2
  <1>11. Linked(nx1, pv1, h1, t) BY <1>1, <1>7, <1>8, <1>9, <1>10 DEF Linked
  <1> QED BY <1>6, <1>11 DEF t

\* finish_ctx
LEMMA LinkedPush ==
  ASSUME NEW nx \in [Ptr -> Ptr \cup {NULL}], NEW pv \in [Ptr -> Ptr \cup {NULL}],
         NEW h, NEW s \in Seq(Ptr), Linked(nx, pv, h, s),
         NEW p \in Ptr, p \notin Elems(s), NEW nx1, NEW pv1,
         nx1 = [nx EXCEPT ![p] = h],
         pv1 = IF h = NULL THEN [pv EXCEPT ![p] = NULL] ELSE [pv EXCEPT ![p] = NULL, ![h] = p]
  PROVE  Linked(nx1, pv1, p, <<p>> \o s)
  <1> DEFINE t == <<p>> \o s
             n == Len(s)
  <1>1. /\ t \in Seq(Ptr) /\ Len(t) = n + 1 /\ t # <<>> /\ t[1] = p
        /\ \A k \in 1 .. n : t[k + 1] = s[k]
    BY ConsFacts
  <1>2. n \in Nat /\ (s = <<>> <=> n = 0) BY SeqBasics
  <1>3. \A k \in 1 .. n : s[k] \in Ptr /\ s[k] # p /\ s[k] # NULL BY SeqBasics DEF Elems
  <1>4. /\ Distinct(s) /\ h = IF s = <<>> THEN NULL ELSE s[1]
        /\ \A k \in 1 .. n : nx[s[k]] = IF k = n THEN NULL ELSE s[k + 1]
        /\ \A k \in 1 .. n : pv[s[k]] = IF k = 1 THEN NULL ELSE s[k - 1]
    BY DEF Linked
  <1> HIDE DEF t
  <1>5. \A k \in 1 .. n + 1 : k = 1 \/ (k - 1 \in 1 .. n /\ t[k] = s[k - 1])
    <2> SUFFICES ASSUME NEW k \in 1 .. n + 1, k # 1 PROVE k - 1 \in 1 .. n /\ t[k] = s[k - 1]
      OBVIOUS
    <2>1. k - 1 \in 1 .. n /\ (k - 1) + 1 = k BY <1>2
    <2> QED BY <1>1, <2>1
  <1>6. n # 0 => 1 \in 1 .. n /\ h = s[1] /\ h \in Ptr /\ h # NULL /\ h # p BY <1>2, <1>3, <1>4
  <1>7. n = 0 => h = NULL BY <1>2, <1>4
  <1>8. Distinct(t)
    <2> SUFFICES ASSUME NEW j \in 1 .. n + 1, NEW k \in 1 .. n + 1, j # k PROVE t[j] # t[k]
      BY <1>1 DEF Distinct
    <2>1. CASE j = 1 BY <1>1, <1>3, <1>5, <2>1
    <2>2. CASE k = 1 BY <1>1, <1>3, <1>5, <2>2
    <2>3. CASE j # 1 /\ k # 1
      <3>1. j - 1 \in 1 .. n /\ k - 1 \in 1 .. n /\ t[j] = s[j - 1] /\ t[k] = s[k - 1] BY <1>5, <2>3
      <3>2. j - 1 # k - 1 BY <1>2
      <3> QED BY <1>4, <3>1, <3>2 DEF Distinct
    <2> QED BY <2>1, <2>2, <2>3
  <1>9. ASSUME NEW k \in 1 .. n + 1 PROVE nx1[t[k]] = IF k = n + 1 THEN NULL ELSE t[k + 1]
    <2>1. CASE k = 1
      <3>1. nx1[t[k]] = h BY <1>1, <2>1
      <3>2. CASE n = 0 BY <1>7, <2>1, <3>1, <3>2
      <3>3. CASE n # 0
        <4>1. k # n + 1 /\ t[k + 1] = s[1] BY <1>1, <1>2, <1>6, <2>1, <3>3
        <4> QED BY <1>6, <3>1, <3>3, <4>1
      <3> QED BY <3>2, <3>3
    <2>2. CASE k # 1
      <3>1. k - 1 \in 1 .. n /\ t[k] = s[k - 1] BY <1>5, <2>2
      <3>2. nx1[t[k]] = nx[s[k - 1]] BY <1>3, <3>1
      <3>3. nx[s[k - 1]] = IF k - 1 = n THEN NULL ELSE s[(k - 1) + 1] BY <1>4, <3>1
      <3>4. (k - 1) + 1 = k /\ (k - 1 = n <=> k = n + 1) /\ (k # n + 1 => k \in 1 .. n) BY <1>2
      <3> QED BY <1>1, <3>2, <3>3, <3>4
    <2> QED BY <2>1, <2>2
  <1>10. ASSUME NEW k \in 1 .. n + 1 PROVE pv1[t[k]] = IF k = 1 THEN NULL ELSE t[k - 1]
    <2>1. CASE k = 1 BY <1>1, <1>6, <1>7, <2>1
    <2>2. CASE k = 2
      <3>1. n # 0 /\ t[k] = s[1] BY <1>2, <1>5, <2>2
      <3>2. pv1[h] = p BY <1>6, <3>1
      <3> QED BY <1>1, <1>6, <2>2, <3>1, <3>2
    <2>3. CASE k # 1 /\ k # 2
      <3>1. k - 1 \in 1 .. n /\ t[k] = s[k - 1] /\ k - 1 # 1 /\ n # 0 BY <1>2, <1>5, <2>3
      <3>2. s[k - 1] # p /\ s[k - 1] # h BY <1>3, <1>4, <1>6, <3>1 DEF Distinct
      <3>3. pv1[t[k]] = pv[s[k - 1]] BY <1>3, <1>6, <3>1, <3>2
      <3>4. pv[s[k - 1]] = s[(k - 1) - 1] BY <1>4, <3>1
      <3>5. k - 1 \in 1 .. n + 1 /\ k - 1 # 1 BY <1>2, <2>3
      <3>6. t[k - 1] = s[(k - 1) - 1] BY <1>5, <3>5
      <3> QED BY <2>3, <3>3, <3>4, <3>6
    <2> QED BY <2>1, <2>2, <2>3
  <1>11. Linked(nx1, pv1, p, t) BY <1>1, <1>8, <1>9, <1>10 DEF Linked
  <1> QED BY <1>11 DEF t

\* Taking out the k-th element, in dequeue_ctx and in eval_cps_remove_done_ctx.
LEMMA LinkedRemove ==
  ASSUME NEW nx \in [Ptr -> Ptr \cup {NULL}], NEW pv \in [Ptr -> Ptr \cup {NULL}],
         NEW h, NEW s \in Seq(Ptr), Linked(nx, pv, h, s),
         NEW k \in 1 .. Len(s), NEW nx1, NEW pv1, NEW h1,
         h1 = IF k = 1 THEN nx[s[k]] ELSE h,
         nx1 = IF k = 1 THEN nx ELSE [nx EXCEPT ![s[k - 1]] = nx[s[k]]],
         pv1 = IF k = Len(s) THEN pv ELSE [pv EXCEPT ![s[k + 1]] = pv[s[k]]]
  PROVE  /\ Linked(nx1, pv1, h1, Without(s, s[k]))
         /\ LastOf(Without(s, s[k])) = IF k = Len(s) THEN pv[s[k]] ELSE LastOf(s)
  <1> DEFINE t == Without(s, s[k])
             n == Len(s)
  <1>1. n \in Nat /\ n # 0 /\ s # <<>> /\ k \in 1 .. n /\ k \in Nat BY SeqBasics
  <1>2. \A j \in 1 .. n : s[j] \in Ptr OBVIOUS
  <1>3. /\ Distinct(s) /\ h = s[1]
        /\ \A j \in 1 .. n : nx[s[j]] = IF j = n THEN NULL ELSE s[j + 1]
        /\ \A j \in 1 .. n : pv[s[j]] = IF j = 1 THEN NULL ELSE s[j - 1]
    BY <1>1 DEF Linked
  <1>4. /\ t \in Seq(Ptr) /\ Len(t) = n - 1
        /\ \A j \in 1 .. n - 1 : t[j] = IF j < k THEN s[j] ELSE s[j + 1]
    BY <1>3, WithoutFacts
  <1>5. t = <<>> <=> n = 1
    <2>1. t = <<>> <=> Len(t) = 0 BY <1>4, SeqBasics
    <2> QED BY <1>1, <1>4, <2>1
  <1> HIDE DEF t
  <1> DEFINE at(j) == IF j < k THEN j ELSE j + 1
  <1>6. \A j \in 1 .. n - 1 : at(j) \in 1 .. n /\ at(j) # k /\ t[j] = s[at(j)] BY <1>1, <1>4
  <1>7. Distinct(t)
    <2> SUFFICES ASSUME NEW i \in 1 .. n - 1, NEW j \in 1 .. n - 1, i # j PROVE t[i] # t[j]
      BY <1>4 DEF Distinct
    <2>1. at(i) # at(j) BY <1>1
    <2> QED BY <1>3, <1>6, <2>1 DEF Distinct
  <1>8. h1 = IF t = <<>> THEN NULL ELSE t[1]
    <2>1. CASE n = 1
      <3>1. k = 1 /\ k = n BY <1>1, <2>1
      <3> QED BY <1>1, <1>3, <1>5, <2>1, <3>1
    <2>2. CASE n # 1
      <3>0. \A m \in Nat : m # 0 /\ m # 1 => 1 \in 1 .. m - 1 /\ 1 \in 1 .. m OBVIOUS
      <3>1. 1 \in 1 .. n - 1 /\ 1 \in 1 .. n BY <1>1, <2>2, <3>0
      <3>2. CASE k = 1
        <4>1. t[1] = s[2] BY <1>4, <3>1, <3>2
        <4>2. nx[s[1]] = s[1 + 1] BY <1>3, <2>2, <3>1
        <4> QED BY <1>5, <2>2, <3>2, <4>1, <4>2
      <3>3. CASE k # 1
        <4>1. 1 < k BY <1>1, <3>3
        <4>2. t[1] = s[1] BY <1>4, <3>1, <4>1
        <4> QED BY <1>3, <1>5, <2>2, <3>3, <4>2
      <3> QED BY <3>2, <3>3
    <2> QED BY <2>1, <2>2
  <1>9. ASSUME NEW j \in 1 .. n - 1 PROVE nx1[t[j]] = IF j = n - 1 THEN NULL ELSE t[j + 1]
    <2>1. CASE j = k - 1
      <3>1. k # 1 /\ j < k /\ j \in 1 .. n /\ t[j] = s[k - 1] /\ s[k - 1] \in Ptr
        BY <1>1, <1>2, <1>4, <2>1
      <3>2. nx1[t[j]] = nx[s[k]] BY <3>1
      <3>3. nx[s[k]] = IF k = n THEN NULL ELSE s[k + 1] BY <1>3
      <3>4. CASE k = n BY <1>1, <2>1, <3>2, <3>3, <3>4
      <3>5. CASE k # n
        <4>1. j # n - 1 /\ j + 1 = k /\ j + 1 \in 1 .. n - 1 /\ ~ (j + 1 < k) BY <1>1, <2>1, <3>5
        <4>2. t[j + 1] = s[k + 1] BY <1>4, <4>1
        <4> QED BY <3>2, <3>3, <3>5, <4>1, <4>2
      <3> QED BY <3>4, <3>5
    <2>2. CASE j # k - 1
      <3>1. k # 1 => k - 1 \in 1 .. n BY <1>1
      <3>2. at(j) # k - 1 BY <1>1, <2>2
      <3>3. k # 1 => s[at(j)] # s[k - 1] BY <1>3, <1>6, <3>1, <3>2 DEF Distinct
      <3>4. nx1[t[j]] = nx[s[at(j)]] BY <1>2, <1>6, <3>3
      <3>5. nx[s[at(j)]] = IF at(j) = n THEN NULL ELSE s[at(j) + 1] BY <1>3, <1>6
      <3>6. at(j) = n <=> j = n - 1 BY <1>1, <2>2
      <3>7. j # n - 1 => j + 1 \in 1 .. n - 1 /\ at(j + 1) = at(j) + 1 BY <1>1, <2>2
      <3>8. j # n - 1 => t[j + 1] = s[at(j) + 1] BY <1>6, <3>7
      <3> QED BY <3>4, <3>5, <3>6, <3>8
    <2> QED BY <2>1, <2>2
  <1>10. ASSUME NEW j \in 1 .. n - 1 PROVE pv1[t[j]] = IF j = 1 THEN NULL ELSE t[j - 1]
    <2>1. CASE j = k
      <3>1. k # n /\ k + 1 \in 1 .. n /\ t[j] = s[k + 1] /\ s[k + 1] \in Ptr
        BY <1>1, <1>2, <1>4, <2>1
      <3>2. pv1[t[j]] = pv[s[k]] BY <3>1
      <3>3. pv[s[k]] = IF k = 1 THEN NULL ELSE s[k - 1] BY <1>3
      <3>4. k # 1 => j - 1 \in 1 .. n - 1 /\ j - 1 < k /\ j - 1 = k - 1 BY <1>1, <2>1
      <3>5. k # 1 => t[j - 1] = s[k - 1] BY <1>4, <3>4
      <3> QED BY <2>1, <3>2, <3>3, <3>5
    <2>2. CASE j # k
      <3>1. k # n => k + 1 \in 1 .. n BY <1>1
      <3>2. at(j) # k + 1 BY <1>1, <2>2
      <3>3. k # n => s[at(j)] # s[k + 1] BY <1>3, <1>6, <3>1, <3>2 DEF Distinct
      <3>4. pv1[t[j]] = pv[s[at(j)]] BY <1>2, <1>6, <3>3
      <3>5. pv[s[at(j)]] = IF at(j) = 1 THEN NULL ELSE s[at(j) - 1] BY <1>3, <1>6
      <3>6. at(j) = 1 <=> j = 1 BY <1>1, <2>2
      <3>7. j # 1 => j - 1 \in 1 .. n - 1 /\ at(j - 1) = at(j) - 1 BY <1>1, <2>2
      <3>8. j # 1 => t[j - 1] = s[at(j) - 1] BY <1>6, <3>7
      <3> QED BY <3>4, <3>5, <3>6, <3>8
    <2> QED BY <2>1, <2>2
  <1>11. LastOf(t) = IF k = n THEN pv[s[k]] ELSE LastOf(s)
    <2>1. CASE n = 1
      <3>1. k = 1 /\ k = n BY <1>1, <2>1
      <3> QED BY <1>3, <1>5, <2>1, <3>1 DEF LastOf
    <2>2. CASE n # 1
      <3>1. n - 1 \in 1 .. n - 1 /\ LastOf(t) = t[n - 1] /\ LastOf(s) = s[n]
        BY <1>1, <1>4, <1>5, <2>2 DEF LastOf
      <3>2. CASE k = n
        <4>1. n - 1 < k /\ k # 1 BY <1>1, <2>2, <3>2
        <4>2. t[n - 1] = s[n - 1] BY <1>4, <3>1, <4>1
        <4>3. pv[s[k]] = s[k - 1] BY <1>3, <4>1
        <4> QED BY <3>1, <3>2, <4>2, <4>3
      <3>3. CASE k # n
        <4>1. ~ (n - 1 < k) /\ (n - 1) + 1 = n BY <1>1, <3>3
        <4>2. t[n - 1] = s[n] BY <1>4, <3>1, <4>1
        <4> QED BY <3>1, <3>3, <4>2
      <3> QED BY <3>2, <3>3
    <2> QED BY <2>1, <2>2
  <1>12. Linked(nx1, pv1, h1, t) BY <1>4, <1>7, <1>8, <1>9, <1>10 DEF Linked
  <1> QED BY <1>11, <1>12 DEF t

\* What the links of an element say about its place.
LEMMA LinkedPlace ==
  ASSUME NEW nx, NEW pv, NEW h, NEW s \in Seq(Ptr), Linked(nx, pv, h, s), NEW k \in 1 .. Len(s)
  PROVE  /\ s[k] = h <=> k = 1
         /\ s[k] = LastOf(s) <=> k = Len(s)
         /\ pv[s[k]] = NULL <=> k = 1
         /\ nx[s[k]] = NULL <=> k = Len(s)
         /\ k # 1 => k - 1 \in 1 .. Len(s) /\ pv[s[k]] = s[k - 1]
         /\ k # Len(s) => k + 1 \in 1 .. Len(s) /\ nx[s[k]] = s[k + 1]
         /\ nx[s[k]] # NULL => nx[s[k]] \in Elems(s)
         /\ pv[s[k]] # NULL => pv[s[k]] \in Elems(s)
  <1>1. Len(s) \in Nat /\ s # <<>> /\ \A j \in 1 .. Len(s) : s[j] # NULL /\ s[j] \in Elems(s)
    BY SeqBasics
  <1>2. (k # 1 => k - 1 \in 1 .. Len(s)) /\ (k # Len(s) => k + 1 \in 1 .. Len(s)) BY <1>1
  <1>3. 1 \in 1 .. Len(s) /\ Len(s) \in 1 .. Len(s) BY <1>1
  <1>4. /\ k # 1 => pv[s[k]] = s[k - 1]
        /\ k = 1 => pv[s[k]] = NULL
        /\ k # Len(s) => nx[s[k]] = s[k + 1]
        /\ k = Len(s) => nx[s[k]] = NULL
        /\ h = s[1] /\ LastOf(s) = s[Len(s)]
    BY <1>1 DEF Linked, LastOf
  <1>5. (s[k] = s[1] <=> k = 1) /\ (s[k] = s[Len(s)] <=> k = Len(s)) BY <1>3 DEF Linked, Distinct
  <1> QED BY <1>1, <1>2, <1>4, <1>5

(***************************************************************************)
(* The invariant.  Between the accesses of a client's enqueue_ctx the run  *)
(* queue is not what qs says: the new context is linked in before          *)
(* ctx_queue_last is set.  What is kept in every state, as long as no step *)
(* of the evaluator falls in between, is that Qs is linked properly.       *)
(***************************************************************************)
Qs == IF cpc = "last" THEN Append(qs, cnew) ELSE qs

Lists ==
  /\ Linked(next, prev, ctx_queue, Qs)
  /\ ctx_queue_last = LastOf(qs)
  /\ Linked(next, prev, ctx_done, ds)
  /\ cpc \in {"first", "append"} => prev[cnew] = LastOf(qs) /\ next[cnew] = NULL
  /\ cpc = "first" => qs = <<>>
  /\ cpc = "append" => qs # <<>>

Apart ==
  /\ Elems(qs) \cap Elems(ds) = {}
  /\ ctx_running \notin Elems(qs) \cup Elems(ds)
  /\ cnew \notin Elems(qs) \cup Elems(ds)
  /\ cnew # NULL => cnew # ctx_running

Owned == alive = Elems(qs) \cup Elems(ds) \cup ({ctx_running, cnew} \ {NULL})

\* A search of either list is at one of its contexts.
Scanning ==
  /\ pc = "dequeue" => curr \in Elems(Qs) \cup {NULL}
  /\ pc = "search" => curr \in Elems(ds) \cup {NULL}

\* The clock, read from a time stamp, never shows more than has passed.
Shown(p, t) ==
  IF timestamp[p] > t THEN (ClockModulus - 1 - timestamp[p]) + t ELSE t - timestamp[p]
SleptFor(p, t) == sleep_us[p] = 0 \/ Shown(p, t) <= elapsed[p]
Slept ==
  /\ \A p \in Elems(qs) : SleptFor(p, now) /\ (pc = "dequeue" => SleptFor(p, t_now))
  /\ cnew # NULL => sleep_us[cnew] = 0

Proper == Lists /\ Apart /\ Owned /\ Scanning /\ Slept

LEMMA TypeFacts ==
  ASSUME TypeOK
  PROVE  /\ prev \in [Ptr -> Ptr \cup {NULL}] /\ next \in [Ptr -> Ptr \cup {NULL}]
         /\ qs \in Seq(Ptr) /\ ds \in Seq(Ptr)
         /\ ctx_queue \in Ptr \cup {NULL} /\ ctx_queue_last \in Ptr \cup {NULL}
         /\ ctx_done \in Ptr \cup {NULL} /\ ctx_running \in Ptr \cup {NULL}
         /\ curr \in Ptr \cup {NULL} /\ cnew \in Ptr \cup {NULL} /\ alive \subseteq Ptr
         /\ NULL \notin Elems(qs) /\ NULL \notin Elems(ds)
  <1>1. qs \in Seq(Ptr) /\ ds \in Seq(Ptr) BY DEF TypeOK
  <1>2. NULL \notin Elems(qs) /\ NULL \notin Elems(ds) BY <1>1, SeqBasics, PtrFacts
  <1> QED BY <1>1, <1>2 DEF TypeOK

LEMMA EnqueueLists ==
  ASSUME TypeOK, Lists, Apart, NEW p \in Ptr, p \notin Elems(qs) \cup Elems(ds), enqueue_ctx(p),
         UNCHANGED <<cpc, cnew>>, ~ raced'
  PROVE  Lists' /\ Elems(qs') = Elems(qs) \cup {p} /\ ds' = ds /\ Elems(Qs') = Elems(qs')
  <1>1. /\ prev' = [prev EXCEPT ![p] = ctx_queue_last]
        /\ IF ctx_queue_last = NULL
             THEN ctx_queue' = p /\ next' = [next EXCEPT ![p] = NULL]
             ELSE next' = [next EXCEPT ![p] = NULL, ![ctx_queue_last] = p] /\ ctx_queue' = ctx_queue
        /\ ctx_queue_last' = p /\ qs' = Append(qs, p) /\ ctx_done' = ctx_done /\ ds' = ds
    BY DEF enqueue_ctx
  <1>2. cpc \notin {"first", "append", "last"} /\ cpc' = cpc BY DEF enqueue_ctx, Overlap
  <1>3. Qs = qs /\ Qs' = qs' BY <1>2 DEF Qs
  <1>4. /\ Linked(next, prev, ctx_queue, qs) /\ ctx_queue_last = LastOf(qs)
        /\ Linked(next, prev, ctx_done, ds)
    BY <1>3 DEF Lists
  <1>5. ctx_queue_last = NULL <=> qs = <<>> BY <1>4, TypeFacts, SeqBasics
  <1>6. Linked(next', prev', ctx_queue', Append(qs, p)) /\ LastOf(Append(qs, p)) = p
    <2>1. LinksAfter(next, prev, ctx_queue, qs, p, next', prev', ctx_queue')
      BY <1>1, <1>4, <1>5 DEF LinksAfter
    <2>2. /\ next \in [Ptr -> Ptr \cup {NULL}] /\ prev \in [Ptr -> Ptr \cup {NULL}]
          /\ qs \in Seq(Ptr) /\ p \notin Elems(qs) /\ Linked(next, prev, ctx_queue, qs)
      BY <1>4, TypeFacts
    <2> QED BY <2>1, <2>2, LinkedAppend
  <1>7. Linked(next', prev', ctx_done', ds')
    <2>1. ctx_queue_last # NULL => ctx_queue_last \in Elems(qs) BY <1>4, <1>5, TypeFacts, SeqBasics
    <2>2. ASSUME NEW q \in Elems(ds) PROVE next'[q] = next[q] /\ prev'[q] = prev[q]
      <3>1. q # p /\ q # ctx_queue_last /\ q \in Ptr
        BY <2>1, TypeFacts, SeqBasics DEF Apart
      <3> QED BY <1>1, <3>1, TypeFacts
    <2>3. Linked(next', prev', ctx_done, ds) BY <1>4, <2>2, LinkedElsewhere
    <2> QED BY <1>1, <2>3
  <1>8. Elems(qs') = Elems(qs) \cup {p} BY <1>1, TypeFacts, AppendFacts
  <1> QED BY <1>1, <1>2, <1>3, <1>6, <1>7, <1>8 DEF Lists

LEMMA UnlinkLists ==
  ASSUME TypeOK, Lists, Apart, NEW p \in Elems(Qs), Unlink(p), UNCHANGED <<cpc, cnew>>, ~ raced'
  PROVE  Lists' /\ p \in Elems(qs) /\ Elems(qs') = Elems(qs) \ {p} /\ ds' = ds
  <1>1. cpc \notin {"first", "append", "last"} /\ cpc' = cpc BY DEF Unlink, Overlap
  <1>2. Qs = qs /\ Qs' = qs' BY <1>1 DEF Qs
  <1>3. PICK k \in 1 .. Len(qs) : p = qs[k] BY <1>2 DEF Elems
  <1>4. /\ Linked(next, prev, ctx_queue, qs) /\ ctx_queue_last = LastOf(qs)
        /\ Linked(next, prev, ctx_done, ds)
    BY <1>2 DEF Lists
  <1>5. qs' = Without(qs, p) /\ ds' = ds /\ ctx_done' = ctx_done BY DEF Unlink
  <1>6. /\ p = ctx_queue_last <=> k = Len(qs)
        /\ prev[p] = NULL <=> k = 1
        /\ next[p] = NULL <=> k = Len(qs)
        /\ k # 1 => k - 1 \in 1 .. Len(qs) /\ prev[p] = qs[k - 1]
        /\ k # Len(qs) => k + 1 \in 1 .. Len(qs) /\ next[p] = qs[k + 1]
    BY <1>3, <1>4, TypeFacts, LinkedPlace
  <1>7. ctx_queue' = IF k = 1 THEN next[qs[k]] ELSE ctx_queue
    BY <1>3, <1>6 DEF Unlink
  <1>8. next' = IF k = 1 THEN next ELSE [next EXCEPT ![qs[k - 1]] = next[qs[k]]]
    BY <1>3, <1>6 DEF Unlink
  <1>9. prev' = IF k = Len(qs) THEN prev ELSE [prev EXCEPT ![qs[k + 1]] = prev[qs[k]]]
    BY <1>3, <1>6 DEF Unlink
  <1>10. ctx_queue_last' = IF k = Len(qs) THEN prev[qs[k]] ELSE ctx_queue_last
    BY <1>3, <1>6 DEF Unlink
  <1>11. Linked(next', prev', ctx_queue', qs') /\ ctx_queue_last' = LastOf(qs')
    <2>1. next \in [Ptr -> Ptr \cup {NULL}] /\ prev \in [Ptr -> Ptr \cup {NULL}] /\ qs \in Seq(Ptr)
      BY TypeFacts
    <2>2. /\ Linked(next', prev', ctx_queue', Without(qs, qs[k]))
          /\ LastOf(Without(qs, qs[k])) = IF k = Len(qs) THEN prev[qs[k]] ELSE LastOf(qs)
      BY <1>4, <1>7, <1>8, <1>9, <2>1, LinkedRemove
    <2> QED BY <1>3, <1>4, <1>5, <1>10, <2>2
  <1>12. Elems(qs') = Elems(qs) \ {p}
    <2>1. Distinct(qs) BY <1>4 DEF Linked
    <2> QED BY <1>3, <1>5, <2>1, TypeFacts, WithoutFacts
  <1>13. Linked(next', prev', ctx_done', ds')
    <2>1. ASSUME NEW q \in Elems(ds) PROVE next'[q] = next[q] /\ prev'[q] = prev[q]
      <3>1. \A j \in 1 .. Len(qs) : q # qs[j] BY DEF Apart, Elems
      <3>2. q \in Ptr BY TypeFacts, SeqBasics
      <3> QED BY <1>6, <1>8, <1>9, <3>1, <3>2, TypeFacts
    <2> QED BY <1>4, <1>5, <2>1, LinkedElsewhere
  <1>14. p \in Elems(qs) BY <1>2
  <1> QED BY <1>1, <1>2, <1>5, <1>11, <1>12, <1>13, <1>14 DEF Lists

\* A change of the links of p and of contexts of the done list leaves the run
\* queue alone.
LEMMA QueueElsewhere ==
  ASSUME TypeOK, Lists, Apart, NEW p, p \notin Elems(qs), p # cnew \/ cnew = NULL,
         cpc # "ready" => cnew # NULL,
         \A q \in Ptr : q # p /\ q \notin Elems(ds) => next'[q] = next[q] /\ prev'[q] = prev[q],
         UNCHANGED <<cpc, cnew, qs, ctx_queue, ctx_queue_last>>
  PROVE  /\ Linked(next', prev', ctx_queue', Qs') /\ ctx_queue_last' = LastOf(qs')
         /\ cpc' \in {"first", "append"} => prev'[cnew'] = LastOf(qs') /\ next'[cnew'] = NULL
         /\ Elems(Qs') = Elems(Qs)
  <1>1. Qs' = Qs BY DEF Qs
  <1>2. ASSUME NEW q \in Elems(Qs) PROVE q \in Ptr /\ q # p /\ q \notin Elems(ds)
    <2>1. CASE cpc = "last"
      <3>1. cnew \in Ptr BY <2>1, TypeFacts
      <3>2. Elems(Qs) = Elems(qs) \cup {cnew} BY <2>1, <3>1, TypeFacts, AppendFacts DEF Qs
      <3>3. q \in Elems(qs) \/ q = cnew BY <3>2
      <3> QED BY <2>1, <3>1, <3>3, TypeFacts, SeqBasics DEF Apart
    <2>2. CASE cpc # "last"
      <3>1. q \in Elems(qs) BY <2>2 DEF Qs
      <3> QED BY <3>1, TypeFacts, SeqBasics DEF Apart
    <2> QED BY <2>1, <2>2
  <1>3. Linked(next', prev', ctx_queue', Qs') BY <1>1, <1>2, LinkedElsewhere DEF Lists
  <1>4. cpc' \in {"first", "append"} => prev'[cnew'] = LastOf(qs') /\ next'[cnew'] = NULL
    <2> SUFFICES ASSUME cpc \in {"first", "append"}
                 PROVE  prev'[cnew] = LastOf(qs) /\ next'[cnew] = NULL
      OBVIOUS
    <2>1. cnew \in Ptr /\ cnew # p /\ cnew \notin Elems(ds) BY TypeFacts DEF Apart
    <2> QED BY <2>1 DEF Lists
  <1> QED BY <1>1, <1>3, <1>4 DEF Lists

LEMMA FinishLists ==
  ASSUME TypeOK, Lists, Apart, Control, NEW p \in Ptr, p = ctx_running, finish_ctx(p),
         UNCHANGED <<cpc, cnew>>
  PROVE  /\ Lists' /\ qs' = qs
         /\ Elems(ds') \cap Elems(qs) = {} /\ cnew \notin Elems(ds')
         /\ \/ alive' = alive \ {p} /\ Elems(ds') = Elems(ds)
            \/ alive' = alive /\ Elems(ds') = Elems(ds) \cup {p}
  <1>1. /\ next' = [next EXCEPT ![p] = ctx_done]
        /\ UNCHANGED <<ctx_queue, ctx_queue_last, qs, raced>>
    BY DEF finish_ctx
  <1>2. p \notin Elems(qs) /\ p \notin Elems(ds) /\ (cnew # NULL => cnew # p) BY DEF Apart
  <1>3. Linked(next, prev, ctx_done, ds) BY DEF Lists
  <1>4. ctx_done # NULL => ctx_done \in Elems(ds)
    <2>1. ctx_done = IF ds = <<>> THEN NULL ELSE ds[1] BY <1>3 DEF Linked
    <2>2. ds # <<>> => 1 \in 1 .. Len(ds) BY TypeFacts, SeqBasics
    <2> QED BY <2>1, <2>2 DEF Elems
  <1>5. CASE /\ alive' = alive \ {p} /\ prev' = [prev EXCEPT ![p] = NULL]
             /\ UNCHANGED <<ctx_done, ds>>
    <2>1. \A q \in Ptr : q # p => next'[q] = next[q] /\ prev'[q] = prev[q]
      BY <1>1, <1>5, TypeFacts
    <2>2. Linked(next', prev', ctx_done', ds')
      <3>1. \A q \in Elems(ds) : q \in Ptr /\ q # p BY <1>2, TypeFacts, SeqBasics
      <3>2. \A q \in Elems(ds) : next'[q] = next[q] /\ prev'[q] = prev[q] BY <2>1, <3>1
      <3>3. Linked(next', prev', ctx_done, ds) BY <1>3, <3>2, LinkedElsewhere
      <3> QED BY <1>5, <3>3
    <2>3. /\ Linked(next', prev', ctx_queue', Qs') /\ ctx_queue_last' = LastOf(qs')
          /\ cpc' \in {"first", "append"} => prev'[cnew'] = LastOf(qs') /\ next'[cnew'] = NULL
      BY <1>1, <1>2, <2>1, QueueElsewhere DEF Control
    <2>4. Lists' BY <1>1, <2>2, <2>3 DEF Lists
    <2> QED BY <1>1, <1>5, <2>4 DEF Apart
  <1>6. CASE /\ ctx_done' = p /\ ds' = <<p>> \o ds /\ alive' = alive
             /\ prev' = IF ctx_done = NULL THEN [prev EXCEPT ![p] = NULL]
                        ELSE [prev EXCEPT ![p] = NULL, ![ctx_done] = p]
    <2>1. ASSUME NEW q \in Ptr, q # p, q \notin Elems(ds)
          PROVE  next'[q] = next[q] /\ prev'[q] = prev[q]
      BY <1>1, <1>4, <1>6, <2>1, TypeFacts
    <2>2. Linked(next', prev', ctx_done', ds')
      BY <1>1, <1>2, <1>3, <1>6, TypeFacts, LinkedPush
    <2>3. /\ Linked(next', prev', ctx_queue', Qs') /\ ctx_queue_last' = LastOf(qs')
          /\ cpc' \in {"first", "append"} => prev'[cnew'] = LastOf(qs') /\ next'[cnew'] = NULL
      BY <1>1, <1>2, <2>1, QueueElsewhere DEF Control
    <2>4. Lists' BY <1>1, <2>2, <2>3 DEF Lists
    <2>5. Elems(ds') = Elems(ds) \cup {p} BY <1>6, TypeFacts, ConsFacts
    <2>6. p # cnew BY <1>2, PtrFacts
    <2> QED BY <1>1, <1>2, <1>6, <2>4, <2>5, <2>6 DEF Apart
  <1> QED BY <1>5, <1>6 DEF finish_ctx

LEMMA RemoveDoneLists ==
  ASSUME TypeOK, Lists, Apart, Control, NEW p \in Elems(ds), RemoveDone(p), UNCHANGED <<cpc, cnew>>
  PROVE  /\ Lists' /\ qs' = qs /\ alive' = alive \ {p} /\ Elems(ds') = Elems(ds) \ {p}
  <1>1. PICK k \in 1 .. Len(ds) : p = ds[k] BY DEF Elems
  <1>2. Linked(next, prev, ctx_done, ds) BY DEF Lists
  <1>3. /\ ds' = Without(ds, p) /\ alive' = alive \ {p}
        /\ UNCHANGED <<ctx_queue, ctx_queue_last, qs, raced>>
    BY DEF RemoveDone
  <1>4. /\ p = ctx_done <=> k = 1
        /\ prev[p] = NULL <=> k = 1
        /\ next[p] = NULL <=> k = Len(ds)
        /\ k # 1 => k - 1 \in 1 .. Len(ds) /\ prev[p] = ds[k - 1]
        /\ k # Len(ds) => k + 1 \in 1 .. Len(ds) /\ next[p] = ds[k + 1]
    BY <1>1, <1>2, TypeFacts, LinkedPlace
  <1>5. ctx_done' = IF k = 1 THEN next[ds[k]] ELSE ctx_done BY <1>1, <1>4 DEF RemoveDone
  <1>6. next' = IF k = 1 THEN next ELSE [next EXCEPT ![ds[k - 1]] = next[ds[k]]]
    BY <1>1, <1>4 DEF RemoveDone
  <1>7. prev' = IF k = Len(ds) THEN prev ELSE [prev EXCEPT ![ds[k + 1]] = prev[ds[k]]]
    BY <1>1, <1>4 DEF RemoveDone
  <1>8. Linked(next', prev', ctx_done', ds')
    BY <1>1, <1>2, <1>3, <1>5, <1>6, <1>7, TypeFacts, LinkedRemove
  <1>9. Elems(ds') = Elems(ds) \ {p}
    <2>1. Distinct(ds) BY <1>2 DEF Linked
    <2> QED BY <1>1, <1>3, <2>1, TypeFacts, WithoutFacts
  <1>10. p \notin Elems(qs) /\ p # cnew BY DEF Apart
  <1>11. ASSUME NEW q \in Ptr, q # p, q \notin Elems(ds)
         PROVE  next'[q] = next[q] /\ prev'[q] = prev[q]
    <2>1. \A j \in 1 .. Len(ds) : q # ds[j] BY <1>11 DEF Elems
    <2> QED BY <1>4, <1>6, <1>7, <2>1, TypeFacts
  <1>12. /\ Linked(next', prev', ctx_queue', Qs') /\ ctx_queue_last' = LastOf(qs')
         /\ cpc' \in {"first", "append"} => prev'[cnew'] = LastOf(qs') /\ next'[cnew'] = NULL
    BY <1>3, <1>10, <1>11, QueueElsewhere DEF Control
  <1>13. Lists' BY <1>3, <1>8, <1>12 DEF Lists
  <1> QED BY <1>3, <1>9, <1>13

LEMMA QsFacts ==
  ASSUME TypeOK, Control
  PROVE  /\ Qs \in Seq(Ptr) /\ Elems(qs) \subseteq Elems(Qs)
         /\ Elems(Qs) \subseteq Elems(qs) \cup {cnew} /\ NULL \notin Elems(Qs)
         /\ cpc # "ready" => cnew \in Ptr
  <1>1. cpc # "ready" => cnew \in Ptr BY TypeFacts DEF Control
  <1>2. CASE cpc = "last"
    <2>1. /\ Append(qs, cnew) \in Seq(Ptr)
          /\ Elems(Append(qs, cnew)) = Elems(qs) \cup {cnew}
      BY <1>1, <1>2, TypeFacts, AppendFacts
    <2>2. NULL \notin Elems(Append(qs, cnew)) BY <2>1, SeqBasics, PtrFacts
    <2> QED BY <1>1, <1>2, <2>1, <2>2 DEF Qs
  <1>3. CASE cpc # "last" BY <1>1, <1>3, TypeFacts DEF Qs
  <1> QED BY <1>2, <1>3

LEMMA HeadOf ==
  ASSUME NEW nx, NEW pv, NEW h, NEW s \in Seq(Ptr), Linked(nx, pv, h, s)
  PROVE  h \in Elems(s) \cup {NULL}
  <1>1. h = IF s = <<>> THEN NULL ELSE s[1] BY DEF Linked
  <1>2. s # <<>> => 1 \in 1 .. Len(s) BY SeqBasics
  <1> QED BY <1>1, <1>2, SeqBasics

\* The next context of a list, from one of its contexts.
LEMMA NextOf ==
  ASSUME NEW nx, NEW pv, NEW h, NEW s \in Seq(Ptr), Linked(nx, pv, h, s), NEW p \in Elems(s)
  PROVE  nx[p] \in Elems(s) \cup {NULL}
  <1>1. PICK k \in 1 .. Len(s) : p = s[k] BY DEF Elems
  <1> QED BY <1>1, LinkedPlace

LEMMA InitProper == Init => Proper
  <1> SUFFICES ASSUME Init PROVE Proper OBVIOUS
  <1> DEFINE s == [k \in 1 .. NumStarted |-> k]
  <1>1. NumStarted \in 1 .. NumCtx /\ NumStarted \in Nat /\ NumCtx \in Nat BY SchedulerAssumption
  <1>2. s \in Seq(Ptr) /\ Len(s) = NumStarted /\ s # <<>> /\ \A k \in 1 .. NumStarted : s[k] = k
    BY <1>1 DEF Ptr
  <1>3. qs = s /\ ds = <<>> /\ cpc = "ready" /\ Qs = s BY DEF Init, Qs
  <1> HIDE DEF s
  <1>4. Elems(qs) = 1 .. NumStarted BY <1>2, <1>3 DEF Elems
  <1>5. Elems(ds) = {} /\ Len(ds) = 0 /\ LastOf(ds) = NULL BY <1>3 DEF Elems, LastOf
  <1>6. /\ next = [p \in Ptr |-> IF p < NumStarted THEN p + 1 ELSE NULL]
        /\ prev = [p \in Ptr |-> IF p <= NumStarted THEN p - 1 ELSE NULL]
        /\ ctx_queue = 1 /\ ctx_queue_last = NumStarted /\ ctx_done = NULL /\ ctx_running = NULL
        /\ alive = 1 .. NumStarted /\ pc = "loop" /\ cnew = NULL
        /\ sleep_us = [p \in Ptr |-> 0]
    BY DEF Init
  <1>7. Linked(next, prev, ctx_queue, Qs)
    <2>1. Distinct(s) BY <1>2 DEF Distinct
    <2>2. ctx_queue = s[1] BY <1>1, <1>2, <1>6
    <2>3. ASSUME NEW k \in 1 .. NumStarted PROVE next[s[k]] = IF k = NumStarted THEN NULL ELSE s[k + 1]
      <3>1. k \in Ptr /\ s[k] = k BY <1>1, <1>2 DEF Ptr
      <3>2. k # NumStarted => k < NumStarted /\ k + 1 \in 1 .. NumStarted BY <1>1
      <3> QED BY <1>1, <1>2, <1>6, <3>1, <3>2
    <2>4. ASSUME NEW k \in 1 .. NumStarted PROVE prev[s[k]] = IF k = 1 THEN NULL ELSE s[k - 1]
      <3>1. k \in Ptr /\ s[k] = k /\ k <= NumStarted BY <1>1, <1>2 DEF Ptr
      <3>2. k # 1 => k - 1 \in 1 .. NumStarted BY <1>1
      <3> QED BY <1>1, <1>2, <1>6, <3>1, <3>2 DEF NULL
    <2> QED BY <1>2, <1>3, <2>1, <2>2, <2>3, <2>4 DEF Linked
  <1>8. Linked(next, prev, ctx_done, ds) BY <1>3, <1>5, <1>6 DEF Linked, Distinct
  <1>9. ctx_queue_last = LastOf(qs)
    <2>1. NumStarted \in 1 .. NumStarted BY <1>1
    <2> QED BY <1>2, <1>3, <1>6, <2>1 DEF LastOf
  <1>10. Lists BY <1>3, <1>7, <1>8, <1>9 DEF Lists
  <1>11. NULL \notin 1 .. NumStarted BY DEF NULL
  <1>12. Apart /\ Owned BY <1>4, <1>5, <1>6, <1>11 DEF Apart, Owned
  <1>13. Scanning BY <1>6 DEF Scanning
  <1>14. Slept
    <2>1. \A p \in Elems(qs) : sleep_us[p] = 0 BY <1>1, <1>4, <1>6 DEF Ptr
    <2> QED BY <1>6, <2>1 DEF Slept, SleptFor
  <1> QED BY <1>10, <1>12, <1>13, <1>14 DEF Proper

(***************************************************************************)
(* The steps, by what they change                                          *)
(***************************************************************************)
\* The evaluator looks at the lists, or computes.
LEMMA LookProper ==
  ASSUME TypeOK, Proper, UNCHANGED <<lists, client, ctx_running, alive, now>>,
         UNCHANGED <<timestamp, sleep_us, elapsed>>, Scanning',
         pc' = "dequeue" => t_now' = now \/ (pc = "dequeue" /\ t_now' = t_now)
  PROVE  Proper'
  <1>1. /\ UNCHANGED <<prev, next, ctx_queue, ctx_queue_last, ctx_done, qs, ds>>
        /\ UNCHANGED <<cpc, cnew>>
    BY DEF lists, client
  <1>2. Lists' BY <1>1 DEF Proper, Lists, Qs
  <1>3. Apart' /\ Owned' BY <1>1 DEF Proper, Apart, Owned
  <1>4. Slept'
    <2>1. ASSUME NEW p \in Elems(qs)
          PROVE  SleptFor(p, now)' /\ (pc' = "dequeue" => SleptFor(p, t_now)')
      <3>1. SleptFor(p, now) /\ (pc = "dequeue" => SleptFor(p, t_now)) BY DEF Proper, Slept
      <3> QED BY <3>1 DEF SleptFor, Shown
    <2> QED BY <1>1, <2>1 DEF Proper, Slept
  <1> QED BY <1>2, <1>3, <1>4 DEF Proper

\* A context goes to the end of the run queue: the running one or a new one.
LEMMA EnqueueProper ==
  ASSUME TypeOK, Control, Proper, ~ raced', NEW p \in Ptr,
         enqueue_ctx(p), UNCHANGED <<cpc, cnew, now>>, pc' = "loop",
         \/ p = ctx_running /\ ctx_running' = NULL /\ alive' = alive
         \/ p \notin alive /\ ctx_running' = ctx_running /\ alive' = alive \cup {p},
         SleptFor(p, now)',
         \A q \in Ptr \ {p} : /\ timestamp'[q] = timestamp[q] /\ sleep_us'[q] = sleep_us[q]
                              /\ elapsed'[q] = elapsed[q]
  PROVE  Proper'
  <1>0. Lists /\ Apart /\ Owned /\ Slept BY DEF Proper
  <1>1. p \notin Elems(qs) \cup Elems(ds) /\ p # cnew /\ (p # ctx_running => p \notin alive)
    <2>1. CASE p = ctx_running BY <1>0, <2>1, PtrFacts DEF Apart
    <2>2. CASE p \notin alive BY <1>0, <2>2, PtrFacts DEF Owned
    <2> QED BY <2>1, <2>2
  <1>2. Lists' /\ Elems(qs') = Elems(qs) \cup {p} /\ ds' = ds BY <1>0, <1>1, EnqueueLists
  <1>3. ctx_running' # p /\ (ctx_running' = ctx_running \/ ctx_running' = NULL)
    <2>1. CASE p = ctx_running /\ ctx_running' = NULL BY <2>1, PtrFacts
    <2>2. CASE p \notin alive /\ ctx_running' = ctx_running BY <1>0, <2>2, PtrFacts DEF Owned
    <2> QED BY <2>1, <2>2
  <1>4. NULL \notin Elems(qs) /\ NULL \notin Elems(ds) /\ p # NULL BY TypeFacts, PtrFacts
  <1>5. Apart' BY <1>0, <1>1, <1>2, <1>3, <1>4 DEF Apart
  <1>6. Owned'
    <2>1. CASE p = ctx_running /\ ctx_running' = NULL /\ alive' = alive
      BY <1>0, <1>2, <1>4, <2>1 DEF Owned
    <2>2. CASE ctx_running' = ctx_running /\ alive' = alive \cup {p}
      BY <1>0, <1>2, <1>4, <2>2 DEF Owned
    <2> QED BY <2>1, <2>2
  <1>7. Scanning' BY DEF Scanning
  <1>8. Slept'
    <2>1. ASSUME NEW q \in Elems(qs') PROVE SleptFor(q, now)'
      <3>1. CASE q = p BY <3>1
      <3>2. CASE q # p
        <4>1. q \in Elems(qs) /\ q \in Ptr \ {p} BY <1>2, <3>2, TypeFacts, SeqBasics
        <4>2. SleptFor(q, now) BY <1>0, <4>1 DEF Slept
        <4> QED BY <4>1, <4>2 DEF SleptFor, Shown
      <3> QED BY <3>1, <3>2
    <2>2. cnew' # NULL => sleep_us'[cnew'] = 0
      <3>1. cnew # NULL => cnew \in Ptr \ {p} BY <1>1, TypeFacts
      <3> QED BY <1>0, <3>1 DEF Slept
    <2> QED BY <2>1, <2>2 DEF Slept
  <1> QED BY <1>2, <1>5, <1>6, <1>7, <1>8 DEF Proper

LEMMA YieldProper ==
  ASSUME TypeOK, Control, Proper, ~ raced', NEW us, ctx_running # NULL, yield_ctx(us),
         UNCHANGED <<cpc, cnew, now, alive>>, pc' = "loop"
  PROVE  Proper'
  <1>1. PICK p \in Ptr : p = ctx_running BY TypeFacts
  <1>2. /\ timestamp' = [timestamp EXCEPT ![p] = now] /\ sleep_us' = [sleep_us EXCEPT ![p] = us]
        /\ elapsed' = [elapsed EXCEPT ![p] = 0]
        /\ enqueue_ctx(p) /\ ctx_running' = NULL
    BY <1>1 DEF yield_ctx
  <1>3. /\ timestamp \in [Ptr -> 0 .. ClockModulus - 1] /\ elapsed \in [Ptr -> 0 .. MaxLag]
        /\ sleep_us \in [Ptr -> Sleeps \cup {0, WaitSleep}] /\ now \in 0 .. ClockModulus - 1
    BY DEF TypeOK
  <1>4. timestamp'[p] = now /\ elapsed'[p] = 0 BY <1>1, <1>2, <1>3
  <1>5. SleptFor(p, now)'
    <2>1. now \in Nat /\ ~ (now > now) /\ now - now = 0 BY <1>3, SchedulerAssumption
    <2>2. Shown(p, now)' = 0 BY <1>4, <2>1 DEF Shown
    <2> QED BY <1>4, <2>2 DEF SleptFor
  <1>6. \A q \in Ptr \ {p} : /\ timestamp'[q] = timestamp[q] /\ sleep_us'[q] = sleep_us[q]
                             /\ elapsed'[q] = elapsed[q]
    BY <1>1, <1>2, <1>3
  <1>7. p = ctx_running /\ ctx_running' = NULL /\ alive' = alive BY <1>1, <1>2
  <1> QED BY <1>2, <1>5, <1>6, <1>7, EnqueueProper

\* create_ctx, with a mod kept out of the provers' sight.
LEMMA CreateFacts ==
  ASSUME TypeOK, NEW p \in Ptr, create_ctx(p)
  PROVE  /\ p \notin alive /\ alive' = alive \cup {p}
         /\ timestamp' = [timestamp EXCEPT ![p] = 0] /\ sleep_us' = [sleep_us EXCEPT ![p] = 0]
         /\ elapsed' = [elapsed EXCEPT ![p] = 0]
         /\ sleep_us'[p] = 0
         /\ \A q \in Ptr \ {p} : /\ timestamp'[q] = timestamp[q] /\ sleep_us'[q] = sleep_us[q]
                                 /\ elapsed'[q] = elapsed[q]
  <1>1. p \in Ptr \ alive /\ alive' = alive \cup {p} BY Zenon DEF create_ctx
  <1>2. /\ timestamp' = [timestamp EXCEPT ![p] = 0] /\ sleep_us' = [sleep_us EXCEPT ![p] = 0]
        /\ elapsed' = [elapsed EXCEPT ![p] = 0]
    BY Zenon DEF create_ctx
  <1>3. /\ timestamp \in [Ptr -> 0 .. ClockModulus - 1] /\ elapsed \in [Ptr -> 0 .. MaxLag]
        /\ sleep_us \in [Ptr -> Sleeps \cup {0, WaitSleep}]
    BY DEF TypeOK
  <1> QED BY <1>1, <1>2, <1>3

LEMMA DequeueProper ==
  ASSUME TypeOK, Control, Proper, ~ raced', dequeue_ctx
  PROVE  /\ Proper'
         /\ \A p \in Ptr : ctx_running # p /\ ctx_running' = p => elapsed[p] >= sleep_us[p]
  <1>0. Lists /\ Apart /\ Owned /\ Scanning /\ Slept BY DEF Proper
  <1>1. PICK p \in Ptr : p = curr BY TypeFacts DEF dequeue_ctx
  <1>2. /\ pc = "dequeue" /\ p \in Elems(Qs) /\ ctx_running = NULL
        /\ UNCHANGED <<timestamp, sleep_us, alive, cpc, cnew, now>>
    BY <1>0, <1>1, PtrFacts DEF dequeue_ctx, Scanning, Control, client
  <1>3. CASE t_diff(curr) >= sleep_us[curr]
    <2>1. Unlink(p) /\ ctx_running' = p /\ elapsed' = [elapsed EXCEPT ![p] = 0] /\ pc' = "loop"
      BY <1>1, <1>3 DEF dequeue_ctx
    <2>2. /\ Lists' /\ p \in Elems(qs) /\ Elems(qs') = Elems(qs) \ {p} /\ ds' = ds
      BY <1>0, <1>2, <2>1, UnlinkLists
    <2>3. NULL \notin Elems(qs) /\ NULL \notin Elems(ds) /\ p # NULL BY TypeFacts, PtrFacts
    <2>4. Apart' BY <1>0, <1>2, <2>1, <2>2, <2>3 DEF Apart
    <2>5. Owned' BY <1>0, <1>2, <2>1, <2>2, <2>3 DEF Owned
    <2>6. Scanning' BY <2>1 DEF Scanning
    <2>7. Slept'
      <3>1. ASSUME NEW q \in Elems(qs') PROVE SleptFor(q, now)'
        <4>1. q \in Elems(qs) /\ q \in Ptr /\ q # p BY <2>2, TypeFacts, SeqBasics
        <4>2. SleptFor(q, now) BY <1>0, <4>1 DEF Slept
        <4>3. elapsed'[q] = elapsed[q] BY <2>1, <4>1 DEF TypeOK
        <4> QED BY <1>2, <4>2, <4>3 DEF SleptFor, Shown
      <3>2. cnew' # NULL => sleep_us'[cnew'] = 0 BY <1>0, <1>2 DEF Slept
      <3> QED BY <2>1, <3>1, <3>2 DEF Slept
    <2>8. elapsed[p] >= sleep_us[p]
      <3>1. SleptFor(p, t_now) BY <1>0, <1>2, <2>2 DEF Slept
      <3>2. Shown(p, t_now) = t_diff(p) BY DEF Shown, t_diff
      <3>3. Shown(p, t_now) >= sleep_us[p] BY <1>1, <1>3, <3>2
      <3>4. Shown(p, t_now) \in Int /\ elapsed[p] \in Nat /\ sleep_us[p] \in Nat
        <4>1. /\ timestamp[p] \in 0 .. ClockModulus - 1 /\ elapsed[p] \in 0 .. MaxLag
              /\ t_now \in 0 .. ClockModulus - 1 /\ sleep_us[p] \in Sleeps \cup {0, WaitSleep}
          BY DEF TypeOK
        <4>2. ClockModulus \in Nat /\ MaxLag \in Nat /\ WaitSleep \in Nat /\ Sleeps \subseteq Nat
          BY SchedulerAssumption
        <4>3. elapsed[p] \in Nat BY <4>1, <4>2
        <4>4. \A us \in Sleeps \cup {0, WaitSleep} : us \in Nat BY <4>2
        <4>5. sleep_us[p] \in Nat BY <4>1, <4>4
        <4>6. Shown(p, t_now) \in Int BY <4>1, <4>2 DEF Shown
        <4> QED BY <4>3, <4>5, <4>6
      <3> HIDE DEF Shown
      <3> QED BY <3>1, <3>3, <3>4 DEF SleptFor
    <2>9. Proper' BY <2>2, <2>4, <2>5, <2>6, <2>7 DEF Proper
    <2> QED BY <2>1, <2>8, <2>9
  <1>4. CASE ~ (t_diff(curr) >= sleep_us[curr])
    <2>1. /\ curr' = next[p] /\ UNCHANGED <<lists, ctx_running, elapsed, pc, t_now>>
          /\ UNCHANGED client
      BY <1>1, <1>4 DEF dequeue_ctx
    <2>2. Linked(next, prev, ctx_queue, Qs) BY <1>0 DEF Lists
    <2>3. next[p] \in Elems(Qs) \cup {NULL} BY <1>2, <2>2, QsFacts, NextOf
    <2>4. Qs' = Qs BY <1>2, <2>1 DEF Qs, lists
    <2>5. Scanning' BY <1>2, <2>1, <2>3, <2>4 DEF Scanning
    <2>6. Proper' BY <1>2, <2>1, <2>5, LookProper
    <2>7. ctx_running' = ctx_running BY <2>1
    <2> QED BY <2>6, <2>7
  <1> QED BY <1>3, <1>4

LEMMA FinishProper ==
  ASSUME TypeOK, Control, Proper, ctx_running # NULL, finish_ctx(ctx_running),
         UNCHANGED <<cpc, cnew, now, timestamp, sleep_us, elapsed>>, pc' = "loop"
  PROVE  Proper'
  <1>0. Lists /\ Apart /\ Owned /\ Slept BY DEF Proper
  <1>1. PICK p \in Ptr : p = ctx_running BY TypeFacts
  <1>2. finish_ctx(p) /\ ctx_running' = NULL BY <1>1 DEF finish_ctx
  <1>3. /\ Lists' /\ qs' = qs
        /\ Elems(ds') \cap Elems(qs) = {} /\ cnew \notin Elems(ds')
        /\ \/ alive' = alive \ {p} /\ Elems(ds') = Elems(ds)
           \/ alive' = alive /\ Elems(ds') = Elems(ds) \cup {p}
    BY <1>0, <1>1, <1>2, FinishLists
  <1>4. /\ NULL \notin Elems(qs) /\ NULL \notin Elems(ds) /\ p # NULL
        /\ p \notin Elems(qs) /\ p \notin Elems(ds) /\ p # cnew
    BY <1>0, <1>1, TypeFacts, PtrFacts DEF Apart
  <1>5. Apart' BY <1>0, <1>2, <1>3, <1>4 DEF Apart
  <1>6. Owned'
    <2>1. CASE alive' = alive \ {p} /\ Elems(ds') = Elems(ds)
      BY <1>0, <1>1, <1>2, <1>3, <1>4, <2>1 DEF Owned
    <2>2. CASE alive' = alive /\ Elems(ds') = Elems(ds) \cup {p}
      BY <1>0, <1>1, <1>2, <1>3, <1>4, <2>2 DEF Owned
    <2> QED BY <1>3, <2>1, <2>2
  <1>7. Scanning' BY DEF Scanning
  <1>8. Slept' BY <1>0, <1>3 DEF Slept, SleptFor, Shown
  <1> QED BY <1>3, <1>5, <1>6, <1>7, <1>8 DEF Proper

LEMMA SearchProper ==
  ASSUME TypeOK, Control, Proper, eval_cps_remove_done_ctx
  PROVE  Proper'
  <1>0. Lists /\ Apart /\ Owned /\ Scanning /\ Slept BY DEF Proper
  <1>1. PICK p \in Ptr : p = curr BY TypeFacts DEF eval_cps_remove_done_ctx
  <1>2. /\ pc = "search" /\ p \in Elems(ds)
        /\ UNCHANGED <<timestamp, sleep_us, elapsed, ctx_running, cpc, cnew, now, t_now>>
        /\ UNCHANGED client
    BY <1>0, <1>1, PtrFacts DEF eval_cps_remove_done_ctx, Scanning, client
  <1>3. CASE id[curr] = wait_for[ctx_running]
    <2>1. RemoveDone(p) /\ pc' = "loop" BY <1>1, <1>3 DEF eval_cps_remove_done_ctx
    <2>2. Lists' /\ qs' = qs /\ alive' = alive \ {p} /\ Elems(ds') = Elems(ds) \ {p}
      BY <1>0, <1>2, <2>1, RemoveDoneLists
    <2>3. Apart' BY <1>0, <1>2, <2>2 DEF Apart
    <2>4. p \notin Elems(qs) /\ p # ctx_running /\ p # cnew BY <1>0, <1>2 DEF Apart
    <2>5. Owned' BY <1>0, <1>2, <2>2, <2>4 DEF Owned
    <2>6. Scanning' BY <2>1 DEF Scanning
    <2>7. Slept' BY <1>0, <1>2, <2>1, <2>2 DEF Slept, SleptFor, Shown
    <2> QED BY <2>2, <2>3, <2>5, <2>6, <2>7 DEF Proper
  <1>4. CASE id[curr] # wait_for[ctx_running]
    <2>1. curr' = next[p] /\ UNCHANGED <<lists, alive, pc>>
      BY <1>1, <1>4 DEF eval_cps_remove_done_ctx
    <2>2. next[p] \in Elems(ds) \cup {NULL}
      <3>1. Linked(next, prev, ctx_done, ds) BY <1>0 DEF Lists
      <3> QED BY <1>2, <3>1, TypeFacts, NextOf
    <2>3. ds' = ds BY <2>1 DEF lists
    <2>4. Scanning' BY <1>2, <2>1, <2>2, <2>3 DEF Scanning
    <2> QED BY <1>2, <2>1, <2>4, LookProper
  <1> QED BY <1>3, <1>4

\* The accesses of a client's enqueue_ctx.
LEMMA ProgramProper ==
  ASSUME TypeOK, Control, Proper, NEW p \in Ptr, eval_cps_program(p)
  PROVE  Proper'
  <1>0. Lists /\ Apart /\ Owned /\ Scanning /\ Slept BY DEF Proper
  <1>1. cpc = "ready" /\ create_ctx(p) /\ cpc' = "test" /\ cnew' = p BY Zenon DEF eval_cps_program
  <1>2. UNCHANGED lists /\ UNCHANGED <<ctx_running, pc, curr, t_now, now>>
    BY Zenon DEF eval_cps_program
  <1>3. UNCHANGED <<prev, next, ctx_queue, ctx_queue_last, ctx_done, qs, ds>> BY <1>2 DEF lists
  <1>4. /\ p \notin alive /\ alive' = alive \cup {p} /\ sleep_us'[p] = 0
        /\ \A q \in Ptr \ {p} : /\ timestamp'[q] = timestamp[q] /\ sleep_us'[q] = sleep_us[q]
                                /\ elapsed'[q] = elapsed[q]
    BY <1>1, CreateFacts
  <1>5. cnew = NULL /\ Qs = qs /\ Qs' = qs BY <1>1, <1>3 DEF Control, Qs
  <1>6. p \notin Elems(qs) /\ p \notin Elems(ds) /\ p # ctx_running /\ p # NULL
    BY <1>0, <1>4, PtrFacts DEF Owned
  <1>7. Lists' BY <1>0, <1>1, <1>3, <1>5 DEF Lists
  <1>8. Apart' BY <1>0, <1>1, <1>2, <1>3, <1>6 DEF Apart
  <1>9. Owned' BY <1>0, <1>1, <1>2, <1>3, <1>4, <1>5, <1>6 DEF Owned
  <1>10. Scanning' BY <1>0, <1>2, <1>3, <1>5 DEF Scanning
  <1>11. Slept'
    <2>1. ASSUME NEW q \in Elems(qs)
          PROVE  SleptFor(q, now)' /\ (pc' = "dequeue" => SleptFor(q, t_now)')
      <3>1. q \in Ptr \ {p} BY <1>6, TypeFacts, SeqBasics
      <3>2. SleptFor(q, now) /\ (pc = "dequeue" => SleptFor(q, t_now)) BY <1>0 DEF Slept
      <3> QED BY <1>2, <1>4, <3>1, <3>2 DEF SleptFor, Shown
    <2> QED BY <1>1, <1>3, <1>4, <2>1 DEF Slept
  <1> QED BY <1>7, <1>8, <1>9, <1>10, <1>11 DEF Proper

LEMMA SubmitProper ==
  ASSUME TypeOK, Control, Proper, SubmitTest \/ SubmitLink \/ SubmitLast
  PROVE  Proper'
  <1>0. Lists /\ Apart /\ Owned /\ Scanning /\ Slept BY DEF Proper
  <1>1. cnew \in Ptr BY TypeFacts DEF SubmitTest, SubmitLink, SubmitLast, Control
  <1>2. /\ UNCHANGED <<ctx_done, ds, timestamp, sleep_us, elapsed, alive>>
        /\ UNCHANGED <<ctx_running, pc, curr, t_now, now>>
    BY DEF SubmitTest, SubmitLink, SubmitLast, fields
  <1>3. cnew \notin Elems(qs) /\ cnew \notin Elems(ds) BY <1>0 DEF Apart
  <1>4. /\ next \in [Ptr -> Ptr \cup {NULL}] /\ prev \in [Ptr -> Ptr \cup {NULL}]
        /\ qs \in Seq(Ptr) /\ Elems(qs) \subseteq Ptr /\ Elems(ds) \subseteq Ptr
        /\ (LastOf(qs) = NULL <=> qs = <<>>) /\ (qs # <<>> => LastOf(qs) \in Elems(qs))
    BY TypeFacts, SeqBasics
  <1>5. /\ ctx_queue_last = LastOf(qs) /\ Linked(next, prev, ctx_done, ds)
        /\ (cpc # "last" => Linked(next, prev, ctx_queue, qs))
    BY <1>0 DEF Lists, Qs
  <1>6. CASE SubmitTest
    <2>1. /\ cpc = "test" /\ cpc' \in {"first", "append"} /\ (cpc' = "first" <=> qs = <<>>)
          /\ prev' = [prev EXCEPT ![cnew] = LastOf(qs)] /\ next' = [next EXCEPT ![cnew] = NULL]
          /\ UNCHANGED <<ctx_queue, ctx_queue_last, qs, cnew>>
      BY <1>4, <1>5, <1>6 DEF SubmitTest
    <2>2. Qs = qs /\ Qs' = qs BY <2>1 DEF Qs
    <2>3. \A q \in Ptr : q # cnew => next'[q] = next[q] /\ prev'[q] = prev[q]
      BY <1>1, <1>4, <2>1
    <2>4. \A q \in Elems(qs) : next'[q] = next[q] /\ prev'[q] = prev[q] BY <1>3, <1>4, <2>3
    <2>5. \A q \in Elems(ds) : next'[q] = next[q] /\ prev'[q] = prev[q] BY <1>3, <1>4, <2>3
    <2>6. Linked(next', prev', ctx_queue, qs)
      <3>1. Linked(next, prev, ctx_queue, qs) BY <1>5, <2>1
      <3> QED BY <2>4, <3>1, LinkedElsewhere
    <2>7. Linked(next', prev', ctx_done, ds) BY <1>5, <2>5, LinkedElsewhere
    <2>8. prev'[cnew] = LastOf(qs) /\ next'[cnew] = NULL BY <1>1, <1>4, <2>1
    <2>9. Lists' BY <1>2, <1>5, <2>1, <2>2, <2>6, <2>7, <2>8 DEF Lists
    <2>10. Apart' /\ Owned' BY <1>0, <1>2, <2>1 DEF Apart, Owned
    <2>11. Scanning' BY <1>0, <1>2, <2>2 DEF Scanning
    <2>12. Slept' BY <1>0, <1>2, <2>1 DEF Slept, SleptFor, Shown
    <2> QED BY <2>9, <2>10, <2>11, <2>12 DEF Proper
  <1>7. CASE SubmitLink
    <2>1. /\ \/ cpc = "first" /\ ctx_queue' = cnew /\ next' = next
             \/ /\ cpc = "append" /\ next' = [next EXCEPT ![ctx_queue_last] = cnew]
                /\ ctx_queue' = ctx_queue
          /\ cpc' = "last" /\ UNCHANGED <<prev, ctx_queue_last, qs, cnew>>
      BY <1>7 DEF SubmitLink
    <2>2. Qs = qs /\ Qs' = Append(qs, cnew) BY <2>1 DEF Qs
    <2>3. /\ prev[cnew] = LastOf(qs) /\ next[cnew] = NULL
          /\ (cpc = "first" => qs = <<>>) /\ (cpc = "append" => qs # <<>>)
      BY <1>0, <2>1 DEF Lists
    <2>4. prev' = [prev EXCEPT ![cnew] = LastOf(qs)] BY <1>4, <2>1, <2>3
    <2>5. next = [next EXCEPT ![cnew] = NULL] BY <1>4, <2>3
    <2>6. cpc = "append" => next' = [next EXCEPT ![cnew] = NULL, ![LastOf(qs)] = cnew]
      BY <1>5, <2>1, <2>5
    <2>7. LinksAfter(next, prev, ctx_queue, qs, cnew, next', prev', ctx_queue')
      BY <2>1, <2>3, <2>4, <2>5, <2>6 DEF LinksAfter
    <2>8. Linked(next', prev', ctx_queue', Append(qs, cnew))
      <3>1. Linked(next, prev, ctx_queue, qs) BY <1>5, <2>1
      <3> QED BY <1>1, <1>3, <1>4, <2>7, <3>1, LinkedAppend
    <2>9. Linked(next', prev', ctx_done, ds)
      <3>1. \A q \in Ptr : q \notin Elems(qs) => next'[q] = next[q] /\ prev'[q] = prev[q]
        BY <1>4, <1>5, <2>1, <2>3
      <3>2. \A q \in Elems(ds) : next'[q] = next[q] /\ prev'[q] = prev[q]
        BY <1>0, <1>4, <3>1 DEF Apart
      <3> QED BY <1>5, <3>2, LinkedElsewhere
    <2>10. Lists' BY <1>2, <1>5, <2>1, <2>2, <2>8, <2>9 DEF Lists
    <2>11. Apart' /\ Owned' BY <1>0, <1>2, <2>1 DEF Apart, Owned
    <2>12. Scanning'
      <3>1. Elems(Append(qs, cnew)) = Elems(qs) \cup {cnew} BY <1>1, <1>4, AppendFacts
      <3> QED BY <1>0, <1>2, <2>2, <3>1 DEF Scanning
    <2>13. Slept' BY <1>0, <1>2, <2>1 DEF Slept, SleptFor, Shown
    <2> QED BY <2>10, <2>11, <2>12, <2>13 DEF Proper
  <1>8. CASE SubmitLast
    <2>1. /\ cpc = "last" /\ ctx_queue_last' = cnew /\ qs' = Append(qs, cnew)
          /\ cpc' = "ready" /\ cnew' = NULL /\ UNCHANGED <<prev, next, ctx_queue>>
      BY <1>8 DEF SubmitLast
    <2>2. Qs = Append(qs, cnew) /\ Qs' = Qs BY <2>1 DEF Qs
    <2>3. Elems(qs') = Elems(qs) \cup {cnew} /\ LastOf(qs') = cnew
      BY <1>1, <1>4, <2>1, AppendFacts DEF LastOf
    <2>4. Linked(next', prev', ctx_queue', Qs') BY <1>0, <2>1, <2>2 DEF Lists
    <2>5. Lists' BY <1>2, <1>5, <2>1, <2>3, <2>4 DEF Lists
    <2>6. NULL \notin Elems(qs) /\ NULL \notin Elems(ds) BY TypeFacts
    <2>7. cnew # NULL /\ cnew # ctx_running BY <1>0, <1>1, PtrFacts DEF Apart
    <2>8. Apart' BY <1>0, <1>2, <1>3, <2>1, <2>3, <2>6, <2>7, PtrFacts, <1>1 DEF Apart
    <2>9. Owned' BY <1>0, <1>2, <2>1, <2>3, <2>7 DEF Owned
    <2>10. Scanning' BY <1>0, <1>2, <2>2 DEF Scanning
    <2>11. Slept'
      <3>1. ASSUME NEW q \in Elems(qs')
            PROVE  SleptFor(q, now)' /\ (pc' = "dequeue" => SleptFor(q, t_now)')
        <4>1. CASE q = cnew
          <5>1. sleep_us'[q] = 0 BY <1>0, <1>2, <2>7, <4>1 DEF Slept
          <5> QED BY <5>1 DEF SleptFor
        <4>2. CASE q \in Elems(qs) BY <1>0, <1>2, <4>2 DEF Slept, SleptFor, Shown
        <4> QED BY <2>3, <4>1, <4>2
      <3> QED BY <2>1, <3>1 DEF Slept
    <2> QED BY <2>5, <2>8, <2>9, <2>10, <2>11 DEF Proper
  <1> QED BY <1>6, <1>7, <1>8

\* The clock advances by one, or wraps: it never shows more than one more.
LEMMA TickProper ==
  ASSUME TypeOK, Proper, Tick
  PROVE  Proper'
  <1>0. Lists /\ Apart /\ Owned /\ Scanning /\ Slept BY DEF Proper
  <1>1. now' = (now + 1) % ClockModulus BY Zenon DEF Tick
  <1>2. elapsed' = [p \in Ptr |-> IF p \in Elems(qs) THEN elapsed[p] + 1 ELSE elapsed[p]]
    BY Zenon DEF Tick
  <1>3. UNCHANGED lists /\ UNCHANGED client /\ UNCHANGED <<timestamp, sleep_us, alive>>
    BY Zenon DEF Tick
  <1>4. UNCHANGED <<ctx_running, pc, curr, t_now>> BY Zenon DEF Tick
  <1>5. UNCHANGED <<prev, next, ctx_queue, ctx_queue_last, ctx_done, qs, ds, cpc, cnew>>
    BY <1>3 DEF lists, client
  <1>6. now \in 0 .. ClockModulus - 1 /\ t_now \in 0 .. ClockModulus - 1 BY DEF TypeOK
  <1>7. ClockModulus \in Nat \ {0} BY SchedulerAssumption
  <1>8. now' = IF now + 1 = ClockModulus THEN 0 ELSE now + 1 BY <1>1, <1>6, <1>7, ModNext
  <1>9. Lists' /\ Apart' /\ Owned' /\ Scanning'
    BY <1>0, <1>3, <1>4, <1>5 DEF Lists, Apart, Owned, Scanning, Qs
  <1>10. Slept'
    <2>1. ASSUME NEW p \in Elems(qs)
          PROVE  SleptFor(p, now)' /\ (pc' = "dequeue" => SleptFor(p, t_now)')
      <3>1. p \in Ptr BY TypeFacts, SeqBasics
      <3>2. timestamp[p] \in 0 .. ClockModulus - 1 /\ elapsed[p] \in 0 .. MaxLag
        BY <3>1 DEF TypeOK
      <3>3. elapsed'[p] = elapsed[p] + 1 BY <1>2, <3>1
      <3>4. Shown(p, now) \in Int /\ Shown(p, t_now) \in Int BY <1>6, <1>7, <3>2 DEF Shown
      <3>5. Shown(p, now)' <= Shown(p, now) + 1 /\ Shown(p, now)' \in Int
        BY <1>3, <1>6, <1>7, <1>8, <3>2 DEF Shown
      <3>6. Shown(p, t_now)' = Shown(p, t_now) BY <1>3, <1>4 DEF Shown
      <3>7. SleptFor(p, now) /\ (pc = "dequeue" => SleptFor(p, t_now)) BY <1>0 DEF Slept
      <3>8. elapsed[p] \in Int BY <3>2, SchedulerAssumption
      <3> HIDE DEF Shown
      <3> QED BY <1>3, <1>4, <3>3, <3>4, <3>5, <3>6, <3>7, <3>8 DEF SleptFor
    <2> QED BY <1>0, <1>3, <1>5, <2>1 DEF Slept
  <1> QED BY <1>9, <1>10 DEF Proper

(***************************************************************************)
(* Every step                                                              *)
(***************************************************************************)
Sound == ~ raced => Proper

\* Once raced, always raced.
LEMMA RacedKept == TypeOK /\ [Next]_vars /\ ~ raced' => ~ raced
  <1> SUFFICES ASSUME TypeOK, [Next]_vars, ~ raced' PROVE ~ raced OBVIOUS
  <1>1. raced' = raced \/ Overlap
    <2>1. CASE UNCHANGED vars BY <2>1 DEF vars, lists
    <2>2. CASE Dequeue
      BY <2>2 DEF Dequeue, DequeueBegin, dequeue_ctx, DequeueNone, Unlink, lists
    <2>3. CASE Search
      BY <2>3 DEF Search, SearchBegin, eval_cps_remove_done_ctx, SearchFails, RemoveDone, yield_ctx,
                  enqueue_ctx, lists
    <2>4. CASE Leave
      BY <2>4 DEF Leave, OutOfMemory, Finish, Yield, Wait, finish_ctx, yield_ctx, enqueue_ctx
    <2>5. CASE Stay
      BY <2>5, Zenon DEF Stay, Evaluate, AllocationFails, SpawnFails, Spawn, enqueue_ctx, lists
    <2>6. CASE Submit
      <3>1. CASE \E p \in Ptr : eval_cps_program(p)
        <4>1. UNCHANGED lists BY <3>1, Zenon DEF eval_cps_program
        <4> QED BY <4>1 DEF lists
      <3>2. CASE SubmitTest \/ SubmitLink \/ SubmitLast BY <3>2 DEF SubmitTest, SubmitLink, SubmitLast
      <3> QED BY <2>6, <3>1, <3>2 DEF Submit
    <2>7. CASE Tick
      <3>1. UNCHANGED lists BY <2>7, Zenon DEF Tick
      <3> QED BY <3>1 DEF lists
    <2> QED BY <2>1, <2>2, <2>3, <2>4, <2>5, <2>6, <2>7 DEF Next
  <1> QED BY <1>1 DEF Overlap

\* ctx_running changes to a context only in dequeue_ctx.
LEMMA NextSound ==
  ASSUME TypeInv, Sound, [Next]_vars, ~ raced'
  PROVE  /\ Proper'
         /\ \A p \in Ptr : ctx_running # p /\ ctx_running' = p => elapsed[p] >= sleep_us[p]
  <1>0. TypeOK /\ Control BY DEF TypeInv
  <1>1. Proper BY <1>0, RacedKept DEF Sound
  <1>2. Lists /\ Scanning BY <1>1 DEF Proper
  <1> DEFINE Kept == ctx_running' = ctx_running \/ ctx_running' = NULL
  <1>3. Kept => \A p \in Ptr : ctx_running # p /\ ctx_running' = p => elapsed[p] >= sleep_us[p]
    BY PtrFacts
  <1> HIDE DEF Kept
  <1>4. CASE UNCHANGED vars
    <2>1. /\ UNCHANGED <<lists, client, ctx_running, alive, now>> /\ UNCHANGED <<pc, curr, t_now>>
          /\ UNCHANGED <<timestamp, sleep_us, elapsed>>
      BY <1>4 DEF vars, fields
    <2>2. UNCHANGED <<qs, ds, cpc, cnew>> BY <2>1 DEF lists, client
    <2>3. Scanning' BY <1>2, <2>1, <2>2 DEF Scanning, Qs
    <2>4. Kept BY <2>1 DEF Kept
    <2> QED BY <1>0, <1>1, <1>3, <2>1, <2>3, <2>4, LookProper
  <1>5. CASE DequeueBegin
    <2>1. /\ UNCHANGED <<lists, client, ctx_running, alive, now>>
          /\ UNCHANGED <<timestamp, sleep_us, elapsed>>
          /\ pc' = "dequeue" /\ curr' = ctx_queue /\ t_now' = now
      BY <1>5 DEF DequeueBegin, fields
    <2>2. Qs' = Qs BY <2>1 DEF Qs, lists, client
    <2>3. ctx_queue \in Elems(Qs) \cup {NULL} BY <1>0, <1>2, QsFacts, HeadOf DEF Lists
    <2>4. Scanning' BY <2>1, <2>2, <2>3 DEF Scanning
    <2>5. Kept BY <2>1 DEF Kept
    <2> QED BY <1>0, <1>1, <1>3, <2>1, <2>4, <2>5, LookProper
  <1>6. CASE dequeue_ctx BY <1>0, <1>1, <1>6, DequeueProper
  <1>7. CASE DequeueNone \/ Evaluate \/ AllocationFails \/ SpawnFails
    <2>1. /\ UNCHANGED <<lists, client, ctx_running, alive, now>>
          /\ UNCHANGED <<timestamp, sleep_us, elapsed>> /\ pc' = "loop"
      BY <1>7 DEF DequeueNone, Evaluate, AllocationFails, SpawnFails, ProgramStep, Step, fields
    <2>2. Scanning' BY <2>1 DEF Scanning
    <2>3. Kept BY <2>1 DEF Kept
    <2> QED BY <1>0, <1>1, <1>3, <2>1, <2>2, <2>3, LookProper
  <1>8. CASE SearchBegin
    <2>1. /\ UNCHANGED <<lists, client, ctx_running, alive, now>>
          /\ UNCHANGED <<timestamp, sleep_us, elapsed>>
          /\ pc' = "search" /\ curr' = ctx_done
      BY <1>8 DEF SearchBegin, fields
    <2>2. ds' = ds BY <2>1 DEF lists
    <2>3. ctx_done \in Elems(ds) \cup {NULL} BY <1>0, <1>2, TypeFacts, HeadOf DEF Lists
    <2>4. Scanning' BY <2>1, <2>2, <2>3 DEF Scanning
    <2>5. Kept BY <2>1 DEF Kept
    <2> QED BY <1>0, <1>1, <1>3, <2>1, <2>4, <2>5, LookProper
  <1>9. CASE eval_cps_remove_done_ctx
    <2>1. Kept BY <1>9 DEF Kept, eval_cps_remove_done_ctx
    <2> QED BY <1>0, <1>1, <1>3, <1>9, <2>1, SearchProper
  <1>10. CASE SearchFails
    <2>1. /\ pc = "search" /\ yield_ctx(WaitSleep) /\ pc' = "loop"
          /\ UNCHANGED <<cpc, cnew, now, alive>>
      BY <1>10 DEF SearchFails, client
    <2>2. ctx_running # NULL /\ ctx_running' = NULL BY <1>0, <2>1 DEF Control, yield_ctx
    <2>3. Proper' BY <1>0, <1>1, <2>1, <2>2, YieldProper
    <2> QED BY <1>3, <2>2, <2>3 DEF Kept
  <1>11. CASE OutOfMemory \/ Finish
    <2>1. /\ ctx_running # NULL /\ finish_ctx(ctx_running) /\ pc' = "loop"
          /\ UNCHANGED <<cpc, cnew, now, timestamp, sleep_us, elapsed>>
      BY <1>11 DEF OutOfMemory, Finish, ProgramStep, Step, client
    <2>2. Kept BY <2>1 DEF Kept, finish_ctx
    <2> QED BY <1>0, <1>1, <1>3, <2>1, <2>2, FinishProper
  <1>12. ASSUME NEW us \in Sleeps, Yield(us) PROVE Proper' /\ Kept
    <2>1. ctx_running # NULL /\ yield_ctx(us) /\ pc' = "loop" /\ UNCHANGED <<cpc, cnew, now, alive>>
      BY <1>12 DEF Yield, ProgramStep, Step, client
    <2>2. Kept BY <2>1 DEF Kept, yield_ctx
    <2> QED BY <1>0, <1>1, <2>1, <2>2, YieldProper
  <1>13. ASSUME NEW cid \in WaitCids, Wait(cid) PROVE Proper' /\ Kept
    <2>1. /\ ctx_running # NULL /\ yield_ctx(WaitSleep) /\ pc' = "loop"
          /\ UNCHANGED <<cpc, cnew, now, alive>>
      BY <1>13 DEF Wait, ProgramStep, Step, client
    <2>2. Kept BY <2>1 DEF Kept, yield_ctx
    <2> QED BY <1>0, <1>1, <2>1, <2>2, YieldProper
  <1>14. ASSUME NEW p \in Ptr, Spawn(p) PROVE Proper' /\ Kept
    <2>1. create_ctx(p) /\ enqueue_ctx(p) /\ UNCHANGED client /\ UNCHANGED <<ctx_running, pc, now>>
      BY <1>14, Zenon DEF Spawn
    <2>2. pc = "loop" BY <1>14, Zenon DEF Spawn, ProgramStep, Step
    <2>3. /\ p \notin alive /\ alive' = alive \cup {p} /\ sleep_us'[p] = 0
          /\ \A q \in Ptr \ {p} : /\ timestamp'[q] = timestamp[q] /\ sleep_us'[q] = sleep_us[q]
                                  /\ elapsed'[q] = elapsed[q]
      BY <1>0, <2>1, CreateFacts
    <2>4. SleptFor(p, now)' BY <2>3 DEF SleptFor
    <2>5. UNCHANGED <<cpc, cnew, now>> /\ ctx_running' = ctx_running /\ pc' = "loop"
      BY <2>1, <2>2 DEF client
    <2>6. Proper' BY <1>0, <1>1, <2>1, <2>3, <2>4, <2>5, EnqueueProper
    <2> QED BY <2>5, <2>6 DEF Kept
  <1>15. ASSUME NEW p \in Ptr, eval_cps_program(p) PROVE Proper' /\ Kept
    <2>1. UNCHANGED ctx_running BY <1>15, Zenon DEF eval_cps_program
    <2> QED BY <1>0, <1>1, <1>15, <2>1, ProgramProper DEF Kept
  <1>16. CASE SubmitTest \/ SubmitLink \/ SubmitLast
    <2>1. UNCHANGED ctx_running BY <1>16 DEF SubmitTest, SubmitLink, SubmitLast
    <2> QED BY <1>0, <1>1, <1>3, <1>16, <2>1, SubmitProper DEF Kept
  <1>17. CASE Tick
    <2>1. UNCHANGED ctx_running BY <1>17, Zenon DEF Tick
    <2> QED BY <1>0, <1>1, <1>3, <1>17, <2>1, TickProper DEF Kept
  <1> QED
    BY <1>3, <1>4, <1>5, <1>6, <1>7, <1>8, <1>9, <1>10, <1>11, <1>12, <1>13, <1>14, <1>15, <1>16,
       <1>17 DEF Next, Dequeue, Search, Leave, Stay, Submit

LEMMA SoundCorrect == Spec => [](TypeInv /\ Sound)
  <1>1. Init => Sound BY InitProper DEF Sound
  <1>2. TypeInv /\ Sound /\ [Next]_vars => Sound'
    <2> SUFFICES ASSUME TypeInv, Sound, [Next]_vars, ~ raced' PROVE Proper' BY DEF Sound
    <2> QED BY NextSound
  <1> QED BY <1>1, <1>2, InitTypeInv, NextTypeInv, PTL DEF Spec

\* What Proper says between two submissions.
LEMMA SoundAccounts == TypeInv /\ Sound => ContextsAccounted
  <1> SUFFICES ASSUME TypeInv, Sound, ~ raced, cpc = "ready"
               PROVE  /\ ListProper(ctx_queue, qs)
                      /\ ctx_queue_last = IF qs = <<>> THEN NULL ELSE qs[Len(qs)]
                      /\ ListProper(ctx_done, ds)
                      /\ alive = Elems(qs) \cup Elems(ds) \cup ({ctx_running} \ {NULL})
                      /\ Elems(qs) \cap Elems(ds) = {}
                      /\ ctx_running \notin Elems(qs) \cup Elems(ds)
    BY DEF ContextsAccounted
  <1>1. Lists /\ Apart /\ Owned BY DEF Sound, Proper
  <1>2. Qs = qs /\ cnew = NULL BY DEF Qs, TypeInv, Control
  <1>3. /\ Linked(next, prev, ctx_queue, qs) /\ ctx_queue_last = LastOf(qs)
        /\ Linked(next, prev, ctx_done, ds)
    BY <1>1, <1>2 DEF Lists
  <1>4. ListProper(ctx_queue, qs) /\ ListProper(ctx_done, ds)
    BY <1>3 DEF ListProper, Linked, Distinct
  <1>5. alive = Elems(qs) \cup Elems(ds) \cup ({ctx_running} \ {NULL}) BY <1>1, <1>2 DEF Owned
  <1> QED BY <1>1, <1>3, <1>4, <1>5 DEF Apart, LastOf

\* For every number of contexts, programs and submissions: while no step of the
\* evaluator on the run queue overlaps with a client's enqueue_ctx, the run queue
\* and the done list stay proper doubly linked lists, and every allocated context is
\* in exactly one of them or running.
THEOREM ContextsCorrect == Spec => []ContextsAccounted
  <1> QED BY SoundCorrect, SoundAccounts, PTL

\* For every clock width and every sleep, also beyond the width of the clock: the
\* context that dequeue_ctx picks has slept for as long as it asked for.
THEOREM NeverEarlyCorrect == Spec => NeverEarly
  <1>1. TypeInv /\ Sound /\ [Next]_vars
          => [\A p \in Ptr : ~ raced' /\ ctx_running # p /\ ctx_running' = p
                => elapsed[p] >= sleep_us[p]]_vars
    <2> SUFFICES ASSUME TypeInv, Sound, [Next]_vars, NEW p \in Ptr,
                        ~ raced', ctx_running # p, ctx_running' = p
                 PROVE  elapsed[p] >= sleep_us[p]
      OBVIOUS
    <2> QED BY NextSound
  <1> QED BY <1>1, SoundCorrect, PTL DEF Spec, NeverEarly
=============================================================================
