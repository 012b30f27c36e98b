----------------------------- MODULE Heap_proofs -----------------------------
(***************************************************************************)
(* Proofs about the cons-cell heap and its collector, for every heap size, *)
(* set of roots, mark stack size and mix of arrays.                        *)
(***************************************************************************)
EXTENDS Heap, FiniteSetTheorems, SequenceTheorems, TLAPS

(***************************************************************************)
(* Values                                                                  *)
(***************************************************************************)
LEMMA PtrValue ==
  ASSUME NEW v \in Value
  PROVE  /\ is_ptr(v) => dec_ptr(v) \in Cell
         /\ type_of(v) = "CONS" => is_ptr(v)
  BY DEF Value, is_ptr, dec_ptr, type_of, PtrType

LEMMA ConsPtr ==
  ASSUME NEW c \in Cell
  PROVE  /\ enc_cons_ptr(c) \in Value /\ is_ptr(enc_cons_ptr(c))
         /\ dec_ptr(enc_cons_ptr(c)) = c /\ type_of(enc_cons_ptr(c)) = "CONS"
         /\ enc_cons_ptr(c) \notin {NIL, ARRAY_TYPE, BOXED_TYPE}
         /\ \A t \in PtrType :
              LET p == set_ptr_type(enc_cons_ptr(c), t) IN
              p \in Value /\ is_ptr(p) /\ dec_ptr(p) = c /\ type_of(p) = t
              /\ p \notin {ARRAY_TYPE, BOXED_TYPE}
  BY DEF Value, enc_cons_ptr, is_ptr, dec_ptr, type_of, PtrType, set_ptr_type,
         NIL, ARRAY_TYPE, BOXED_TYPE, sym

LEMMA EncInjective ==
  ASSUME NEW c, NEW d, enc_cons_ptr(c) = enc_cons_ptr(d) PROVE c = d
  BY DEF enc_cons_ptr

LEMMA Atoms ==
  /\ \A v \in {NIL, RECOVERED, ARRAY_TYPE, BOXED_TYPE} :
       v \in Value /\ ~ is_ptr(v) /\ type_of(v) # "CONS"
  /\ \A n \in Int : <<"RAW", n>> \in Value /\ ~ is_ptr(<<"RAW", n>>)
                    /\ <<"RAW", n>> \notin {ARRAY_TYPE, BOXED_TYPE}
  /\ NIL # ARRAY_TYPE /\ NIL # BOXED_TYPE /\ ARRAY_TYPE # BOXED_TYPE
  BY DEF Value, Symbol, sym, NIL, RECOVERED, ARRAY_TYPE, BOXED_TYPE, is_ptr,
         type_of, PtrType

\* A sequence without its last element.
LEMMA PopSeq ==
  ASSUME NEW S, NEW s \in Seq(S), Len(s) >= 1
  PROVE  /\ SubSeq(s, 1, Len(s) - 1) \in Seq(S)
         /\ Len(SubSeq(s, 1, Len(s) - 1)) = Len(s) - 1
         /\ \A k \in 1 .. Len(s) - 1 : SubSeq(s, 1, Len(s) - 1)[k] = s[k]
  <1>1. Len(s) \in Nat /\ \A k \in 1 .. Len(s) - 1 : s[k] \in S OBVIOUS
  <1> DEFINE n == Len(s) - 1
  <1>2. n \in Nat BY <1>1
  <1>3. /\ SubSeq(s, 1, n) \in Seq(S)
        /\ Len(SubSeq(s, 1, n)) = IF 1 <= n THEN n - 1 + 1 ELSE 0
        /\ \A k \in 1 .. n - 1 + 1 : SubSeq(s, 1, n)[k] = s[1 + k - 1]
    <2> HIDE DEF n
    <2>1. 1 \in Int /\ n \in Int BY <1>2
    <2>2. \A k \in 1 .. n : s[k] \in S BY <1>1 DEF n
    <2> QED BY <2>1, <2>2, SubSeqProperties
  <1>4. n - 1 + 1 = n /\ (\A k \in 1 .. n : 1 + k - 1 = k) /\ (n < 1 => n = 0)
    <2> HIDE DEF n
    <2> QED BY <1>2
  <1>5. /\ SubSeq(s, 1, n) \in Seq(S)
        /\ Len(SubSeq(s, 1, n)) = n
        /\ \A k \in 1 .. n : SubSeq(s, 1, n)[k] = s[k]
    <2> HIDE DEF n
    <2> QED BY <1>2, <1>3, <1>4
  <1> QED BY <1>5

(***************************************************************************)
(* Types                                                                   *)
(***************************************************************************)
HeapType == [car : [Cell -> Value], cdr : [Cell -> Value], mark : [Cell -> BOOLEAN],
             freelist : Value, num_alloc : Int]

LEMMA InitType == Init => TypeOK
  <1> SUFFICES ASSUME Init PROVE TypeOK OBVIOUS
  <1> USE HeapSizeAssumption
  <1>1. \A c \in Cell : c # heap_size - 1 => c + 1 \in Cell BY DEF Cell
  <1>2. 0 \in Cell BY DEF Cell
  <1>3. \A c \in Cell : enc_cons_ptr(c) \in Value BY ConsPtr
  <1>4. <<"RAW", 0>> \in Value /\ RECOVERED \in Value /\ NIL \in Value BY Atoms
  <1>5. generate_freelist(<<"RAW", 0>>) \in HeapType
    BY <1>1, <1>2, <1>3, <1>4 DEF generate_freelist, HeapType
  <1>6. fl \in Seq(Cell)
    <2>1. fl \in [1 .. heap_size -> Cell] BY DEF Init, Cell
    <2> QED BY <2>1
  <1>7. 0 \in 0 .. heap_size OBVIOUS
  <1>8. <<>> \in Seq(Value) OBVIOUS
  <1> QED BY <1>4, <1>5, <1>6, <1>7, <1>8 DEF Init, TypeOK, HeapType

LEMMA AllocateType ==
  ASSUME TypeOK, NEW a \in Value, NEW d \in Value, AllocateCell(a, d)
  PROVE  /\ heap' \in HeapType /\ fl' \in Seq(Cell)
         /\ type_of(cons_value(heap)) = "CONS" /\ dec_ptr(cons_value(heap)) \in Cell
         /\ cons_value(heap) \in Value
  <1>1. heap \in HeapType /\ fl \in Seq(Cell) BY DEF TypeOK, HeapType
  <1>2. type_of(heap.freelist) = "CONS" /\ heap.freelist \in Value
    BY <1>1 DEF AllocateCell, CanAllocate, HeapType
  <1>3. dec_ptr(heap.freelist) \in Cell BY <1>2, PtrValue
  <1>4. heap' \in HeapType BY <1>1, <1>2, <1>3 DEF AllocateCell, cons_heap, HeapType
  <1>5. SubSeq(fl, 1, Len(fl) - 1) \in Seq(Cell)
    <2>1. CASE Len(fl) >= 1 BY <1>1, <2>1, PopSeq
    <2>2. CASE ~ (Len(fl) >= 1) BY <1>1, <2>2
    <2> QED BY <2>1, <2>2
  <1> QED BY <1>2, <1>3, <1>4, <1>5 DEF AllocateCell, cons_value, CanAllocate

LEMMA NextType == TypeOK /\ [Next]_vars => TypeOK'
  <1> SUFFICES ASSUME TypeOK, [Next]_vars PROVE TypeOK' OBVIOUS
  <1> USE HeapSizeAssumption
  <1>0. heap \in HeapType /\ fl \in Seq(Cell) /\ roots \in [Regs -> Value]
        /\ rootq \in Seq(Value) /\ mstack \in Seq(Value) /\ curr \in Value
    BY DEF TypeOK, HeapType
  <1>1. ASSUME NEW r \in Regs, NEW a \in Regs, NEW b \in Regs, cons(r, a, b) PROVE TypeOK'
    <2>1. CASE AllocateCell(roots[a], roots[b])
               /\ roots' = [roots EXCEPT ![r] = cons_value(heap)] /\ UNCHANGED pc
      <3>1. PICK va \in Value, vb \in Value : va = roots[a] /\ vb = roots[b] BY <1>0
      <3>2. heap' \in HeapType /\ fl' \in Seq(Cell) /\ cons_value(heap) \in Value
        BY <2>1, <3>1, AllocateType
      <3> QED BY <1>0, <1>1, <2>1, <3>2 DEF TypeOK, HeapType, cons, gcVars
    <2>2. CASE OutOfCells BY <1>1, <2>2 DEF TypeOK, cons, gcVars, OutOfCells
    <2> QED BY <1>1, <2>1, <2>2 DEF cons
  <1>2. ASSUME NEW r \in Regs, enc_boxed(r) PROVE TypeOK'
    <2>1. CASE AllocateCell(<<"RAW", 0>>, BOXED_TYPE) /\ UNCHANGED pc
               /\ roots' = [roots EXCEPT ![r] = set_ptr_type(cons_value(heap), "BOXED")]
      <3>1. <<"RAW", 0>> \in Value /\ BOXED_TYPE \in Value BY Atoms
      <3>2. heap' \in HeapType /\ fl' \in Seq(Cell) /\ dec_ptr(cons_value(heap)) \in Cell
        BY <2>1, <3>1, AllocateType
      <3>3. set_ptr_type(cons_value(heap), "BOXED") \in Value
        BY <3>2 DEF set_ptr_type, Value, PtrType
      <3> QED BY <1>0, <1>2, <2>1, <3>2, <3>3 DEF TypeOK, HeapType, enc_boxed, gcVars
    <2>2. CASE OutOfCells BY <1>2, <2>2 DEF TypeOK, enc_boxed, gcVars, OutOfCells
    <2> QED BY <1>2, <2>1, <2>2 DEF enc_boxed
  <1>3. ASSUME NEW r \in Regs, NEW s \in ArrayShapes, heap_allocate_array(r, s[1], s[2])
        PROVE  TypeOK'
    <2> DEFINE n == array_words(s[1], s[2])
    <2>1. CASE UNCHANGED <<heap, fl, roots, pc>>
      BY <1>3, <2>1 DEF TypeOK, heap_allocate_array, gcVars
    <2>2. CASE AllocateCell(NIL, NIL) /\ pc' = "gc" /\ UNCHANGED roots
      <3>1. heap' \in HeapType /\ fl' \in Seq(Cell) BY <2>2, Atoms, AllocateType
      <3> QED BY <1>0, <1>3, <2>2, <3>1 DEF TypeOK, HeapType, heap_allocate_array, gcVars
    <2>3. CASE /\ Mem!Allocate(n) /\ AllocateCell(<<"RAW", ret'[2]>>, ARRAY_TYPE)
               /\ roots' = [roots EXCEPT ![r] = set_ptr_type(cons_value(heap), "ARRAY")]
               /\ UNCHANGED pc
      <3>1. PICK p \in Int : ret' = <<"allocate", p>>
        BY <2>3, MemorySizeAssumption DEF Mem!Allocate, Mem!Word
      <3>2. <<"RAW", p>> \in Value /\ ARRAY_TYPE \in Value /\ ret'[2] = p BY <3>1, Atoms
      <3>3. AllocateCell(<<"RAW", p>>, ARRAY_TYPE) BY <2>3, <3>2
      <3>4. heap' \in HeapType /\ fl' \in Seq(Cell) /\ dec_ptr(cons_value(heap)) \in Cell
        BY <3>2, <3>3, AllocateType
      <3>5. set_ptr_type(cons_value(heap), "ARRAY") \in Value
        BY <3>4 DEF set_ptr_type, Value, PtrType
      <3> QED BY <1>0, <1>3, <2>3, <3>4, <3>5 DEF TypeOK, HeapType, heap_allocate_array, gcVars
    <2> QED BY <1>3, <2>1, <2>2, <2>3 DEF heap_allocate_array
  <1>4. ASSUME NEW r \in Regs, NEW a \in Regs, load(r, a) PROVE TypeOK'
    <2>1. roots[a] \in Value BY <1>0
    <2>2. is_ptr(roots[a]) => car(heap, roots[a]) \in Value
      BY <1>0, <2>1, PtrValue, Atoms DEF car, HeapType
    <2>3. type_of(roots[a]) = "CONS" => cdr(heap, roots[a]) \in Value
      BY <1>0, <2>1, PtrValue, Atoms DEF cdr, HeapType
    <2>4. roots' \in [Regs -> Value] BY <1>0, <1>4, <2>2, <2>3 DEF load
    <2> QED BY <1>4, <2>4 DEF load, TypeOK, gcVars
  <1>5. ASSUME NEW a \in Regs, NEW b \in Regs, store(a, b) PROVE TypeOK'
    <2>1. roots[a] \in Value /\ roots[b] \in Value BY <1>0
    <2>2. heap' \in HeapType BY <1>0, <1>5, <2>1, PtrValue DEF store, set_cdr, HeapType
    <2> QED BY <1>5, <2>2 DEF store, TypeOK, HeapType, gcVars
  <1>6. ASSUME NEW r \in Regs, drop(r) PROVE TypeOK'
    BY <1>6, Atoms DEF drop, TypeOK, gcVars
  <1>7. CASE gc_state_inc
    <2>1. heap.freelist \in Value BY <1>0 DEF HeapType
    <2>2. rootq' \in Seq(Value)
      <3>1. Len(RootOrder) \in Nat /\ \A k \in 1 .. Len(RootOrder) : RootOrder[k] \in Regs
        BY RootOrderAssumption
      <3>2. rootq' \in [1 .. Len(RootOrder) -> Value] BY <1>0, <1>7, <3>1 DEF gc_state_inc
      <3> QED BY <3>1, <3>2
    <2> QED BY <1>7, <2>1, <2>2 DEF gc_state_inc, TypeOK
  <1>8. CASE gc_mark_freelist
    <2>1. is_ptr(curr) => dec_ptr(curr) \in Cell BY <1>0, PtrValue
    <2>2. is_ptr(curr) => set_gc_mark(heap, dec_ptr(curr)) \in HeapType
      BY <1>0, <2>1 DEF set_gc_mark, HeapType
    <2>3. is_ptr(curr) => heap.cdr[dec_ptr(curr)] \in Value BY <1>0, <2>1 DEF HeapType
    <2>4. heap' \in HeapType /\ curr' \in Value
      BY <1>0, <1>8, <2>2, <2>3 DEF gc_mark_freelist
    <2> QED BY <1>8, <2>4 DEF gc_mark_freelist, TypeOK, HeapType
  <1>9. CASE NextRoot
    <2>1. rootq # <<>> => Head(rootq) \in Value /\ Tail(rootq) \in Seq(Value) BY <1>0
    <2>2. rootq # <<>> => <<Head(rootq)>> \in Seq(Value) BY <2>1
    <2>3. 0 \in 0 .. heap_size OBVIOUS
    <2>4. rootq' \in Seq(Value) /\ mstack' \in Seq(Value) BY <1>0, <1>9, <2>1, <2>2 DEF NextRoot
    <2> QED BY <1>9, <2>3, <2>4 DEF NextRoot, TypeOK
  <1>10. ASSUME mstack # <<>> PROVE Top \in Value /\ Below \in Seq(Value)
    <2>1. Len(mstack) \in 1 .. Len(mstack) BY <1>0, <1>10
    <2> QED BY <1>0, <2>1, PopSeq DEF Top, Below
  <1>11. CASE MarkSkip BY <1>10, <1>11 DEF MarkSkip, TypeOK
  <1>12. CASE MarkCell
    <2>1. Top \in Value /\ Below \in Seq(Value) BY <1>10, <1>12 DEF MarkCell
    <2>2. is_ptr(Top) /\ dec_ptr(Top) \in Cell
      BY <1>12, <2>1, PtrValue DEF MarkCell, NothingToMark
    <2>3. heap' \in HeapType BY <1>0, <1>12, <2>2 DEF MarkCell, set_gc_mark, HeapType
    <2>4. cdr(heap, Top) \in Value /\ car(heap, Top) \in Value
      BY <1>0, <2>2, Atoms DEF cdr, car, HeapType, TERROR, NIL, Value, Symbol, sym
    <2>5. mstack' \in Seq(Value)
      <3>1. <<>> \in Seq(Value) OBVIOUS
      <3>2. Below \o <<cdr(heap, Top), car(heap, Top)>> \in Seq(Value)
        BY <2>1, <2>4
      <3> QED BY <1>12, <2>1, <3>1, <3>2 DEF MarkCell
    <2> QED BY <1>12, <2>3, <2>5 DEF MarkCell, TypeOK, HeapType
  <1>13. CASE MarkReturn BY <1>13 DEF MarkReturn, TypeOK, gcVars
  <1>14. CASE gc_sweep_phase
    <2>1. i \in Cell /\ i' \in 0 .. heap_size BY <1>14 DEF gc_sweep_phase, TypeOK, Cell
    <2>2. heap' \in HeapType
      <3>1. RECOVERED \in Value /\ enc_cons_ptr(i) \in Value BY <2>1, Atoms, ConsPtr
      <3>2. CASE heap.mark[i]
        BY <1>0, <1>14, <2>1, <3>2 DEF gc_sweep_phase, sweep_cell, HeapType
      <3>3. CASE ~ heap.mark[i]
        BY <1>0, <1>14, <2>1, <3>1, <3>3 DEF gc_sweep_phase, sweep_cell, HeapType
      <3> QED BY <3>2, <3>3
    <2>3. fl' \in Seq(Cell) BY <1>0, <1>14, <2>1 DEF gc_sweep_phase
    <2> QED BY <1>14, <2>1, <2>2, <2>3 DEF gc_sweep_phase, TypeOK, HeapType
  <1>15. CASE SweepReturn BY <1>15, Atoms DEF SweepReturn, TypeOK
  <1>16. CASE UNCHANGED vars BY <1>16 DEF vars, gcVars, TypeOK
  <1> QED BY <1>1, <1>2, <1>3, <1>4, <1>5, <1>6, <1>7, <1>8, <1>9, <1>11, <1>12, <1>13,
             <1>14, <1>15, <1>16 DEF Next, Evaluate, Collect

\* Every variable keeps its type, through evaluation and collection, even
\* after a gc_mark_phase has run out of stack: no cell index leaves the heap.
THEOREM TypeCorrect == Spec => []TypeOK
  <1> QED BY InitType, NextType, PTL DEF Spec

(***************************************************************************)
(* The invariant.  A reference is good when it leads to a kept cell of its *)
(* own kind; kept cells hold good references only.  What is kept changes   *)
(* once, when marking ends: a cell the sweep will free is no longer kept,  *)
(* so the marks must be closed under references by then, which is what the *)
(* mark phase maintains.                                                   *)
(***************************************************************************)
Elems(s) == {s[k] : k \in 1 .. Len(s)}

\* The kind of a cell whose cdr is d.
KindOf(d) == IF d = ARRAY_TYPE THEN "ARRAY" ELSE IF d = BOXED_TYPE THEN "BOXED" ELSE "CONS"

Good(K, D, v) ==
  /\ v \in Value /\ v \notin {ARRAY_TYPE, BOXED_TYPE}
  /\ is_ptr(v) => dec_ptr(v) \in K /\ type_of(v) = KindOf(D[dec_ptr(v)])

\* A cell's contents fit its kind: a boxed or array cell holds a raw word.
GoodCell(K, A, D, c) ==
  /\ Good(K, D, A[c])
  /\ KindOf(D[c]) = "CONS" => Good(K, D, D[c])
  /\ KindOf(D[c]) # "CONS" => ~ is_ptr(A[c])

\* Cells that the sweep in progress, if any, will not free.
Kept == {c \in Cell : c \notin FreeCells /\ (pc = "sweep" => c < i \/ heap.mark[c])}

RefInv ==
  /\ \A r \in Regs : Good(Kept, heap.cdr, roots[r])
  /\ \A c \in Kept : GoodCell(Kept, heap.car, heap.cdr, c)

\* The marks outside marking, and what sweeping has done to them so far.
MarkBits ==
  /\ pc \in {"run", "gc"} => \A c \in Cell : ~ heap.mark[c]
  /\ pc \in {"mark_roots", "mark"} => \A c \in FreeCells : heap.mark[c]
  /\ pc = "sweep" => \A c \in Cell : (c < i => ~ heap.mark[c])
                                     /\ (c >= i /\ c \in FreeCells => heap.mark[c])
  /\ pc = "mark_freelist" =>
       \E k \in 0 .. Len(fl) :
         /\ curr = IF k = 0 THEN NIL ELSE enc_cons_ptr(fl[k])
         /\ \A c \in Cell : heap.mark[c] <=> \E m \in k + 1 .. Len(fl) : fl[m] = c

\* A reference the mark phase has dealt with, or still has in T, its stack.
Pending(M, T, v) == is_ptr(v) => M[dec_ptr(v)] \/ v \in T

RootsDone == Len(RootOrder) - Len(rootq)

RootQueue ==
  /\ pc \in {"mark_freelist", "mark_roots", "mark"} =>
       /\ Len(rootq) <= Len(RootOrder)
       /\ \A k \in 1 .. Len(rootq) : rootq[k] = roots[RootOrder[RootsDone + k]]
  /\ pc = "mark_freelist" => Len(rootq) = Len(RootOrder)
  /\ pc # "mark" => mstack = <<>>

Marking ==
  pc \in {"mark_roots", "mark"} =>
    /\ \A v \in Elems(mstack) : Good(Kept, heap.cdr, v)
    /\ \A k \in 1 .. RootsDone : Pending(heap.mark, Elems(mstack), roots[RootOrder[k]])
    /\ \A c \in Cell : c \notin FreeCells /\ heap.mark[c] =>
         /\ Pending(heap.mark, Elems(mstack), heap.car[c])
         /\ Pending(heap.mark, Elems(mstack), heap.cdr[c])

Safe == FreeListProper /\ MarkBits /\ RefInv /\ RootQueue /\ Marking

LEMMA GoodMono ==
  ASSUME NEW K, NEW L, NEW D, NEW E, NEW v, Good(K, D, v), K \subseteq L,
         \A c \in K : KindOf(E[c]) = KindOf(D[c])
  PROVE  Good(L, E, v)
  BY DEF Good

LEMMA PopElems ==
  ASSUME NEW S, NEW s \in Seq(S), s # <<>>
  PROVE  Elems(s) = Elems(SubSeq(s, 1, Len(s) - 1)) \cup {s[Len(s)]}
  <1>1. Len(s) \in Nat /\ Len(s) >= 1 OBVIOUS
  <1> DEFINE t == SubSeq(s, 1, Len(s) - 1)
             n == Len(s)
  <1>2. Len(t) = n - 1 /\ \A k \in 1 .. n - 1 : t[k] = s[k] BY <1>1, PopSeq
  <1> HIDE DEF t, n
  <1>3. n \in Nat /\ n >= 1 BY <1>1 DEF n
  <1>4. 1 .. n = (1 .. n - 1) \cup {n} BY <1>3
  <1>5. Elems(t) = {s[k] : k \in 1 .. n - 1} BY <1>2 DEF Elems
  <1>6. Elems(s) = {s[k] : k \in 1 .. n} BY DEF Elems, n
  <1>7. Elems(s) = Elems(t) \cup {s[n]} BY <1>4, <1>5, <1>6
  <1> QED BY <1>7 DEF t, n

LEMMA PushElem ==
  ASSUME NEW S, NEW s \in Seq(S), NEW x \in S
  PROVE  Elems(Append(s, x)) = Elems(s) \cup {x}
  <1>1. Len(s) \in Nat OBVIOUS
  <1> DEFINE t == Append(s, x)
             n == Len(s)
  <1>2. Len(t) = n + 1 /\ (\A k \in 1 .. n : t[k] = s[k]) /\ t[n + 1] = x OBVIOUS
  <1> HIDE DEF t, n
  <1>3. n \in Nat BY <1>1 DEF n
  <1>4. 1 .. n + 1 = (1 .. n) \cup {n + 1} BY <1>3
  <1>5. Elems(t) = {t[k] : k \in 1 .. n + 1} BY <1>2 DEF Elems
  <1>6. Elems(s) = {s[k] : k \in 1 .. n} BY DEF Elems, n
  <1>7. Elems(t) = Elems(s) \cup {x} BY <1>2, <1>4, <1>5, <1>6
  <1> QED BY <1>7 DEF t

LEMMA PushTwo ==
  ASSUME NEW S, NEW s \in Seq(S), NEW x \in S, NEW y \in S
  PROVE  Elems(s \o <<x, y>>) = Elems(s) \cup {x, y}
  <1>1. s \o <<x, y>> = Append(Append(s, x), y) OBVIOUS
  <1>0. Append(s, x) \in Seq(S) OBVIOUS
  <1>2. PICK t \in Seq(S) : t = Append(s, x) BY <1>0
  <1>3. Elems(t) = Elems(s) \cup {x} BY <1>2, PushElem
  <1>4. Elems(Append(t, y)) = Elems(t) \cup {y} BY PushElem
  <1> QED BY <1>1, <1>2, <1>3, <1>4

LEMMA SmallElems == Elems(<<>>) = {} /\ \A x : Elems(<<x>>) = {x}
  BY DEF Elems

(***************************************************************************)
(* Allocation                                                              *)
(***************************************************************************)
\* Taking the head of the free list keeps the rest a proper list.
LEMMA TakeCell ==
  ASSUME TypeOK, FreeListProper, NEW a \in Value, NEW d \in Value, AllocateCell(a, d)
  PROVE  \E c \in Cell :
           /\ c \in FreeCells /\ FreeCells' = FreeCells \ {c}
           /\ cons_value(heap) = enc_cons_ptr(c)
           /\ heap'.car = [heap.car EXCEPT ![c] = a]
           /\ heap'.cdr = [heap.cdr EXCEPT ![c] = d]
           /\ heap'.mark = [heap.mark EXCEPT ![c] = FALSE]
           /\ FreeListProper'
           /\ fl' \in Seq(Cell)
           /\ heap' \in [car : [Cell -> Value], cdr : [Cell -> Value],
                         mark : [Cell -> BOOLEAN], freelist : Value, num_alloc : Int]
  <1> DEFINE n == Len(fl)
             c == fl[n]
  <1>1. /\ heap \in [car : [Cell -> Value], cdr : [Cell -> Value],
                     mark : [Cell -> BOOLEAN], freelist : Value, num_alloc : Int]
        /\ fl \in Seq(Cell) /\ n \in Nat
    BY DEF TypeOK
  <1>2. /\ \A p, q \in 1 .. n : p # q => fl[p] # fl[q]
        /\ heap.freelist = IF fl = <<>> THEN NIL ELSE enc_cons_ptr(fl[n])
        /\ \A k \in 1 .. n :
             heap.cdr[fl[k]] = IF k = 1 THEN NIL ELSE enc_cons_ptr(fl[k - 1])
        /\ heap.num_alloc + n = heap_size
    BY DEF FreeListProper
  <1>3. fl # <<>> BY <1>2, Atoms DEF AllocateCell, CanAllocate
  <1>4. n >= 1 /\ c \in Cell BY <1>1, <1>3
  <1>5. heap.freelist = enc_cons_ptr(c) /\ dec_ptr(heap.freelist) = c
        /\ type_of(heap.freelist) = "CONS"
    BY <1>2, <1>3, <1>4, ConsPtr
  <1>6. /\ heap'.car = [heap.car EXCEPT ![c] = a]
        /\ heap'.cdr = [heap.cdr EXCEPT ![c] = d]
        /\ heap'.mark = [heap.mark EXCEPT ![c] = FALSE]
        /\ heap'.freelist = heap.cdr[c]
        /\ heap'.num_alloc = heap.num_alloc + 1
        /\ heap' \in [car : [Cell -> Value], cdr : [Cell -> Value],
                      mark : [Cell -> BOOLEAN], freelist : Value, num_alloc : Int]
    BY <1>1, <1>4, <1>5 DEF AllocateCell, cons_heap
  <1>7. fl' = SubSeq(fl, 1, n - 1) BY DEF AllocateCell
  <1>8. /\ fl' \in Seq(Cell) /\ Len(fl') = n - 1
        /\ \A k \in 1 .. n - 1 : fl'[k] = fl[k]
    BY <1>1, <1>4, <1>7, PopSeq
  <1>9. FreeCells' = FreeCells \ {c}
    <2>1. FreeCells = {fl[k] : k \in 1 .. n} BY <1>1 DEF FreeCells
    <2>2. FreeCells' = {fl'[k] : k \in 1 .. n - 1} BY <1>8 DEF FreeCells
    <2>3. \A x : x \in FreeCells' <=> \E k \in 1 .. n - 1 : x = fl[k] BY <1>8, <2>2
    <2>4. \A x : x \in FreeCells <=> \E k \in 1 .. n : x = fl[k] BY <2>1
    <2> QED BY <1>1, <1>2, <1>4, <2>3, <2>4
  <1>10. c \in FreeCells BY <1>1, <1>4 DEF FreeCells
  <1>11. cons_value(heap) = enc_cons_ptr(c)
    BY <1>5 DEF cons_value, CanAllocate
  <1>12. FreeListProper'
    <2>1. \A p, q \in 1 .. Len(fl') : p # q => fl'[p] # fl'[q] BY <1>1, <1>2, <1>8
    <2>2. heap'.freelist = IF fl' = <<>> THEN NIL ELSE enc_cons_ptr(fl'[Len(fl')])
      <3>1. CASE n = 1
        <4>1. fl' = <<>> BY <3>1, <1>8
        <4> QED BY <3>1, <4>1, <1>2, <1>6
      <3>2. CASE n > 1
        <4>1. fl' # <<>> /\ fl'[n - 1] = fl[n - 1] BY <3>2, <1>1, <1>8
        <4> QED BY <3>2, <4>1, <1>1, <1>2, <1>6, <1>8
      <3>3. n = 1 \/ n > 1
        <4>1. n \in Nat /\ n >= 1 BY <1>1, <1>4
        <4> HIDE DEF n
        <4> QED BY <4>1
      <3> QED BY <3>1, <3>2, <3>3
    <2>3. \A k \in 1 .. Len(fl') :
            heap'.cdr[fl'[k]] = IF k = 1 THEN NIL ELSE enc_cons_ptr(fl'[k - 1])
      <3> SUFFICES ASSUME NEW k \in 1 .. Len(fl')
                   PROVE  heap'.cdr[fl'[k]] = IF k = 1 THEN NIL ELSE enc_cons_ptr(fl'[k - 1])
        OBVIOUS
      <3>1. k \in 1 .. n /\ fl'[k] = fl[k] /\ fl[k] # c /\ fl[k] \in Cell
        BY <1>1, <1>2, <1>4, <1>8
      <3>2. heap'.cdr[fl'[k]] = heap.cdr[fl[k]] BY <1>1, <1>4, <1>6, <3>1
      <3>3. k # 1 => fl'[k - 1] = fl[k - 1] BY <1>1, <1>8
      <3> QED BY <1>2, <3>1, <3>2, <3>3
    <2>4. heap'.num_alloc + Len(fl') = heap_size
      BY <1>1, <1>2, <1>6, <1>8
    <2> QED BY <2>1, <2>2, <2>3, <2>4 DEF FreeListProper
  <1> QED BY <1>4, <1>6, <1>8, <1>9, <1>10, <1>11, <1>12

\* A new cell (a . d), referred to by at most one register, leaves every
\* reference good.
LEMMA AfterAllocate ==
  ASSUME TypeOK, Safe, pc = "run", pc' \in {"run", "gc"}, UNCHANGED gcVars,
         NEW a \in Value, NEW d \in Value, Good(Kept, heap.cdr, a),
         KindOf(d) = "CONS" => Good(Kept, heap.cdr, d),
         KindOf(d) # "CONS" => ~ is_ptr(a),
         AllocateCell(a, d),
         \/ roots' = roots
         \/ \E r \in Regs :
              roots' = [roots EXCEPT ![r] = set_ptr_type(cons_value(heap), KindOf(d))]
  PROVE  Safe'
  <1>1. PICK c \in Cell :
           /\ c \in FreeCells /\ FreeCells' = FreeCells \ {c}
           /\ cons_value(heap) = enc_cons_ptr(c)
           /\ heap'.car = [heap.car EXCEPT ![c] = a]
           /\ heap'.cdr = [heap.cdr EXCEPT ![c] = d]
           /\ heap'.mark = [heap.mark EXCEPT ![c] = FALSE]
           /\ FreeListProper'
           /\ fl' \in Seq(Cell)
           /\ heap' \in [car : [Cell -> Value], cdr : [Cell -> Value],
                         mark : [Cell -> BOOLEAN], freelist : Value, num_alloc : Int]
    <2>1. FreeListProper BY DEF Safe
    <2> QED BY <2>1, TakeCell
  <1>2. PICK p : p = set_ptr_type(cons_value(heap), KindOf(d)) OBVIOUS
  <1>3. /\ p \in Value /\ is_ptr(p) /\ dec_ptr(p) = c /\ type_of(p) = KindOf(d)
        /\ p \notin {ARRAY_TYPE, BOXED_TYPE}
    <2>1. KindOf(d) \in PtrType BY DEF KindOf, PtrType
    <2> QED BY <1>1, <1>2, <2>1, ConsPtr
  <1>4. roots \in [Regs -> Value] /\ heap.cdr \in [Cell -> Value]
        /\ heap.car \in [Cell -> Value] /\ heap.mark \in [Cell -> BOOLEAN]
    BY DEF TypeOK
  <1>5. MarkBits' BY <1>1, <1>4 DEF Safe, MarkBits
  <1>6. RootQueue' /\ Marking' BY DEF Safe, RootQueue, Marking, gcVars
  <1>7. c \notin Kept /\ Kept' = Kept \cup {c} BY <1>1 DEF Kept
  <1>8. ASSUME NEW v, Good(Kept, heap.cdr, v) PROVE Good(Kept', heap'.cdr, v)
    <2>1. \A e \in Kept : heap'.cdr[e] = heap.cdr[e] BY <1>1, <1>4, <1>7 DEF Kept
    <2> QED BY <1>7, <1>8, <2>1, GoodMono
  <1>9. heap'.cdr[c] = d /\ heap'.car[c] = a BY <1>1, <1>4
  <1>10. Good(Kept', heap'.cdr, p) BY <1>3, <1>7, <1>9 DEF Good
  <1>11. RefInv'
    <2>1. ASSUME NEW r \in Regs PROVE Good(Kept', heap'.cdr, roots'[r])
      <3>1. PICK v : v = roots[r] OBVIOUS
      <3>2. roots'[r] = v \/ roots'[r] = p BY <1>2, <1>4, <3>1
      <3>3. Good(Kept, heap.cdr, v) BY <3>1 DEF Safe, RefInv
      <3> QED BY <1>8, <1>10, <3>2, <3>3
    <2>2. ASSUME NEW e \in Kept' PROVE GoodCell(Kept', heap'.car, heap'.cdr, e)
      <3>1. CASE e = c BY <1>8, <1>9, <3>1 DEF GoodCell
      <3>2. CASE e # c
        <4>1. e \in Kept /\ e \in Cell BY <1>7, <2>2, <3>2 DEF Kept
        <4>2. heap'.car[e] = heap.car[e] /\ heap'.cdr[e] = heap.cdr[e]
          BY <1>1, <1>4, <3>2, <4>1
        <4>3. PICK x, y : x = heap.car[e] /\ y = heap.cdr[e] OBVIOUS
        <4>4. GoodCell(Kept, heap.car, heap.cdr, e) BY <4>1 DEF Safe, RefInv
        <4> QED BY <1>8, <4>2, <4>3, <4>4 DEF GoodCell
      <3> QED BY <3>1, <3>2
    <2> QED BY <2>1, <2>2 DEF RefInv
  <1> QED BY <1>1, <1>5, <1>6, <1>11 DEF Safe

\* Giving up for want of a cell changes nothing but the program counter.
LEMMA AfterOutOfCells ==
  ASSUME TypeOK, Safe, pc = "run", OutOfCells, UNCHANGED gcVars
  PROVE  Safe'
  <1>1. heap' = heap /\ fl' = fl /\ roots' = roots /\ FreeCells' = FreeCells
    BY DEF OutOfCells, FreeCells
  <1>2. Kept' = Kept BY <1>1 DEF Kept, OutOfCells
  <1>3. FreeListProper' BY <1>1 DEF Safe, FreeListProper
  <1>4. MarkBits' BY <1>1 DEF Safe, MarkBits, OutOfCells
  <1>5. RefInv' BY <1>1, <1>2 DEF Safe, RefInv
  <1>6. RootQueue' /\ Marking' BY DEF Safe, RootQueue, Marking, gcVars, OutOfCells
  <1> QED BY <1>3, <1>4, <1>5, <1>6 DEF Safe

LEMMA KindFacts ==
  /\ KindOf(NIL) = "CONS" /\ KindOf(ARRAY_TYPE) = "ARRAY" /\ KindOf(BOXED_TYPE) = "BOXED"
  /\ \A K, D, v : Good(K, D, v) => KindOf(v) = "CONS"
  /\ \A K, D : Good(K, D, NIL)
  /\ \A K, D : \A n \in Int : Good(K, D, <<"RAW", n>>)
  BY Atoms DEF KindOf, Good

LEMMA ConsSafe ==
  ASSUME TypeOK, Safe, NEW r \in Regs, NEW a \in Regs, NEW b \in Regs, cons(r, a, b)
  PROVE  Safe'
  <1>1. CASE OutOfCells BY <1>1, AfterOutOfCells DEF cons
  <1>2. CASE AllocateCell(roots[a], roots[b])
             /\ roots' = [roots EXCEPT ![r] = cons_value(heap)] /\ UNCHANGED pc
    <2>1. PICK va \in Value, vb \in Value : va = roots[a] /\ vb = roots[b] BY DEF TypeOK
    <2>2. Good(Kept, heap.cdr, va) /\ Good(Kept, heap.cdr, vb) BY <2>1 DEF Safe, RefInv
    <2>3. KindOf(vb) = "CONS" BY <2>2, KindFacts
    <2>4. set_ptr_type(cons_value(heap), "CONS") = cons_value(heap)
      <3>1. type_of(cons_value(heap)) = "CONS" /\ cons_value(heap) \in Value
        BY <1>2, <2>1, AllocateType
      <3> QED BY <3>1 DEF set_ptr_type, type_of, dec_ptr, Value, PtrType
    <2>5. AllocateCell(va, vb) BY <1>2, <2>1
    <2> QED BY <1>2, <2>2, <2>3, <2>4, <2>5, AfterAllocate DEF cons
  <1> QED BY <1>1, <1>2 DEF cons

LEMMA BoxedSafe ==
  ASSUME TypeOK, Safe, NEW r \in Regs, enc_boxed(r)
  PROVE  Safe'
  <1>1. CASE OutOfCells BY <1>1, AfterOutOfCells DEF enc_boxed
  <1>2. CASE AllocateCell(<<"RAW", 0>>, BOXED_TYPE) /\ UNCHANGED pc
             /\ roots' = [roots EXCEPT ![r] = set_ptr_type(cons_value(heap), "BOXED")]
    <2>1. <<"RAW", 0>> \in Value /\ BOXED_TYPE \in Value /\ ~ is_ptr(<<"RAW", 0>>) BY Atoms
    <2>2. KindOf(BOXED_TYPE) = "BOXED" /\ Good(Kept, heap.cdr, <<"RAW", 0>>) BY KindFacts
    <2> QED BY <1>2, <2>1, <2>2, AfterAllocate DEF enc_boxed
  <1> QED BY <1>1, <1>2 DEF enc_boxed

LEMMA SafeStutter ==
  ASSUME Safe, UNCHANGED <<heap, fl, roots, pc, curr, rootq, mstack, i>>
  PROVE  Safe'
  <1>1. FreeListProper' BY DEF Safe, FreeListProper
  <1>2. MarkBits' BY DEF Safe, MarkBits, FreeCells
  <1>3. Kept' = Kept BY DEF Kept, FreeCells
  <1>4. RefInv' BY <1>3 DEF Safe, RefInv
  <1>5. RootQueue' BY DEF Safe, RootQueue, RootsDone
  <1>6. Marking' BY <1>3 DEF Safe, Marking, RootsDone, FreeCells
  <1> QED BY <1>1, <1>2, <1>4, <1>5, <1>6 DEF Safe

LEMMA ArraySafe ==
  ASSUME TypeOK, Safe, NEW r \in Regs, NEW type, NEW size,
         heap_allocate_array(r, type, size)
  PROVE  Safe'
  <1> DEFINE n == array_words(type, size)
  <1>1. CASE UNCHANGED <<heap, fl, roots, pc>>
    BY <1>1, SafeStutter DEF heap_allocate_array, gcVars
  <1>2. CASE AllocateCell(NIL, NIL) /\ pc' = "gc" /\ UNCHANGED roots
    BY <1>2, Atoms, KindFacts, AfterAllocate DEF heap_allocate_array
  <1>3. CASE /\ Mem!Allocate(n) /\ AllocateCell(<<"RAW", ret'[2]>>, ARRAY_TYPE)
             /\ roots' = [roots EXCEPT ![r] = set_ptr_type(cons_value(heap), "ARRAY")]
             /\ UNCHANGED pc
    <2>1. PICK p \in Int : ret' = <<"allocate", p>>
      BY <1>3, MemorySizeAssumption DEF Mem!Allocate, Mem!Word
    <2>2. ret'[2] = p BY <2>1
    <2>3. AllocateCell(<<"RAW", p>>, ARRAY_TYPE) BY <1>3, <2>2
    <2>4. <<"RAW", p>> \in Value /\ ARRAY_TYPE \in Value /\ ~ is_ptr(<<"RAW", p>>) BY Atoms
    <2>5. KindOf(ARRAY_TYPE) = "ARRAY" /\ Good(Kept, heap.cdr, <<"RAW", p>>) BY KindFacts
    <2> QED BY <1>3, <2>3, <2>4, <2>5, AfterAllocate DEF heap_allocate_array
  <1> QED BY <1>1, <1>2, <1>3 DEF heap_allocate_array

(***************************************************************************)
(* Moving references                                                       *)
(***************************************************************************)
\* Steps of the evaluator that only change which good references roots holds.
LEMMA AfterRootChange ==
  ASSUME TypeOK, Safe, pc = "run", UNCHANGED <<heap, fl, pc, gcVars>>,
         NEW r \in Regs, NEW v, Good(Kept, heap.cdr, v),
         roots' = [roots EXCEPT ![r] = v]
  PROVE  Safe'
  <1>1. FreeListProper' BY DEF Safe, FreeListProper
  <1>2. MarkBits' BY DEF Safe, MarkBits, FreeCells, gcVars
  <1>3. Kept' = Kept BY DEF Kept, FreeCells, gcVars
  <1>4. RefInv' BY <1>3 DEF Safe, RefInv, TypeOK
  <1>5. RootQueue' /\ Marking' BY DEF Safe, RootQueue, Marking, gcVars
  <1> QED BY <1>1, <1>2, <1>4, <1>5 DEF Safe

LEMMA LoadSafe ==
  ASSUME TypeOK, Safe, NEW r \in Regs, NEW a \in Regs, load(r, a)
  PROVE  Safe'
  <1>1. PICK v \in Value : v = roots[a] BY DEF TypeOK
  <1>2. Good(Kept, heap.cdr, v) BY <1>1 DEF Safe, RefInv
  <1>3. is_ptr(v) => GoodCell(Kept, heap.car, heap.cdr, dec_ptr(v))
    BY <1>2 DEF Good, Safe, RefInv
  <1>4. v # NIL \/ ~ is_ptr(v) BY Atoms
  <1>5. CASE is_ptr(v) /\ roots' = [roots EXCEPT ![r] = car(heap, v)]
    <2>1. PICK x : x = car(heap, v) OBVIOUS
    <2>2. Good(Kept, heap.cdr, x) BY <1>3, <1>4, <1>5, <2>1 DEF car, GoodCell
    <2> QED BY <1>5, <2>1, <2>2, AfterRootChange DEF load
  <1>6. CASE type_of(v) = "CONS" /\ roots' = [roots EXCEPT ![r] = cdr(heap, v)]
    <2>1. PICK x : x = cdr(heap, v) OBVIOUS
    <2>2. is_ptr(v) /\ KindOf(heap.cdr[dec_ptr(v)]) = "CONS" BY <1>2, <1>6, PtrValue DEF Good
    <2>3. Good(Kept, heap.cdr, x) BY <1>3, <1>4, <1>6, <2>1, <2>2 DEF cdr, GoodCell
    <2> QED BY <1>6, <2>1, <2>3, AfterRootChange DEF load
  <1> QED BY <1>1, <1>5, <1>6 DEF load

LEMMA DropSafe ==
  ASSUME TypeOK, Safe, NEW r \in Regs, drop(r)
  PROVE  Safe'
  BY KindFacts, AfterRootChange DEF drop

LEMMA StoreSafe ==
  ASSUME TypeOK, Safe, NEW a \in Regs, NEW b \in Regs, store(a, b)
  PROVE  Safe'
  <1>1. PICK v \in Value, w \in Value : v = roots[a] /\ w = roots[b] BY DEF TypeOK
  <1>2. Good(Kept, heap.cdr, v) /\ Good(Kept, heap.cdr, w) BY <1>1 DEF Safe, RefInv
  <1>3. CASE type_of(v) # "CONS"
    <2>1. heap' = heap BY <1>1, <1>3 DEF store, set_cdr
    <2> QED BY <2>1, SafeStutter DEF store, gcVars
  <1>4. CASE type_of(v) = "CONS"
    <2>1. PICK c : c = dec_ptr(v) OBVIOUS
    <2>2. c \in Kept /\ c \in Cell /\ c \notin FreeCells /\ KindOf(heap.cdr[c]) = "CONS"
      BY <1>2, <1>4, <2>1, PtrValue DEF Good, Kept
    <2>3. /\ heap.cdr \in [Cell -> Value] /\ heap'.cdr = [heap.cdr EXCEPT ![c] = w]
          /\ heap'.car = heap.car /\ heap'.mark = heap.mark
          /\ heap'.freelist = heap.freelist /\ heap'.num_alloc = heap.num_alloc
      BY <1>1, <1>4, <2>1, <2>2 DEF TypeOK, store, set_cdr
    <2>4. FreeCells' = FreeCells /\ Kept' = Kept
      BY <2>3 DEF store, FreeCells, Kept, gcVars
    <2>5. FreeListProper'
      <3>1. \A k \in 1 .. Len(fl) : fl[k] \in FreeCells BY DEF FreeCells
      <3>2. \A k \in 1 .. Len(fl) : heap'.cdr[fl[k]] = heap.cdr[fl[k]]
        BY <2>2, <2>3, <3>1
      <3> QED BY <2>3, <3>2 DEF Safe, FreeListProper, store
    <2>6. MarkBits' BY <2>3, <2>4 DEF Safe, MarkBits, store, gcVars
    <2>7. KindOf(w) = "CONS" BY <1>2, KindFacts
    <2>8. \A e \in Kept : KindOf(heap'.cdr[e]) = KindOf(heap.cdr[e])
      BY <2>2, <2>3, <2>7 DEF Kept
    <2>9. ASSUME NEW x, Good(Kept, heap.cdr, x) PROVE Good(Kept', heap'.cdr, x)
      BY <2>4, <2>8, <2>9, GoodMono
    <2>10. RefInv'
      <3>1. ASSUME NEW r \in Regs PROVE Good(Kept', heap'.cdr, roots'[r])
        <4>1. PICK x : x = roots[r] OBVIOUS
        <4>2. Good(Kept, heap.cdr, x) BY <4>1 DEF Safe, RefInv
        <4> QED BY <2>9, <4>1, <4>2 DEF store
      <3>2. ASSUME NEW e \in Kept PROVE GoodCell(Kept', heap'.car, heap'.cdr, e)
        <4>1. PICK x, y : x = heap.car[e] /\ y = heap.cdr[e] OBVIOUS
        <4>2. GoodCell(Kept, heap.car, heap.cdr, e) BY DEF Safe, RefInv
        <4>3. heap'.cdr[e] = IF e = c THEN w ELSE y BY <2>3, <4>1 DEF Kept
        <4>4. Good(Kept', heap'.cdr, x) BY <2>9, <4>1, <4>2 DEF GoodCell
        <4>5. KindOf(heap'.cdr[e]) = "CONS" => Good(Kept', heap'.cdr, heap'.cdr[e])
          BY <1>2, <2>8, <2>9, <4>1, <4>2, <4>3 DEF GoodCell
        <4> QED BY <2>3, <2>8, <4>1, <4>2, <4>4, <4>5 DEF GoodCell
      <3> QED BY <2>4, <3>1, <3>2 DEF RefInv
    <2>11. RootQueue' /\ Marking' BY DEF Safe, RootQueue, Marking, store, gcVars
    <2> QED BY <2>5, <2>6, <2>10, <2>11 DEF Safe
  <1> QED BY <1>3, <1>4

(***************************************************************************)
(* Marking                                                                 *)
(***************************************************************************)
\* While marking, a step changes neither what cells hold nor what is kept.
LEMMA AfterMarkStep ==
  ASSUME TypeOK, Safe, pc # "sweep", pc' # "sweep", UNCHANGED <<roots, fl>>,
         heap'.car = heap.car, heap'.cdr = heap.cdr,
         heap'.freelist = heap.freelist, heap'.num_alloc = heap.num_alloc
  PROVE  FreeListProper' /\ RefInv' /\ FreeCells' = FreeCells /\ Kept' = Kept
  <1>1. FreeListProper' BY DEF Safe, FreeListProper
  <1>2. FreeCells' = FreeCells BY DEF FreeCells
  <1>3. Kept' = Kept BY <1>2 DEF Kept
  <1>4. RefInv' BY <1>3 DEF Safe, RefInv
  <1> QED BY <1>1, <1>2, <1>3, <1>4

LEMMA GcStartSafe ==
  ASSUME TypeOK, Safe, gc_state_inc
  PROVE  Safe'
  <1>1. FreeListProper' /\ RefInv' BY AfterMarkStep DEF gc_state_inc
  <1>2. Len(RootOrder) \in Nat /\ Len(fl) \in Nat /\ fl \in Seq(Cell)
    BY RootOrderAssumption DEF TypeOK
  <1>3. MarkBits'
    <2>1. curr' = IF Len(fl) = 0 THEN NIL ELSE enc_cons_ptr(fl[Len(fl)])
      <3>1. fl = <<>> <=> Len(fl) = 0 BY <1>2
      <3> QED BY <3>1 DEF Safe, FreeListProper, gc_state_inc
    <2>2. \A c \in Cell : ~ heap'.mark[c] BY DEF Safe, MarkBits, gc_state_inc
    <2>3. \A m \in Len(fl) + 1 .. Len(fl) : FALSE BY <1>2
    <2>4. pc' = "mark_freelist" /\ fl' = fl /\ Len(fl) \in 0 .. Len(fl)
      BY <1>2 DEF gc_state_inc
    <2> QED BY <2>1, <2>2, <2>3, <2>4 DEF MarkBits
  <1>4. RootQueue'
    <2>1. Len(rootq') = Len(RootOrder) BY <1>2 DEF gc_state_inc
    <2>2. \A k \in 1 .. Len(RootOrder) : rootq'[k] = roots[RootOrder[k]] BY DEF gc_state_inc
    <2>3. RootsDone' = 0 BY <1>2, <2>1 DEF RootsDone
    <2>4. mstack' = <<>> BY DEF Safe, RootQueue, gc_state_inc
    <2>5. \A k \in 1 .. Len(RootOrder) : 0 + k = k BY <1>2
    <2> QED BY <1>2, <2>1, <2>2, <2>3, <2>4, <2>5 DEF RootQueue, gc_state_inc
  <1>5. Marking' BY DEF Marking, gc_state_inc
  <1> QED BY <1>1, <1>3, <1>4, <1>5 DEF Safe

LEMMA MarkFreelistSafe ==
  ASSUME TypeOK, Safe, gc_mark_freelist
  PROVE  Safe'
  <1>1. /\ heap.mark \in [Cell -> BOOLEAN] /\ fl \in Seq(Cell) /\ Len(fl) \in Nat
        /\ Len(RootOrder) \in Nat
    BY RootOrderAssumption DEF TypeOK
  <1>2. PICK k \in 0 .. Len(fl) :
          /\ curr = IF k = 0 THEN NIL ELSE enc_cons_ptr(fl[k])
          /\ \A c \in Cell : heap.mark[c] <=> \E m \in k + 1 .. Len(fl) : fl[m] = c
    BY DEF Safe, MarkBits, gc_mark_freelist
  <1>3. CASE k = 0
    <2>1. UNCHANGED <<heap, fl, roots, rootq, mstack>> /\ pc' = "mark_roots"
      BY <1>2, <1>3, Atoms DEF gc_mark_freelist
    <2>2. FreeListProper' /\ RefInv' /\ FreeCells' = FreeCells
      BY <2>1, AfterMarkStep DEF gc_mark_freelist
    <2>3. \A c \in Cell : heap.mark[c] <=> c \in FreeCells
      BY <1>1, <1>2, <1>3 DEF FreeCells
    <2>4. MarkBits'
      <3>1. FreeCells \subseteq Cell BY <1>1 DEF FreeCells
      <3> QED BY <2>1, <2>2, <2>3, <3>1 DEF MarkBits
    <2>5. RootQueue' BY <2>1 DEF Safe, RootQueue, gc_mark_freelist, RootsDone
    <2>6. Marking'
      <3>1. RootsDone' = 0 BY <1>1, <2>1 DEF Safe, RootQueue, gc_mark_freelist, RootsDone
      <3>2. mstack' = <<>> BY <2>1 DEF Safe, RootQueue, gc_mark_freelist
      <3> QED BY <2>1, <2>2, <2>3, <3>1, <3>2, SmallElems DEF Marking
    <2> QED BY <2>2, <2>4, <2>5, <2>6 DEF Safe
  <1>4. CASE k # 0
    <2>1. k \in 1 .. Len(fl) /\ fl[k] \in Cell BY <1>1, <1>4
    <2>2. PICK f \in Cell : f = fl[k] BY <2>1
    <2>3. is_ptr(curr) /\ dec_ptr(curr) = f BY <1>2, <1>4, <2>2, ConsPtr
    <2>4. /\ heap'.car = heap.car /\ heap'.cdr = heap.cdr
          /\ heap'.freelist = heap.freelist /\ heap'.num_alloc = heap.num_alloc
          /\ heap'.mark = [heap.mark EXCEPT ![f] = TRUE]
          /\ curr' = heap.cdr[f] /\ pc' = pc
      BY <2>3 DEF TypeOK, gc_mark_freelist, set_gc_mark
    <2>5. FreeListProper' /\ RefInv' BY <2>4, AfterMarkStep DEF gc_mark_freelist
    <2>6. MarkBits'
      <3>1. k - 1 \in 0 .. Len(fl) BY <1>1, <2>1
      <3>2. curr' = IF k - 1 = 0 THEN NIL ELSE enc_cons_ptr(fl[k - 1])
        <4>1. heap.cdr[fl[k]] = IF k = 1 THEN NIL ELSE enc_cons_ptr(fl[k - 1])
          BY <2>1 DEF Safe, FreeListProper
        <4> QED BY <2>1, <2>2, <2>4, <4>1
      <3>3. \A c \in Cell : heap'.mark[c] <=> \E m \in (k - 1) + 1 .. Len(fl) : fl[m] = c
        <4>1. \A c : (\E m \in (k - 1) + 1 .. Len(fl) : fl[m] = c)
                     <=> (fl[k] = c \/ \E m \in k + 1 .. Len(fl) : fl[m] = c)
          BY <1>1, <2>1
        <4> QED BY <1>1, <1>2, <2>2, <2>4, <4>1
      <3> QED BY <2>4, <3>1, <3>2, <3>3 DEF MarkBits, gc_mark_freelist
    <2>7. RootQueue' BY <2>4 DEF Safe, RootQueue, gc_mark_freelist, RootsDone
    <2>8. Marking' BY <2>4 DEF Marking, gc_mark_freelist
    <2> QED BY <2>5, <2>6, <2>7, <2>8 DEF Safe
  <1> QED BY <1>3, <1>4

\* When the last root is done the marks are closed under references, so the
\* cells still kept are exactly the marked ones and no good reference is lost.
LEMMA SweepStartSafe ==
  ASSUME TypeOK, Safe, NextRoot, rootq = <<>>
  PROVE  Safe'
  <1>1. /\ pc = "mark_roots" /\ pc' = "sweep" /\ i' = 0 /\ mstack = <<>> /\ mstack' = <<>>
        /\ UNCHANGED <<heap, roots, fl>>
    BY DEF NextRoot, Safe, RootQueue
  <1>2. FreeCells' = FreeCells BY <1>1 DEF FreeCells
  <1>3. Kept = Cell \ FreeCells BY <1>1 DEF Kept
  <1>4. Kept' = {c \in Kept : heap.mark[c]} BY <1>1, <1>2, <1>3 DEF Kept, Cell
  <1>5. RootsDone = Len(RootOrder) BY RootOrderAssumption DEF RootsDone
  <1>6. \A r \in Regs : Pending(heap.mark, {}, roots[r])
    <2>1. \A k \in 1 .. Len(RootOrder) : Pending(heap.mark, {}, roots[RootOrder[k]])
      BY <1>1, <1>5, SmallElems DEF Safe, Marking
    <2> QED BY <2>1, RootOrderAssumption
  <1>7. \A c \in Kept' : Pending(heap.mark, {}, heap.car[c]) /\ Pending(heap.mark, {}, heap.cdr[c])
    BY <1>1, <1>3, <1>4, SmallElems DEF Safe, Marking
  <1>8. ASSUME NEW v, Good(Kept, heap.cdr, v), Pending(heap.mark, {}, v)
        PROVE  Good(Kept', heap'.cdr, v)
    BY <1>1, <1>4, <1>8 DEF Good, Pending
  <1>9. RefInv'
    <2>1. ASSUME NEW r \in Regs PROVE Good(Kept', heap'.cdr, roots'[r])
      <3>1. PICK v : v = roots[r] OBVIOUS
      <3> QED BY <1>1, <1>6, <1>8, <3>1 DEF Safe, RefInv
    <2>2. ASSUME NEW c \in Kept' PROVE GoodCell(Kept', heap'.car, heap'.cdr, c)
      <3>1. PICK x, y : x = heap.car[c] /\ y = heap.cdr[c] OBVIOUS
      <3>2. GoodCell(Kept, heap.car, heap.cdr, c) BY <1>4 DEF Safe, RefInv
      <3> QED BY <1>1, <1>7, <1>8, <3>1, <3>2 DEF GoodCell
    <2> QED BY <2>1, <2>2 DEF RefInv
  <1>10. FreeListProper' BY <1>1 DEF Safe, FreeListProper
  <1>11. MarkBits' BY <1>1, <1>2 DEF Safe, MarkBits, Cell
  <1>12. RootQueue' /\ Marking' BY <1>1 DEF RootQueue, Marking
  <1> QED BY <1>9, <1>10, <1>11, <1>12 DEF Safe

LEMMA NextRootSafe ==
  ASSUME TypeOK, Safe, NextRoot
  PROVE  Safe'
  <1>1. CASE rootq = <<>> BY <1>1, SweepStartSafe
  <1>2. CASE rootq # <<>>
    <2>1. /\ rootq \in Seq(Value) /\ Len(rootq) \in Nat /\ Len(rootq) >= 1
          /\ Len(RootOrder) \in Nat
      BY <1>2, RootOrderAssumption DEF TypeOK
    <2>2. PICK v : v = Head(rootq) OBVIOUS
    <2>3. /\ UNCHANGED <<heap, roots, fl>> /\ pc = "mark_roots" /\ mstack = <<>>
          /\ rootq' = Tail(rootq) /\ pc' \in {"mark_roots", "mark"}
          /\ is_ptr(v) => mstack' = <<v>> /\ pc' = "mark"
          /\ ~ is_ptr(v) => mstack' = <<>> /\ pc' = "mark_roots"
      BY <1>2, <2>2 DEF NextRoot, Safe, RootQueue
    <2>4. FreeListProper' /\ RefInv' /\ FreeCells' = FreeCells /\ Kept' = Kept
      BY <2>3, AfterMarkStep
    <2>5. MarkBits' BY <2>3, <2>4 DEF Safe, MarkBits
    <2>6. /\ Len(rootq) <= Len(RootOrder)
          /\ \A k \in 1 .. Len(rootq) : rootq[k] = roots[RootOrder[RootsDone + k]]
      BY <2>3 DEF Safe, RootQueue
    <2>7. Len(rootq') = Len(rootq) - 1 /\ \A k \in 1 .. Len(rootq) - 1 : rootq'[k] = rootq[k + 1]
      BY <2>1, <2>3
    <2>8. RootsDone' = RootsDone + 1 /\ RootsDone \in Nat
      BY <2>1, <2>6, <2>7 DEF RootsDone
    <2>9. RootQueue'
      <3>1. \A k \in 1 .. Len(rootq') : rootq'[k] = roots'[RootOrder[RootsDone' + k]]
        <4> SUFFICES ASSUME NEW k \in 1 .. Len(rootq')
                     PROVE  rootq'[k] = roots'[RootOrder[RootsDone' + k]]
          OBVIOUS
        <4>1. k + 1 \in 1 .. Len(rootq) /\ RootsDone + (k + 1) = RootsDone' + k
          BY <2>1, <2>7, <2>8
        <4> QED BY <2>3, <2>6, <2>7, <4>1
      <3>2. Len(rootq') <= Len(RootOrder) BY <2>1, <2>6, <2>7
      <3> QED BY <2>3, <3>1, <3>2 DEF RootQueue
    <2>10. v = roots[RootOrder[RootsDone + 1]]
      <3>1. v = rootq[1] BY <2>1, <2>2
      <3> QED BY <2>1, <2>6, <3>1
    <2>11. Elems(mstack) = {} /\ Elems(mstack') = IF is_ptr(v) THEN {v} ELSE {}
      BY <2>3, SmallElems
    <2>12. Marking'
      <3>1. Good(Kept, heap.cdr, v)
        <4>1. RootsDone + 1 \in 1 .. Len(RootOrder) BY <2>1, <2>6, <2>8 DEF RootsDone
        <4>2. RootOrder[RootsDone + 1] \in Regs BY <4>1, RootOrderAssumption
        <4> QED BY <2>10, <4>2 DEF Safe, RefInv
      <3>2. \A x \in Elems(mstack') : Good(Kept', heap'.cdr, x) BY <2>3, <2>4, <2>11, <3>1
      <3>3. \A x : Pending(heap.mark, {}, x) => Pending(heap'.mark, Elems(mstack'), x)
        BY <2>3 DEF Pending
      <3>4. \A k \in 1 .. RootsDone' : Pending(heap'.mark, Elems(mstack'), roots'[RootOrder[k]])
        <4> SUFFICES ASSUME NEW k \in 1 .. RootsDone'
                     PROVE  Pending(heap'.mark, Elems(mstack'), roots[RootOrder[k]])
          BY <2>3
        <4>1. CASE k = RootsDone + 1 BY <2>10, <2>11, <4>1 DEF Pending
        <4>2. CASE k # RootsDone + 1
          <5>1. k \in 1 .. RootsDone BY <2>8, <4>2
          <5> QED BY <2>3, <2>11, <3>3, <5>1 DEF Safe, Marking
        <4> QED BY <4>1, <4>2
      <3>5. \A c \in Cell : c \notin FreeCells' /\ heap'.mark[c] =>
              /\ Pending(heap'.mark, Elems(mstack'), heap'.car[c])
              /\ Pending(heap'.mark, Elems(mstack'), heap'.cdr[c])
        BY <2>3, <2>4, <2>11, <3>3 DEF Safe, Marking
      <3> QED BY <3>2, <3>4, <3>5 DEF Marking
    <2> QED BY <2>4, <2>5, <2>9, <2>12 DEF Safe
  <1> QED BY <1>1, <1>2


LEMMA MarkSkipSafe ==
  ASSUME TypeOK, Safe, MarkSkip
  PROVE  Safe'
  <1>1. /\ UNCHANGED <<heap, roots, fl, pc, rootq>> /\ pc = "mark" /\ mstack' = Below
        /\ mstack # <<>> /\ mstack \in Seq(Value)
    BY DEF MarkSkip, TypeOK
  <1>2. FreeListProper' /\ RefInv' /\ FreeCells' = FreeCells /\ Kept' = Kept
    BY <1>1, AfterMarkStep
  <1>3. PICK v : v = Top OBVIOUS
  <1>4. Elems(mstack) = Elems(mstack') \cup {v} BY <1>1, <1>3, PopElems DEF Top, Below
  <1>5. is_ptr(v) => heap.mark[dec_ptr(v)] BY <1>3 DEF MarkSkip, NothingToMark
  <1>6. \A x : Pending(heap.mark, Elems(mstack), x) => Pending(heap'.mark, Elems(mstack'), x)
    BY <1>1, <1>4, <1>5 DEF Pending
  <1>7. MarkBits' BY <1>1, <1>2 DEF Safe, MarkBits
  <1>8. RootQueue' BY <1>1 DEF Safe, RootQueue, RootsDone
  <1>9. Marking'
    <2>1. RootsDone' = RootsDone BY <1>1 DEF RootsDone
    <2> QED BY <1>1, <1>2, <1>4, <1>6, <2>1 DEF Safe, Marking
  <1> QED BY <1>2, <1>7, <1>8, <1>9 DEF Safe

LEMMA MarkCellSafe ==
  ASSUME TypeOK, Safe, MarkCell, ~ overflow'
  PROVE  Safe'
  <1>1. /\ UNCHANGED <<roots, fl, rootq>> /\ pc = "mark" /\ mstack # <<>>
        /\ mstack \in Seq(Value) /\ heap.mark \in [Cell -> BOOLEAN]
    BY DEF MarkCell, TypeOK
  <1>2. PICK v : v = Top OBVIOUS
  <1>3. Elems(mstack) = Elems(Below) \cup {v} /\ Below \in Seq(Value)
    <2>1. Len(mstack) >= 1 BY <1>1
    <2> QED BY <1>1, <1>2, <2>1, PopElems, PopSeq DEF Top, Below
  <1>4. Good(Kept, heap.cdr, v) BY <1>1, <1>3 DEF Safe, Marking
  <1>5. is_ptr(v) BY <1>2 DEF MarkCell, NothingToMark
  <1>6. PICK c \in Cell : c = dec_ptr(v) /\ c \in Kept /\ c \notin FreeCells
    BY <1>4, <1>5 DEF Good, Kept
  <1>7. /\ heap'.car = heap.car /\ heap'.cdr = heap.cdr
        /\ heap'.freelist = heap.freelist /\ heap'.num_alloc = heap.num_alloc
        /\ heap'.mark = [heap.mark EXCEPT ![c] = TRUE]
    BY <1>2, <1>6 DEF TypeOK, MarkCell, set_gc_mark
  <1>8. pc' = "mark" BY <1>1 DEF MarkCell
  <1>9. FreeListProper' /\ RefInv' /\ FreeCells' = FreeCells /\ Kept' = Kept
    BY <1>1, <1>7, <1>8, AfterMarkStep
  <1>10. GoodCell(Kept, heap.car, heap.cdr, c) BY <1>6 DEF Safe, RefInv
  <1>11. type_of(v) = KindOf(heap.cdr[c]) BY <1>4, <1>5, <1>6 DEF Good
  <1>12. v # NIL BY <1>5, Atoms
  <1>13. /\ Elems(Below) \subseteq Elems(mstack')
         /\ \A x \in Elems(mstack') : Good(Kept, heap.cdr, x)
         /\ Pending(heap'.mark, Elems(mstack'), heap.car[c])
         /\ Pending(heap'.mark, Elems(mstack'), heap.cdr[c])
    <2>1. CASE type_of(v) # "CONS"
      <3>1. mstack' = Below BY <1>2, <2>1 DEF MarkCell
      <3>2. ~ is_ptr(heap.car[c]) BY <1>10, <1>11, <2>1 DEF GoodCell
      <3>3. ~ is_ptr(heap.cdr[c]) BY <1>11, <2>1, Atoms DEF KindOf
      <3> QED BY <1>1, <1>3, <3>1, <3>2, <3>3 DEF Safe, Marking, Pending
    <2>2. CASE type_of(v) = "CONS"
      <3>1. cdr(heap, v) = heap.cdr[c] /\ car(heap, v) = heap.car[c]
        BY <1>5, <1>6, <1>12, <2>2 DEF car, cdr
      <3>2. mstack' = Below \o <<heap.cdr[c], heap.car[c]>>
        BY <1>2, <2>2, <3>1 DEF MarkCell
      <3>3. PICK x \in Value, y \in Value : x = heap.cdr[c] /\ y = heap.car[c]
        BY DEF TypeOK
      <3>4. Elems(mstack') = Elems(Below) \cup {x, y} BY <1>3, <3>2, <3>3, PushTwo
      <3>5. Good(Kept, heap.cdr, x) /\ Good(Kept, heap.cdr, y)
        BY <1>10, <1>11, <2>2, <3>3 DEF GoodCell
      <3> QED BY <1>1, <1>3, <3>3, <3>4, <3>5 DEF Safe, Marking, Pending
    <2> QED BY <2>1, <2>2
  <1>14. \A x : Pending(heap.mark, Elems(mstack), x) /\ (is_ptr(x) => dec_ptr(x) \in Cell)
                => Pending(heap'.mark, Elems(mstack'), x)
    BY <1>1, <1>3, <1>6, <1>7, <1>13 DEF Pending
  <1>15. MarkBits' BY <1>1, <1>7, <1>8, <1>9 DEF Safe, MarkBits
  <1>16. RootQueue' BY <1>1, <1>8 DEF Safe, RootQueue, RootsDone
  <1>17. Marking'
    <2>1. RootsDone' = RootsDone BY <1>1 DEF RootsDone
    <2>2. \A k \in 1 .. RootsDone : Pending(heap'.mark, Elems(mstack'), roots'[RootOrder[k]])
      <3> SUFFICES ASSUME NEW k \in 1 .. RootsDone
                   PROVE  Pending(heap'.mark, Elems(mstack'), roots[RootOrder[k]])
        BY <1>1
      <3>1. k \in 1 .. Len(RootOrder)
        <4>1. Len(rootq) \in Nat /\ Len(RootOrder) \in Nat BY RootOrderAssumption DEF TypeOK
        <4> QED BY <4>1 DEF RootsDone
      <3>2. RootOrder[k] \in Regs BY <3>1, RootOrderAssumption
      <3>3. roots[RootOrder[k]] \in Value BY <3>2 DEF TypeOK
      <3>4. Pending(heap.mark, Elems(mstack), roots[RootOrder[k]])
        BY <1>1 DEF Safe, Marking
      <3> QED BY <1>14, <3>3, <3>4, PtrValue
    <2>3. ASSUME NEW e \in Cell, e \notin FreeCells', heap'.mark[e]
          PROVE  /\ Pending(heap'.mark, Elems(mstack'), heap'.car[e])
                 /\ Pending(heap'.mark, Elems(mstack'), heap'.cdr[e])
      <3>1. CASE e = c BY <1>7, <1>13, <3>1
      <3>2. CASE e # c
        <4>1. heap.mark[e] BY <1>1, <1>7, <2>3, <3>2
        <4>2. /\ Pending(heap.mark, Elems(mstack), heap.car[e])
              /\ Pending(heap.mark, Elems(mstack), heap.cdr[e])
          BY <1>1, <1>9, <2>3, <4>1 DEF Safe, Marking
        <4>3. heap.car[e] \in Value /\ heap.cdr[e] \in Value BY DEF TypeOK
        <4> QED BY <1>7, <1>14, <4>2, <4>3, PtrValue
      <3> QED BY <3>1, <3>2
    <2> QED BY <1>7, <1>9, <1>13, <2>1, <2>2, <2>3 DEF Marking
  <1> QED BY <1>9, <1>15, <1>16, <1>17 DEF Safe

LEMMA MarkReturnSafe ==
  ASSUME TypeOK, Safe, MarkReturn
  PROVE  Safe'
  <1>1. UNCHANGED <<heap, roots, fl, rootq, mstack, curr, i>> /\ pc = "mark" /\ pc' = "mark_roots"
        /\ mstack = <<>>
    BY DEF MarkReturn, gcVars
  <1>2. FreeListProper' /\ RefInv' /\ FreeCells' = FreeCells /\ Kept' = Kept
    BY <1>1, AfterMarkStep
  <1>3. MarkBits' BY <1>1, <1>2 DEF Safe, MarkBits
  <1>4. RootQueue' BY <1>1 DEF Safe, RootQueue, RootsDone
  <1>5. Marking' BY <1>1, <1>2 DEF Safe, Marking, RootsDone
  <1> QED BY <1>2, <1>3, <1>4, <1>5 DEF Safe

(***************************************************************************)
(* Sweeping                                                                *)
(***************************************************************************)
LEMMA SweepMarkedSafe ==
  ASSUME TypeOK, Safe, gc_sweep_phase, heap.mark[i]
  PROVE  Safe'
  <1>1. /\ pc = "sweep" /\ pc' = "sweep" /\ i' = i + 1 /\ i \in Cell /\ i \in Nat
        /\ UNCHANGED <<roots, fl, rootq, mstack>> /\ heap.mark \in [Cell -> BOOLEAN]
    BY HeapSizeAssumption DEF gc_sweep_phase, TypeOK, Cell
  <1>2. /\ heap'.car = heap.car /\ heap'.cdr = heap.cdr
        /\ heap'.freelist = heap.freelist /\ heap'.num_alloc = heap.num_alloc
        /\ heap'.mark = [heap.mark EXCEPT ![i] = FALSE]
    BY <1>1 DEF TypeOK, gc_sweep_phase, sweep_cell
  <1>3. FreeCells' = FreeCells BY <1>1 DEF FreeCells
  <1>4. Kept' = Kept
    <2>1. \A c \in Cell : (c < i + 1 \/ heap'.mark[c]) <=> (c < i \/ heap.mark[c])
      BY <1>1, <1>2 DEF Cell
    <2> QED BY <1>1, <1>3, <2>1 DEF Kept
  <1>5. FreeListProper' BY <1>1, <1>2 DEF Safe, FreeListProper
  <1>6. RefInv' BY <1>1, <1>2, <1>4 DEF Safe, RefInv
  <1>7. MarkBits'
    <2>1. \A c \in Cell : (c < i => ~ heap.mark[c]) /\ (c >= i /\ c \in FreeCells => heap.mark[c])
      BY <1>1 DEF Safe, MarkBits
    <2>2. \A c \in Cell : /\ (c < i + 1 => ~ heap'.mark[c])
                          /\ (c >= i + 1 /\ c \in FreeCells => heap'.mark[c])
      <3>1. \A c \in Cell : c \in Nat /\ (c < i + 1 => c = i \/ c < i)
                           /\ (c >= i + 1 => c # i /\ c >= i)
        BY <1>1 DEF Cell
      <3>2. \A c \in Cell : heap'.mark[c] <=> (c # i /\ heap.mark[c]) BY <1>1, <1>2
      <3> QED BY <2>1, <3>1, <3>2
    <2> QED BY <1>1, <1>3, <2>2 DEF MarkBits
  <1>8. RootQueue' /\ Marking' BY <1>1 DEF Safe, RootQueue, Marking
  <1> QED BY <1>5, <1>6, <1>7, <1>8 DEF Safe

LEMMA SweepFreeSafe ==
  ASSUME TypeOK, Safe, gc_sweep_phase, ~ heap.mark[i]
  PROVE  Safe'
  <1>1. /\ pc = "sweep" /\ pc' = "sweep" /\ i' = i + 1 /\ i \in Cell /\ i \in Nat
        /\ fl' = Append(fl, i) /\ fl \in Seq(Cell) /\ Len(fl) \in Nat
        /\ UNCHANGED <<roots, rootq, mstack>>
        /\ heap.mark \in [Cell -> BOOLEAN] /\ heap.cdr \in [Cell -> Value]
        /\ heap.car \in [Cell -> Value] /\ heap.num_alloc \in Int
    BY HeapSizeAssumption DEF gc_sweep_phase, TypeOK, Cell
  <1>2. /\ heap'.car = [heap.car EXCEPT ![i] = RECOVERED]
        /\ heap'.cdr = [heap.cdr EXCEPT ![i] = heap.freelist]
        /\ heap'.mark = heap.mark
        /\ heap'.freelist = enc_cons_ptr(i) /\ heap'.num_alloc = heap.num_alloc - 1
    BY <1>1 DEF gc_sweep_phase, sweep_cell
  <1>3. i \notin FreeCells /\ i \notin Kept BY <1>1 DEF Safe, MarkBits, Kept
  <1>4. FreeCells' = FreeCells \cup {i}
    <2>1. Elems(Append(fl, i)) = Elems(fl) \cup {i} BY <1>1, PushElem
    <2> QED BY <1>1, <2>1 DEF FreeCells, Elems
  <1>5. Kept' = Kept
    <2>1. \A c \in Cell : c # i => ((c < i + 1 \/ heap'.mark[c]) <=> (c < i \/ heap.mark[c]))
      BY <1>1, <1>2 DEF Cell
    <2> QED BY <1>1, <1>3, <1>4, <2>1 DEF Kept
  <1>6. FreeListProper'
    <2> DEFINE n == Len(fl)
    <2>1. /\ Len(fl') = n + 1 /\ (\A k \in 1 .. n : fl'[k] = fl[k]) /\ fl'[n + 1] = i
          /\ fl' # <<>>
      BY <1>1
    <2>2. \A k \in 1 .. n : fl[k] # i /\ fl[k] \in Cell BY <1>1, <1>3 DEF FreeCells
    <2>3. n \in Nat BY <1>1
    <2>4. /\ \A p, q \in 1 .. n : p # q => fl[p] # fl[q]
          /\ heap.freelist = IF fl = <<>> THEN NIL ELSE enc_cons_ptr(fl[n])
          /\ \A k \in 1 .. n :
               heap.cdr[fl[k]] = IF k = 1 THEN NIL ELSE enc_cons_ptr(fl[k - 1])
          /\ heap.num_alloc + n = heap_size
      BY DEF Safe, FreeListProper
    <2>5. fl = <<>> <=> n = 0 BY <1>1
    <2> HIDE DEF n
    <2>6. \A p, q \in 1 .. n + 1 : p # q => fl'[p] # fl'[q] BY <2>1, <2>2, <2>3, <2>4
    <2>7. \A k \in 1 .. n + 1 :
            heap'.cdr[fl'[k]] = IF k = 1 THEN NIL ELSE enc_cons_ptr(fl'[k - 1])
      <3> SUFFICES ASSUME NEW k \in 1 .. n + 1
                   PROVE  heap'.cdr[fl'[k]] = IF k = 1 THEN NIL ELSE enc_cons_ptr(fl'[k - 1])
        OBVIOUS
      <3>1. CASE k = n + 1
        <4>1. heap'.cdr[fl'[k]] = heap.freelist BY <1>1, <1>2, <2>1, <3>1
        <4>2. n # 0 => fl'[k - 1] = fl[n] BY <2>1, <2>3, <3>1
        <4> QED BY <2>3, <2>4, <2>5, <3>1, <4>1, <4>2
      <3>2. CASE k # n + 1
        <4>1. k \in 1 .. n BY <2>3, <3>2
        <4>2. heap'.cdr[fl'[k]] = heap.cdr[fl[k]] BY <1>1, <1>2, <2>1, <2>2, <4>1
        <4>3. k # 1 => fl'[k - 1] = fl[k - 1] BY <2>1, <2>3, <4>1
        <4> QED BY <2>4, <4>1, <4>2, <4>3
      <3> QED BY <3>1, <3>2
    <2>8. heap'.freelist = enc_cons_ptr(fl'[Len(fl')]) BY <1>2, <2>1
    <2>9. heap'.num_alloc + Len(fl') = heap_size BY <1>1, <1>2, <2>1, <2>3, <2>4
    <2> QED BY <2>1, <2>6, <2>7, <2>8, <2>9 DEF FreeListProper
  <1>7. \A c \in Kept : heap'.cdr[c] = heap.cdr[c] /\ heap'.car[c] = heap.car[c]
    BY <1>1, <1>2, <1>3 DEF Kept
  <1>8. ASSUME NEW v, Good(Kept, heap.cdr, v) PROVE Good(Kept', heap'.cdr, v)
    BY <1>5, <1>7, <1>8, GoodMono
  <1>9. RefInv'
    <2>1. ASSUME NEW r \in Regs PROVE Good(Kept', heap'.cdr, roots'[r])
      <3>1. PICK v : v = roots[r] OBVIOUS
      <3> QED BY <1>1, <1>8, <3>1 DEF Safe, RefInv
    <2>2. ASSUME NEW c \in Kept' PROVE GoodCell(Kept', heap'.car, heap'.cdr, c)
      <3>1. PICK x, y : x = heap.car[c] /\ y = heap.cdr[c] OBVIOUS
      <3>2. GoodCell(Kept, heap.car, heap.cdr, c) BY <1>5 DEF Safe, RefInv
      <3> QED BY <1>5, <1>7, <1>8, <3>1, <3>2 DEF GoodCell
    <2> QED BY <2>1, <2>2 DEF RefInv
  <1>10. MarkBits'
    <2>1. \A c \in Cell : (c < i => ~ heap.mark[c]) /\ (c >= i /\ c \in FreeCells => heap.mark[c])
      BY <1>1 DEF Safe, MarkBits
    <2>2. \A c \in Cell : /\ (c < i + 1 => ~ heap'.mark[c])
                          /\ (c >= i + 1 /\ c \in FreeCells' => heap'.mark[c])
      BY <1>1, <1>2, <1>4, <2>1 DEF Cell
    <2> QED BY <1>1, <2>2 DEF MarkBits
  <1>11. RootQueue' /\ Marking' BY <1>1 DEF Safe, RootQueue, Marking
  <1> QED BY <1>6, <1>9, <1>10, <1>11 DEF Safe

LEMMA SweepReturnSafe ==
  ASSUME TypeOK, Safe, SweepReturn
  PROVE  Safe'
  <1>1. /\ UNCHANGED <<heap, roots, fl, rootq, mstack>> /\ pc = "sweep" /\ pc' = "run"
        /\ i = heap_size
    BY DEF SweepReturn
  <1>2. \A c \in Cell : c < heap_size BY HeapSizeAssumption DEF Cell
  <1>3. FreeCells' = FreeCells BY <1>1 DEF FreeCells
  <1>4. Kept' = Kept BY <1>1, <1>2, <1>3 DEF Kept
  <1>5. RefInv' BY <1>1, <1>4 DEF Safe, RefInv
  <1>6. FreeListProper' BY <1>1 DEF Safe, FreeListProper
  <1>7. MarkBits' BY <1>1, <1>2 DEF Safe, MarkBits
  <1>8. RootQueue' /\ Marking' BY <1>1 DEF Safe, RootQueue, Marking
  <1> QED BY <1>5, <1>6, <1>7, <1>8 DEF Safe

(***************************************************************************)
(* The invariant holds                                                     *)
(***************************************************************************)
LEMMA InitSafe == Init => Safe
  <1> SUFFICES ASSUME Init PROVE Safe OBVIOUS
  <1> USE HeapSizeAssumption
  <1>1. /\ heap.cdr = [c \in Cell |-> IF c = heap_size - 1 THEN NIL ELSE enc_cons_ptr(c + 1)]
        /\ heap.mark = [c \in Cell |-> FALSE]
        /\ heap.freelist = enc_cons_ptr(0) /\ heap.num_alloc = 0
    BY DEF Init, generate_freelist
  <1>2. /\ fl \in Seq(Cell) /\ Len(fl) = heap_size
        /\ \A k \in 1 .. heap_size : fl[k] = heap_size - k
    <2>1. fl \in [1 .. heap_size -> Cell] BY DEF Init, Cell
    <2> QED BY <2>1 DEF Init
  <1>3. FreeListProper
    <2>1. \A m, n \in 1 .. Len(fl) : m # n => fl[m] # fl[n] BY <1>2
    <2>2. heap.freelist = IF fl = <<>> THEN NIL ELSE enc_cons_ptr(fl[Len(fl)])
      <3>1. fl # <<>> /\ fl[Len(fl)] = 0 BY <1>2
      <3> QED BY <1>1, <3>1
    <2>3. \A k \in 1 .. Len(fl) :
            heap.cdr[fl[k]] = IF k = 1 THEN NIL ELSE enc_cons_ptr(fl[k - 1])
      <3> SUFFICES ASSUME NEW k \in 1 .. heap_size
                   PROVE  heap.cdr[fl[k]] = IF k = 1 THEN NIL ELSE enc_cons_ptr(fl[k - 1])
        BY <1>2
      <3>1. fl[k] \in Cell /\ fl[k] = heap_size - k BY <1>2 DEF Cell
      <3>2. k # 1 => fl[k - 1] = fl[k] + 1 BY <1>2, <3>1
      <3> QED BY <1>1, <3>1, <3>2
    <2>4. heap.num_alloc + Len(fl) = heap_size BY <1>1, <1>2
    <2> QED BY <2>1, <2>2, <2>3, <2>4 DEF FreeListProper
  <1>4. MarkBits BY <1>1 DEF Init, MarkBits
  <1>5. FreeCells = Cell
    <2>1. \A c \in Cell : heap_size - c \in 1 .. heap_size /\ fl[heap_size - c] = c
      BY <1>2 DEF Cell
    <2>2. \A k \in 1 .. heap_size : fl[k] \in Cell BY <1>2 DEF Cell
    <2> QED BY <1>2, <2>1, <2>2 DEF FreeCells
  <1>6. RefInv
    <2>1. \A r \in Regs : roots[r] = NIL BY DEF Init
    <2>2. Kept = {} BY <1>5 DEF Kept
    <2> QED BY <2>1, <2>2, KindFacts DEF RefInv
  <1>7. RootQueue /\ Marking BY DEF Init, RootQueue, Marking
  <1> QED BY <1>3, <1>4, <1>6, <1>7 DEF Safe

LEMMA NextSafe == TypeOK /\ (~ overflow => Safe) /\ [Next]_vars => (~ overflow => Safe)'
  <1> SUFFICES ASSUME TypeOK, ~ overflow => Safe, [Next]_vars, ~ overflow' PROVE Safe'
    OBVIOUS
  <1>1. ~ overflow /\ Safe
    <2>1. overflow \in BOOLEAN BY DEF TypeOK
    <2>2. CASE MarkCell BY <2>1, <2>2 DEF MarkCell
    <2>3. CASE UNCHANGED overflow BY <2>3
    <2> QED BY <2>2, <2>3
      DEF Next, Evaluate, Collect, vars, gcVars, cons, enc_boxed, heap_allocate_array, load,
          store, drop, gc_state_inc, gc_mark_freelist, NextRoot, MarkSkip, MarkReturn,
          gc_sweep_phase, SweepReturn
  <1>2. CASE UNCHANGED vars BY <1>1, <1>2, SafeStutter DEF vars, gcVars
  <1>3. CASE Evaluate
    BY <1>1, <1>3, ConsSafe, BoxedSafe, ArraySafe, LoadSafe, StoreSafe, DropSafe DEF Evaluate
  <1>4. CASE Collect
    BY <1>1, <1>4, GcStartSafe, MarkFreelistSafe, NextRootSafe, MarkSkipSafe, MarkCellSafe,
       MarkReturnSafe, SweepMarkedSafe, SweepFreeSafe, SweepReturnSafe DEF Collect
  <1> QED BY <1>2, <1>3, <1>4 DEF Next

LEMMA SafeCorrect == Spec => [](TypeOK /\ (~ overflow => Safe))
  <1>1. Init => TypeOK /\ (~ overflow => Safe) BY InitType, InitSafe
  <1>2. TypeOK /\ (~ overflow => Safe) /\ [Next]_vars => (TypeOK /\ (~ overflow => Safe))'
    BY NextType, NextSafe
  <1> QED BY <1>1, <1>2, PTL DEF Spec

\* Allocation and sweep keep the free list a proper list of distinct cells
\* whose length num_alloc accounts for.
THEOREM FreeListCorrect == Spec => []FreeListExact
  <1>1. TypeOK /\ (~ overflow => Safe) => FreeListExact BY DEF FreeListExact, Safe
  <1> QED BY <1>1, SafeCorrect, PTL

LEMMA SafeRefs ==
  ASSUME Safe, pc = "run"
  PROVE  RootsValid /\ \A c \in Cell \ FreeCells : Valid(heap.car[c]) /\ Valid(heap.cdr[c])
  <1>1. Kept = Cell \ FreeCells BY DEF Kept
  <1>2. \A c : Kind(c) = KindOf(heap.cdr[c]) BY DEF Kind, KindOf
  <1>3. \A v : Good(Kept, heap.cdr, v) => Valid(v) BY <1>1, <1>2 DEF Good, Valid
  <1>4. \A d : KindOf(d) # "CONS" => ~ is_ptr(d) BY Atoms DEF KindOf
  <1>5. RootsValid BY <1>3 DEF Safe, RefInv, RootsValid
  <1>6. ASSUME NEW c \in Cell \ FreeCells PROVE Valid(heap.car[c]) /\ Valid(heap.cdr[c])
    <2>1. GoodCell(Kept, heap.car, heap.cdr, c) BY <1>1 DEF Safe, RefInv
    <2> QED BY <1>3, <1>4, <2>1 DEF GoodCell, Valid
  <1> QED BY <1>5, <1>6

\* Whatever was collected, references held by the evaluator and by allocated
\* cells lead to allocated cells of their own kind.
THEOREM ReferencesCorrect == Spec => []NoDanglingReference
  <1>1. TypeOK /\ (~ overflow => Safe) => NoDanglingReference
    BY SafeRefs DEF NoDanglingReference
  <1> QED BY <1>1, SafeCorrect, PTL

(***************************************************************************)
(* How much stack marking needs                                            *)
(***************************************************************************)
Unmarked == {c \in Cell : ~ heap.mark[c]}

\* Every push of two values pays with a cell newly marked.
Room ==
  /\ ~ overflow
  /\ pc = "mark" => Len(mstack) + Cardinality(Unmarked) <= heap_size + 1

LEMMA UnmarkedFinite ==
  IsFiniteSet(Unmarked) /\ Cardinality(Unmarked) \in Nat /\ Cardinality(Unmarked) <= heap_size
  <1>1. IsFiniteSet(Cell) /\ Cardinality(Cell) = heap_size
    BY HeapSizeAssumption, FS_Interval DEF Cell
  <1>2. Unmarked \subseteq Cell BY DEF Unmarked
  <1>3. IsFiniteSet(Unmarked) /\ Cardinality(Unmarked) <= Cardinality(Cell)
    BY <1>1, <1>2, FS_Subset
  <1> QED BY <1>1, <1>3, FS_CardinalityType

LEMMA RoomKept ==
  ASSUME MarkStackSize > heap_size, TypeOK, Room, [Next]_vars
  PROVE  Room'
  <1> USE HeapSizeAssumption, MarkStackAssumption
  <1>0. mstack \in Seq(Value) /\ Len(mstack) \in Nat /\ heap.mark \in [Cell -> BOOLEAN]
        /\ rootq \in Seq(Value)
    BY DEF TypeOK
  <1>1. CASE NextRoot
    <2>1. Unmarked' = Unmarked BY <1>1 DEF NextRoot, Unmarked
    <2>2. pc' = "mark" => Len(mstack') = 1 BY <1>1 DEF NextRoot
    <2>3. pc' = "mark" => Len(mstack') + Cardinality(Unmarked') <= heap_size + 1
      <3>1. PICK u \in Nat : u = Cardinality(Unmarked) /\ u <= heap_size BY UnmarkedFinite
      <3>2. Cardinality(Unmarked') = u BY <2>1, <3>1
      <3>3. 1 + u <= heap_size + 1 BY <3>1
      <3> QED BY <2>2, <3>2, <3>3
    <2>4. ~ overflow' BY <1>1 DEF Room, NextRoot
    <2> QED BY <2>3, <2>4 DEF Room
  <1>2. ASSUME mstack # <<>> PROVE Below \in Seq(Value) /\ Len(Below) = Len(mstack) - 1
    <2>1. Len(mstack) >= 1 BY <1>0, <1>2
    <2> QED BY <1>0, <2>1, PopSeq DEF Below
  <1>3. CASE MarkSkip
    <2>1. Unmarked' = Unmarked BY <1>3 DEF MarkSkip, Unmarked
    <2> QED BY <1>0, <1>2, <1>3, <2>1, UnmarkedFinite DEF Room, MarkSkip
  <1>4. CASE MarkCell
    <2>1. Top \in Value /\ is_ptr(Top) /\ ~ heap.mark[dec_ptr(Top)]
      <3>1. Len(mstack) \in 1 .. Len(mstack) BY <1>0, <1>4 DEF MarkCell
      <3> QED BY <1>0, <1>4, <3>1 DEF MarkCell, NothingToMark, Top
    <2>2. PICK c \in Cell : c = dec_ptr(Top) /\ ~ heap.mark[c] BY <2>1, PtrValue
    <2>3. heap'.mark = [heap.mark EXCEPT ![c] = TRUE]
      BY <1>4, <2>2 DEF TypeOK, MarkCell, set_gc_mark
    <2>4. c \in Unmarked /\ Unmarked' = Unmarked \ {c} BY <1>0, <2>2, <2>3 DEF Unmarked
    <2>5. Cardinality(Unmarked') = Cardinality(Unmarked) - 1 /\ Cardinality(Unmarked') \in Nat
      <3>1. IsFiniteSet(Unmarked) /\ Cardinality(Unmarked) \in Nat BY UnmarkedFinite
      <3>2. Cardinality(Unmarked \ {c}) = Cardinality(Unmarked) - 1
            /\ IsFiniteSet(Unmarked \ {c})
        BY <2>4, <3>1, FS_RemoveElement
      <3> QED BY <2>4, <3>1, <3>2, FS_CardinalityType
    <2>6. Len(mstack) + Cardinality(Unmarked) <= heap_size + 1 BY <1>4 DEF Room, MarkCell
    <2>7. Len(mstack) < MarkStackSize
      BY <1>0, <2>5, <2>6, UnmarkedFinite
    <2>8. Below \in Seq(Value) /\ Len(Below) = Len(mstack) - 1 BY <1>2, <1>4 DEF MarkCell
    <2>9. \A x, y : Len(Below \o <<x, y>>) = Len(mstack) + 1 BY <1>0, <2>8
    <2>10. Len(mstack') <= Len(mstack) + 1 /\ Len(mstack') \in Nat /\ UNCHANGED <<pc, overflow>>
      <3>1. CASE mstack' = Below /\ UNCHANGED <<pc, overflow>> BY <1>0, <2>8, <3>1
      <3>2. CASE mstack' = Below \o <<cdr(heap, Top), car(heap, Top)>>
                 /\ UNCHANGED <<pc, overflow>>
        BY <1>0, <2>9, <3>2
      <3> QED BY <1>4, <2>7, <3>1, <3>2 DEF MarkCell
    <2> QED BY <1>0, <2>5, <2>6, <2>10, UnmarkedFinite DEF Room
  <1>5. CASE UNCHANGED overflow /\ pc' # "mark" BY <1>5 DEF Room
  <1>6. CASE UNCHANGED vars BY <1>6 DEF Room, Unmarked, vars, gcVars
  <1> QED BY <1>1, <1>3, <1>4, <1>5, <1>6
      DEF Next, Evaluate, Collect, gcVars, cons, OutOfCells, enc_boxed, heap_allocate_array,
          load, store, drop, gc_state_inc, gc_mark_freelist, MarkReturn, gc_sweep_phase,
          SweepReturn

\* A mark stack with more entries than the heap has cells never overflows.
THEOREM MarkStackSuffices ==
  ASSUME MarkStackSize > heap_size
  PROVE  Spec => []~ overflow
  <1>1. Init => Room BY DEF Init, Room
  <1>2. Room => ~ overflow BY DEF Room
  <1>3. TypeOK /\ Room /\ [Next]_vars => Room' BY RoomKept
  <1> QED BY <1>1, <1>2, <1>3, TypeCorrect, PTL DEF Spec

\* With such a stack nothing a root holds is ever freed, however deep the
\* data: the size of the stack is all that LiveDataKept depends on.
THEOREM DeepDataKept ==
  ASSUME MarkStackSize > heap_size
  PROVE  Spec => []LiveDataKept
  <1>1. ~ overflow /\ NoDanglingReference => LiveDataKept
    BY DEF NoDanglingReference, LiveDataKept
  <1> QED BY <1>1, MarkStackSuffices, ReferencesCorrect, PTL
=============================================================================
