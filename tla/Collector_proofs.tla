-------------------------- MODULE Collector_proofs --------------------------
(***************************************************************************)
(* Proofs about the collector that rest on Safe, the invariant of          *)
(* Heap_proofs: a collection frees exactly what cannot be reached, its     *)
(* statistics add up, and array storage is freed with its handle.          *)
(***************************************************************************)
EXTENDS Heap_proofs

(***************************************************************************)
(* Reachability                                                            *)
(***************************************************************************)
\* Closed, with the state it depends on made explicit.
ClosedIn(R, A, D, S) ==
  /\ \A r \in Regs : is_ptr(R[r]) => dec_ptr(R[r]) \in S
  /\ \A c \in S : KindOf(D[c]) = "CONS" =>
       /\ is_ptr(A[c]) => dec_ptr(A[c]) \in S
       /\ is_ptr(D[c]) => dec_ptr(D[c]) \in S

LEMMA ClosedIsClosedIn == \A S : Closed(S) <=> ClosedIn(roots, heap.car, heap.cdr, S)
  BY DEF Closed, ClosedIn, Kind, KindOf

LEMMA ReachableInLeast ==
  \A c : c \in Reachable <=>
    c \in Cell /\ \A S \in SUBSET Cell : ClosedIn(roots, heap.car, heap.cdr, S) => c \in S
  BY ClosedIsClosedIn DEF Reachable

\* Reachability depends on the roots and on what the cells hold, not on marks.
LEMMA ReachableKept ==
  ASSUME roots' = roots, heap'.car = heap.car, heap'.cdr = heap.cdr
  PROVE  Reachable' = Reachable
  <1>1. \A S : Closed(S)' <=> Closed(S) BY DEF Closed, Kind
  <1> QED BY <1>1 DEF Reachable

\* What a root, or a reachable pair, refers to is reachable.
LEMMA ReachableClosed ==
  ASSUME TypeOK
  PROVE  /\ \A r \in Regs : is_ptr(roots[r]) => dec_ptr(roots[r]) \in Reachable
         /\ \A c \in Reachable : KindOf(heap.cdr[c]) = "CONS" =>
              /\ is_ptr(heap.car[c]) => dec_ptr(heap.car[c]) \in Reachable
              /\ is_ptr(heap.cdr[c]) => dec_ptr(heap.cdr[c]) \in Reachable
  <1>1. \A r \in Regs : roots[r] \in Value BY DEF TypeOK
  <1>2. \A c \in Cell : heap.car[c] \in Value /\ heap.cdr[c] \in Value BY DEF TypeOK
  <1>3. ASSUME NEW r \in Regs, is_ptr(roots[r]) PROVE dec_ptr(roots[r]) \in Reachable
    <2>1. dec_ptr(roots[r]) \in Cell BY <1>1, <1>3, PtrValue
    <2> QED BY <1>3, <2>1, ReachableInLeast DEF ClosedIn
  <1>4. ASSUME NEW c \in Reachable, KindOf(heap.cdr[c]) = "CONS"
        PROVE  /\ is_ptr(heap.car[c]) => dec_ptr(heap.car[c]) \in Reachable
               /\ is_ptr(heap.cdr[c]) => dec_ptr(heap.cdr[c]) \in Reachable
    <2>1. c \in Cell BY ReachableInLeast
    <2>2. /\ is_ptr(heap.car[c]) => dec_ptr(heap.car[c]) \in Cell
          /\ is_ptr(heap.cdr[c]) => dec_ptr(heap.cdr[c]) \in Cell
      BY <1>2, <2>1, PtrValue
    <2>3. ASSUME NEW S \in SUBSET Cell, ClosedIn(roots, heap.car, heap.cdr, S)
          PROVE  /\ is_ptr(heap.car[c]) => dec_ptr(heap.car[c]) \in S
                 /\ is_ptr(heap.cdr[c]) => dec_ptr(heap.cdr[c]) \in S
      <3>1. c \in S BY <2>3, ReachableInLeast
      <3> QED BY <1>4, <2>3, <3>1 DEF ClosedIn
    <2> QED BY <2>2, <2>3, ReachableInLeast
  <1> QED BY <1>3, <1>4

\* What is kept is closed, so it contains all that can be reached.
LEMMA KeptClosed ==
  ASSUME Safe
  PROVE  Reachable \subseteq Kept
  <1>1. Kept \in SUBSET Cell BY DEF Kept
  <1>2. \A r \in Regs : is_ptr(roots[r]) => dec_ptr(roots[r]) \in Kept BY DEF Safe, RefInv, Good
  <1>3. \A c \in Kept : GoodCell(Kept, heap.car, heap.cdr, c) BY DEF Safe, RefInv
  <1>4. ClosedIn(roots, heap.car, heap.cdr, Kept) BY <1>2, <1>3 DEF ClosedIn, GoodCell, Good
  <1> QED BY <1>1, <1>4, ReachableInLeast

(***************************************************************************)
(* Only what can be reached is marked                                      *)
(***************************************************************************)
Reached ==
  /\ pc \in {"mark_roots", "mark"} =>
       /\ \A c \in Cell : c \notin FreeCells /\ heap.mark[c] => c \in Reachable
       /\ \A v \in Elems(mstack) : is_ptr(v) => dec_ptr(v) \in Reachable
  /\ pc = "sweep" => Kept \subseteq Reachable

\* What the sweep has still to recover, and the count of everything else.
ToRecover == {c \in Cell : ~ heap.mark[c] /\ (pc = "sweep" => c >= i)}

Counted ==
  /\ gc_marked \in Nat /\ gc_recovered \in Nat
  /\ pc \in {"mark_freelist", "mark_roots", "mark", "sweep"} =>
       gc_marked + gc_recovered + Cardinality(ToRecover) = heap_size

(***************************************************************************)
(* The steps of the collector                                              *)
(***************************************************************************)
\* What MarkCell does, as MarkCellSafe finds it.
LEMMA MarkCellFacts ==
  ASSUME TypeOK, Safe, MarkCell, ~ overflow'
  PROVE  \E c \in Cell, v \in Value :
           /\ v \in Elems(mstack) /\ is_ptr(v) /\ c = dec_ptr(v) /\ ~ heap.mark[c]
           /\ type_of(v) = KindOf(heap.cdr[c])
           /\ heap'.car = heap.car /\ heap'.cdr = heap.cdr
           /\ heap'.mark = [heap.mark EXCEPT ![c] = TRUE]
           /\ pc = "mark" /\ pc' = "mark" /\ UNCHANGED <<roots, fl>>
           /\ gc_marked' = gc_marked + 1 /\ gc_recovered' = gc_recovered
           /\ \A x \in Elems(mstack') :
                x \in Elems(mstack) \/ (type_of(v) = "CONS" /\ x \in {heap.car[c], heap.cdr[c]})
  <1>1. /\ UNCHANGED <<roots, fl>> /\ pc = "mark" /\ mstack # <<>>
        /\ mstack \in Seq(Value) /\ heap.mark \in [Cell -> BOOLEAN]
        /\ gc_marked' = gc_marked + 1 /\ gc_recovered' = gc_recovered
    BY DEF MarkCell, TypeOK
  <1>2. Len(mstack) >= 1 /\ Len(mstack) \in 1 .. Len(mstack) BY <1>1
  <1>3. PICK v \in Value : v = Top BY <1>1, <1>2 DEF Top
  <1>4. Elems(mstack) = Elems(Below) \cup {v} /\ Below \in Seq(Value)
    BY <1>1, <1>2, <1>3, PopElems, PopSeq DEF Top, Below
  <1>5. Good(Kept, heap.cdr, v) BY <1>1, <1>4 DEF Safe, Marking
  <1>6. is_ptr(v) /\ ~ heap.mark[dec_ptr(v)] BY <1>3 DEF MarkCell, NothingToMark
  <1>7. PICK c \in Cell : c = dec_ptr(v) BY <1>6, PtrValue
  <1>8. /\ heap'.car = heap.car /\ heap'.cdr = heap.cdr
        /\ heap'.mark = [heap.mark EXCEPT ![c] = TRUE]
    BY <1>3, <1>7 DEF TypeOK, MarkCell, set_gc_mark
  <1>9. pc' = "mark" BY <1>1 DEF MarkCell
  <1>10. type_of(v) = KindOf(heap.cdr[c]) BY <1>5, <1>6, <1>7 DEF Good
  <1>11. ASSUME NEW x \in Elems(mstack')
         PROVE  x \in Elems(mstack) \/ (type_of(v) = "CONS" /\ x \in {heap.car[c], heap.cdr[c]})
    <2>1. CASE type_of(v) # "CONS"
      <3>1. mstack' = Below BY <1>3, <2>1 DEF MarkCell
      <3> QED BY <1>4, <3>1
    <2>2. CASE type_of(v) = "CONS"
      <3>0. v # NIL BY <1>6, Atoms
      <3>1. cdr(heap, v) = heap.cdr[c] /\ car(heap, v) = heap.car[c]
        BY <1>6, <1>7, <2>2, <3>0 DEF car, cdr
      <3>2. mstack' = Below \o <<heap.cdr[c], heap.car[c]>> BY <1>3, <2>2, <3>1 DEF MarkCell
      <3>3. PICK y \in Value, z \in Value : y = heap.cdr[c] /\ z = heap.car[c] BY DEF TypeOK
      <3>4. Elems(mstack') = Elems(Below) \cup {y, z} BY <1>4, <3>2, <3>3, PushTwo
      <3> QED BY <1>4, <2>2, <3>3, <3>4
    <2> QED BY <2>1, <2>2
  <1> QED BY <1>1, <1>4, <1>6, <1>7, <1>8, <1>9, <1>10, <1>11

LEMMA SweepFacts ==
  ASSUME TypeOK, Safe, gc_sweep_phase
  PROVE  /\ pc = "sweep" /\ pc' = "sweep" /\ i' = i + 1 /\ i \in Cell /\ i \in Nat
         /\ roots' = roots /\ Kept' = Kept /\ gc_marked' = gc_marked
         /\ heap.mark[i] => /\ heap'.car = heap.car /\ heap'.cdr = heap.cdr /\ FreeCells' = FreeCells
                            /\ heap'.mark = [heap.mark EXCEPT ![i] = FALSE]
                            /\ gc_recovered' = gc_recovered
         /\ ~ heap.mark[i] => /\ heap'.car = [heap.car EXCEPT ![i] = RECOVERED]
                              /\ heap'.cdr = [heap.cdr EXCEPT ![i] = heap.freelist]
                              /\ heap'.mark = heap.mark /\ FreeCells' = FreeCells \cup {i}
                              /\ i \notin FreeCells /\ i \notin Kept
                              /\ gc_recovered' = gc_recovered + 1
  <1>1. /\ pc = "sweep" /\ pc' = "sweep" /\ i' = i + 1 /\ i \in Cell /\ i \in Nat
        /\ roots' = roots /\ gc_marked' = gc_marked
        /\ fl \in Seq(Cell) /\ heap.mark \in [Cell -> BOOLEAN]
        /\ heap.mark[i] => fl' = fl /\ gc_recovered' = gc_recovered
        /\ ~ heap.mark[i] => fl' = Append(fl, i) /\ gc_recovered' = gc_recovered + 1
    BY HeapSizeAssumption DEF gc_sweep_phase, TypeOK, Cell
  <1>2. CASE heap.mark[i]
    <2>1. /\ heap'.car = heap.car /\ heap'.cdr = heap.cdr
          /\ heap'.mark = [heap.mark EXCEPT ![i] = FALSE]
      BY <1>1, <1>2 DEF TypeOK, gc_sweep_phase, sweep_cell
    <2>2. FreeCells' = FreeCells BY <1>1, <1>2 DEF FreeCells
    <2>3. \A c \in Cell : (c < i + 1 \/ heap'.mark[c]) <=> (c < i \/ heap.mark[c])
      BY <1>1, <1>2, <2>1 DEF Cell
    <2>4. Kept' = Kept BY <1>1, <2>2, <2>3 DEF Kept
    <2> QED BY <1>1, <1>2, <2>1, <2>2, <2>4
  <1>3. CASE ~ heap.mark[i]
    <2>1. /\ heap'.car = [heap.car EXCEPT ![i] = RECOVERED]
          /\ heap'.cdr = [heap.cdr EXCEPT ![i] = heap.freelist]
          /\ heap'.mark = heap.mark
      BY <1>1, <1>3 DEF gc_sweep_phase, sweep_cell
    <2>2. i \notin FreeCells /\ i \notin Kept BY <1>1, <1>3 DEF Safe, MarkBits, Kept
    <2>3. FreeCells' = FreeCells \cup {i}
      <3>1. Elems(Append(fl, i)) = Elems(fl) \cup {i} BY <1>1, PushElem
      <3> QED BY <1>1, <1>3, <3>1 DEF FreeCells, Elems
    <2>4. \A c \in Cell : c # i => ((c < i + 1 \/ heap'.mark[c]) <=> (c < i \/ heap.mark[c]))
      BY <1>1, <2>1 DEF Cell
    <2>5. Kept' = Kept BY <1>1, <2>2, <2>3, <2>4 DEF Kept
    <2> QED BY <1>1, <1>3, <2>1, <2>2, <2>3, <2>5
  <1> QED BY <1>2, <1>3

LEMMA NextReached ==
  ASSUME TypeOK, Safe, Reached, [Next]_vars, ~ overflow'
  PROVE  Reached'
  <1>1. CASE Evaluate \/ gc_state_inc \/ SweepReturn
    <2>1. pc' \in {"run", "gc", "mark_freelist"}
      BY <1>1 DEF Evaluate, cons, enc_boxed, heap_allocate_array, load, store, drop, OutOfCells,
                  gc_state_inc, SweepReturn
    <2> QED BY <2>1 DEF Reached
  <1>2. CASE gc_mark_freelist
    <2>1. CASE is_ptr(curr)
      <3>1. pc' = "mark_freelist" BY <1>2, <2>1 DEF gc_mark_freelist
      <3> QED BY <3>1 DEF Reached
    <2>2. CASE ~ is_ptr(curr)
      <3>1. pc = "mark_freelist" /\ pc' = "mark_roots" /\ UNCHANGED <<heap, fl, mstack>>
        BY <1>2, <2>2 DEF gc_mark_freelist
      <3>2. fl \in Seq(Cell) BY DEF TypeOK
      <3>3. \A c \in Cell : heap.mark[c] => c \in FreeCells
        <4>1. PICK k \in 0 .. Len(fl) :
                \A c \in Cell : heap.mark[c] <=> \E m \in k + 1 .. Len(fl) : fl[m] = c
          BY <3>1 DEF Safe, MarkBits
        <4>2. Len(fl) \in Nat /\ \A m \in k + 1 .. Len(fl) : m \in 1 .. Len(fl) BY <3>2
        <4> QED BY <4>1, <4>2 DEF FreeCells
      <3>4. FreeCells' = FreeCells BY <3>1 DEF FreeCells
      <3>5. Elems(mstack') = {} BY <3>1, SmallElems DEF Safe, RootQueue
      <3> QED BY <3>1, <3>3, <3>4, <3>5 DEF Reached
    <2> QED BY <2>1, <2>2
  <1>3. CASE NextRoot
    <2>1. UNCHANGED <<heap, roots, fl>> /\ pc = "mark_roots" BY <1>3 DEF NextRoot
    <2>2. Reachable' = Reachable /\ FreeCells' = FreeCells BY <2>1, ReachableKept DEF FreeCells
    <2>3. \A c \in Cell : c \notin FreeCells /\ heap.mark[c] => c \in Reachable
      BY <2>1 DEF Reached
    <2>4. CASE rootq = <<>>
      <3>1. pc' = "sweep" /\ i' = 0 BY <1>3, <2>4 DEF NextRoot
      <3>2. \A c \in Cell : ~ (c < 0) BY DEF Cell
      <3>3. Kept' \subseteq Reachable BY <2>1, <2>2, <2>3, <3>1, <3>2 DEF Kept
      <3> QED BY <2>2, <3>1, <3>3 DEF Reached
    <2>5. CASE rootq # <<>>
      <3>1. PICK v : v = Head(rootq) OBVIOUS
      <3>2. pc' \in {"mark_roots", "mark"} /\ mstack' = IF is_ptr(v) THEN <<v>> ELSE mstack
        BY <1>3, <2>1, <2>5, <3>1 DEF NextRoot
      <3>3. is_ptr(v) => dec_ptr(v) \in Reachable
        <4>1. rootq \in Seq(Value) /\ Len(rootq) \in Nat /\ Len(rootq) >= 1 /\ Len(RootOrder) \in Nat
          BY <2>5, RootOrderAssumption DEF TypeOK
        <4>2. /\ Len(rootq) <= Len(RootOrder)
              /\ \A k \in 1 .. Len(rootq) : rootq[k] = roots[RootOrder[RootsDone + k]]
          BY <2>1 DEF Safe, RootQueue
        <4>3. v = roots[RootOrder[RootsDone + 1]] BY <3>1, <4>1, <4>2
        <4>4. RootsDone + 1 \in 1 .. Len(RootOrder) BY <4>1, <4>2 DEF RootsDone
        <4>5. RootOrder[RootsDone + 1] \in Regs BY <4>4, RootOrderAssumption
        <4> QED BY <4>3, <4>5, ReachableClosed
      <3>4. \A x \in Elems(mstack') : is_ptr(x) => dec_ptr(x) \in Reachable
        <4>1. CASE is_ptr(v) BY <3>2, <3>3, <4>1, SmallElems
        <4>2. CASE ~ is_ptr(v) BY <2>1, <3>2, <4>2 DEF Reached
        <4> QED BY <4>1, <4>2
      <3> QED BY <2>1, <2>2, <2>3, <3>2, <3>4 DEF Reached
    <2> QED BY <2>4, <2>5
  <1>4. CASE MarkSkip \/ MarkReturn
    <2>1. /\ UNCHANGED <<heap, roots, fl>> /\ pc = "mark" /\ pc' \in {"mark_roots", "mark"}
          /\ mstack' = mstack \/ (mstack # <<>> /\ mstack' = Below)
      BY <1>4 DEF MarkSkip, MarkReturn, gcVars
    <2>2. Reachable' = Reachable /\ FreeCells' = FreeCells BY <2>1, ReachableKept DEF FreeCells
    <2>3. Elems(mstack') \subseteq Elems(mstack)
      <3>1. mstack \in Seq(Value) BY DEF TypeOK
      <3>2. mstack # <<>> => Elems(mstack) = Elems(Below) \cup {Top}
        BY <3>1, PopElems DEF Below, Top
      <3> QED BY <2>1, <3>2
    <2> QED BY <2>1, <2>2, <2>3 DEF Reached
  <1>5. CASE MarkCell
    <2>1. PICK c \in Cell, v \in Value :
            /\ v \in Elems(mstack) /\ is_ptr(v) /\ c = dec_ptr(v)
            /\ type_of(v) = KindOf(heap.cdr[c])
            /\ heap'.car = heap.car /\ heap'.cdr = heap.cdr
            /\ heap'.mark = [heap.mark EXCEPT ![c] = TRUE]
            /\ pc = "mark" /\ pc' = "mark" /\ UNCHANGED <<roots, fl>>
            /\ \A x \in Elems(mstack') :
                 x \in Elems(mstack) \/ (type_of(v) = "CONS" /\ x \in {heap.car[c], heap.cdr[c]})
      BY <1>5, MarkCellFacts
    <2>2. Reachable' = Reachable /\ FreeCells' = FreeCells BY <2>1, ReachableKept DEF FreeCells
    <2>3. c \in Reachable BY <2>1 DEF Reached
    <2>4. \A e \in Cell : heap'.mark[e] => e = c \/ heap.mark[e]
      <3>1. heap.mark \in [Cell -> BOOLEAN] BY DEF TypeOK
      <3> QED BY <2>1, <3>1
    <2>5. \A e \in Cell : e \notin FreeCells /\ heap'.mark[e] => e \in Reachable
      BY <2>1, <2>3, <2>4 DEF Reached
    <2>6. \A x \in Elems(mstack') : is_ptr(x) => dec_ptr(x) \in Reachable
      <3>1. type_of(v) = "CONS" => /\ is_ptr(heap.car[c]) => dec_ptr(heap.car[c]) \in Reachable
                                   /\ is_ptr(heap.cdr[c]) => dec_ptr(heap.cdr[c]) \in Reachable
        BY <2>1, <2>3, ReachableClosed
      <3> QED BY <2>1, <3>1 DEF Reached
    <2> QED BY <2>1, <2>2, <2>5, <2>6 DEF Reached
  <1>6. CASE gc_sweep_phase
    <2>1. pc = "sweep" /\ pc' = "sweep" /\ roots' = roots /\ Kept' = Kept
      BY <1>6, SweepFacts
    <2>2. Kept \subseteq Reachable BY <2>1 DEF Reached
    <2>3. Kept \subseteq Reachable'
      <3>1. CASE heap.mark[i]
        <4>1. heap'.car = heap.car /\ heap'.cdr = heap.cdr BY <1>6, <3>1, SweepFacts
        <4>2. Reachable' = Reachable BY <2>1, <4>1, ReachableKept
        <4> QED BY <2>2, <4>2
      <3>2. CASE ~ heap.mark[i]
        <4>1. /\ heap'.car = [heap.car EXCEPT ![i] = RECOVERED]
              /\ heap'.cdr = [heap.cdr EXCEPT ![i] = heap.freelist] /\ i \notin Kept
          BY <1>6, <3>2, SweepFacts
        <4>2. \A c \in Kept : heap'.car[c] = heap.car[c] /\ heap'.cdr[c] = heap.cdr[c]
          BY <4>1 DEF TypeOK, Kept
        <4>3. ASSUME NEW S \in SUBSET Cell, Closed(S)' PROVE Kept \subseteq S
          <5>1. ClosedIn(roots', heap'.car, heap'.cdr, S) BY <4>3 DEF Closed, ClosedIn, Kind, KindOf
          <5>2. \A r \in Regs : Good(Kept, heap.cdr, roots[r]) BY DEF Safe, RefInv
          <5>3. \A c \in Kept : GoodCell(Kept, heap.car, heap.cdr, c) BY DEF Safe, RefInv
          <5>4. ASSUME NEW r \in Regs, is_ptr(roots[r]) PROVE dec_ptr(roots[r]) \in S \cap Kept
            BY <2>1, <5>1, <5>2, <5>4 DEF ClosedIn, Good
          <5>5. ASSUME NEW c \in S \cap Kept, KindOf(heap.cdr[c]) = "CONS"
                PROVE  /\ is_ptr(heap.car[c]) => dec_ptr(heap.car[c]) \in S \cap Kept
                       /\ is_ptr(heap.cdr[c]) => dec_ptr(heap.cdr[c]) \in S \cap Kept
            <6>1. /\ is_ptr(heap.car[c]) => dec_ptr(heap.car[c]) \in S
                  /\ is_ptr(heap.cdr[c]) => dec_ptr(heap.cdr[c]) \in S
              BY <4>2, <5>1, <5>5 DEF ClosedIn
            <6>2. Good(Kept, heap.cdr, heap.car[c]) /\ Good(Kept, heap.cdr, heap.cdr[c])
              BY <5>3, <5>5 DEF GoodCell
            <6> QED BY <6>1, <6>2 DEF Good
          <5>6. ClosedIn(roots, heap.car, heap.cdr, S \cap Kept) BY <5>4, <5>5 DEF ClosedIn
          <5>7. S \cap Kept \in SUBSET Cell OBVIOUS
          <5>8. Reachable \subseteq S \cap Kept BY <5>6, <5>7, ReachableInLeast
          <5> QED BY <2>2, <5>8
        <4>4. Kept \subseteq Cell BY DEF Kept
        <4> QED BY <4>3, <4>4 DEF Reachable
      <3> QED BY <3>1, <3>2
    <2> QED BY <2>1, <2>3 DEF Reached
  <1>7. CASE UNCHANGED vars
    <2>1. UNCHANGED <<heap, roots, fl, pc, mstack, i>> BY <1>7 DEF vars, gcVars
    <2>2. Reachable' = Reachable /\ FreeCells' = FreeCells /\ Kept' = Kept
      BY <2>1, ReachableKept DEF FreeCells, Kept
    <2> QED BY <2>1, <2>2 DEF Reached
  <1> QED BY <1>1, <1>2, <1>3, <1>4, <1>5, <1>6, <1>7 DEF Next, Collect

(***************************************************************************)
(* Every cell is counted once                                              *)
(***************************************************************************)
LEMMA ToRecoverFinite ==
  IsFiniteSet(ToRecover) /\ Cardinality(ToRecover) \in Nat
  <1>1. IsFiniteSet(Cell) BY HeapSizeAssumption, FS_Interval DEF Cell
  <1>2. ToRecover \subseteq Cell BY DEF ToRecover
  <1> QED BY <1>1, <1>2, FS_Subset, FS_CardinalityType

\* One cell fewer to recover, one more counted.
LEMMA CountOne ==
  ASSUME NEW c \in ToRecover, ToRecover' = ToRecover \ {c},
         Counted, pc \in {"mark_freelist", "mark_roots", "mark", "sweep"},
         \/ gc_marked' = gc_marked + 1 /\ gc_recovered' = gc_recovered
         \/ gc_marked' = gc_marked /\ gc_recovered' = gc_recovered + 1
  PROVE  Counted'
  <1>1. IsFiniteSet(ToRecover) /\ Cardinality(ToRecover) \in Nat BY ToRecoverFinite
  <1>2. Cardinality(ToRecover \ {c}) = Cardinality(ToRecover) - 1 BY <1>1, FS_RemoveElement
  <1>3. PICK u \in Nat : u = Cardinality(ToRecover) BY <1>1
  <1>4. Cardinality(ToRecover') = u - 1 BY <1>2, <1>3
  <1>5. gc_marked \in Nat /\ gc_recovered \in Nat /\ gc_marked + gc_recovered + u = heap_size
    BY <1>3 DEF Counted
  <1>6. gc_marked' + gc_recovered' + (u - 1) = heap_size /\ gc_marked' \in Nat /\ gc_recovered' \in Nat
    BY <1>5
  <1> QED BY <1>4, <1>6 DEF Counted

LEMMA NextCounted ==
  ASSUME TypeOK, Safe, Counted, [Next]_vars, ~ overflow'
  PROVE  Counted'
  <1>0. heap.mark \in [Cell -> BOOLEAN] BY DEF TypeOK
  <1>1. CASE Evaluate \/ SweepReturn
    <2>1. pc' \in {"run", "gc"}
      BY <1>1 DEF Evaluate, cons, enc_boxed, heap_allocate_array, load, store, drop, OutOfCells,
                  SweepReturn
    <2>2. gc_marked' \in Nat /\ gc_recovered' \in Nat
      BY <1>1 DEF Evaluate, cons, enc_boxed, heap_allocate_array, load, store, drop, gcVars,
                  SweepReturn, Counted
    <2> QED BY <2>1, <2>2 DEF Counted
  <1>2. CASE gc_state_inc
    <2>1. /\ pc = "gc" /\ pc' = "mark_freelist" /\ gc_marked' = 0 /\ gc_recovered' = 0
          /\ heap' = heap
      BY <1>2 DEF gc_state_inc
    <2>2. ToRecover' = Cell BY <2>1 DEF ToRecover, Safe, MarkBits
    <2>3. Cardinality(Cell) = heap_size BY HeapSizeAssumption, FS_Interval DEF Cell
    <2> QED BY <2>1, <2>2, <2>3, HeapSizeAssumption DEF Counted
  <1>3. CASE gc_mark_freelist
    <2>1. CASE is_ptr(curr)
      <3>1. /\ pc = "mark_freelist" /\ pc' = "mark_freelist"
            /\ gc_marked' = gc_marked + 1 /\ gc_recovered' = gc_recovered
        BY <1>3, <2>1 DEF gc_mark_freelist
      <3>2. PICK k \in 0 .. Len(fl) :
              /\ curr = IF k = 0 THEN NIL ELSE enc_cons_ptr(fl[k])
              /\ \A c \in Cell : heap.mark[c] <=> \E m \in k + 1 .. Len(fl) : fl[m] = c
        BY <3>1 DEF Safe, MarkBits
      <3>3. fl \in Seq(Cell) /\ Len(fl) \in Nat BY DEF TypeOK
      <3>4. k # 0 BY <2>1, <3>2, Atoms
      <3>5. k \in 1 .. Len(fl) /\ fl[k] \in Cell BY <3>3, <3>4
      <3>6. PICK f \in Cell : f = fl[k] BY <3>5
      <3>7. dec_ptr(curr) = f BY <3>2, <3>4, <3>6, ConsPtr
      <3>8. heap'.mark = [heap.mark EXCEPT ![f] = TRUE]
        BY <1>3, <2>1, <3>7 DEF TypeOK, gc_mark_freelist, set_gc_mark
      <3>9. ~ heap.mark[f]
        <4>1. \A p, q \in 1 .. Len(fl) : p # q => fl[p] # fl[q] BY DEF Safe, FreeListProper
        <4>2. \A m \in k + 1 .. Len(fl) : m \in 1 .. Len(fl) /\ m # k BY <3>3, <3>5
        <4> QED BY <3>2, <3>5, <3>6, <4>1, <4>2
      <3>10. f \in ToRecover /\ ToRecover' = ToRecover \ {f}
        BY <1>0, <3>1, <3>8, <3>9 DEF ToRecover
      <3> QED BY <3>1, <3>10, CountOne
    <2>2. CASE ~ is_ptr(curr)
      <3>1. /\ pc = "mark_freelist" /\ pc' = "mark_roots" /\ UNCHANGED <<heap, gc_marked, gc_recovered>>
        BY <1>3, <2>2 DEF gc_mark_freelist
      <3>2. ToRecover' = ToRecover BY <3>1 DEF ToRecover
      <3> QED BY <3>1, <3>2 DEF Counted
    <2> QED BY <2>1, <2>2
  <1>4. CASE NextRoot
    <2>1. /\ pc = "mark_roots" /\ pc' \in {"mark_roots", "mark", "sweep"} /\ (pc' = "sweep" => i' = 0)
          /\ UNCHANGED <<heap, gc_marked, gc_recovered>>
      BY <1>4 DEF NextRoot
    <2>2. \A c \in Cell : c >= 0 BY DEF Cell
    <2>3. ToRecover' = ToRecover BY <2>1, <2>2 DEF ToRecover
    <2> QED BY <2>1, <2>3 DEF Counted
  <1>5. CASE MarkSkip \/ MarkReturn
    <2>1. /\ pc = "mark" /\ pc' \in {"mark_roots", "mark"}
          /\ UNCHANGED <<heap, gc_marked, gc_recovered>>
      BY <1>5 DEF MarkSkip, MarkReturn, gcVars
    <2>2. ToRecover' = ToRecover BY <2>1 DEF ToRecover
    <2> QED BY <2>1, <2>2 DEF Counted
  <1>6. CASE MarkCell
    <2>1. PICK c \in Cell : /\ ~ heap.mark[c] /\ heap'.mark = [heap.mark EXCEPT ![c] = TRUE]
                            /\ pc = "mark" /\ pc' = "mark"
                            /\ gc_marked' = gc_marked + 1 /\ gc_recovered' = gc_recovered
      BY <1>6, MarkCellFacts
    <2>2. c \in ToRecover /\ ToRecover' = ToRecover \ {c} BY <1>0, <2>1 DEF ToRecover
    <2> QED BY <2>1, <2>2, CountOne
  <1>7. CASE gc_sweep_phase
    <2>1. pc = "sweep" /\ pc' = "sweep" /\ i' = i + 1 /\ i \in Cell /\ i \in Nat /\ gc_marked' = gc_marked
      BY <1>7, SweepFacts
    <2>2. \A c \in Cell : c >= i + 1 <=> c >= i /\ c # i BY <2>1 DEF Cell
    <2>3. CASE heap.mark[i]
      <3>1. heap'.mark = [heap.mark EXCEPT ![i] = FALSE] /\ gc_recovered' = gc_recovered
        BY <1>7, <2>3, SweepFacts
      <3>2. ToRecover' = ToRecover BY <1>0, <2>1, <2>2, <2>3, <3>1 DEF ToRecover
      <3> QED BY <2>1, <3>1, <3>2 DEF Counted
    <2>4. CASE ~ heap.mark[i]
      <3>1. heap'.mark = heap.mark /\ gc_recovered' = gc_recovered + 1 BY <1>7, <2>4, SweepFacts
      <3>2. PICK c \in Cell : c = i BY <2>1
      <3>3. c \in ToRecover BY <2>1, <2>4, <3>2 DEF ToRecover
      <3>4. ToRecover' = ToRecover \ {c} BY <2>1, <2>2, <3>1, <3>2 DEF ToRecover
      <3> QED BY <2>1, <3>1, <3>3, <3>4, CountOne
    <2> QED BY <2>3, <2>4
  <1>8. CASE UNCHANGED vars
    <2>1. UNCHANGED <<heap, pc, i, gc_marked, gc_recovered>> BY <1>8 DEF vars, gcVars
    <2>2. ToRecover' = ToRecover BY <2>1 DEF ToRecover
    <2> QED BY <2>1, <2>2 DEF Counted
  <1> QED BY <1>1, <1>2, <1>3, <1>4, <1>5, <1>6, <1>7, <1>8 DEF Next, Collect

\* A step that leaves overflow FALSE found it FALSE.
LEMMA OverflowKept == TypeOK /\ [Next]_vars /\ ~ overflow' => ~ overflow
  <1>1. TypeOK => overflow \in BOOLEAN BY DEF TypeOK
  <1>2. ASSUME TypeOK, MarkCell, ~ overflow' PROVE ~ overflow BY <1>1, <1>2 DEF MarkCell
  <1>3. ASSUME [Next]_vars PROVE MarkCell \/ UNCHANGED overflow
    BY <1>3
      DEF Next, Evaluate, Collect, vars, gcVars, cons, enc_boxed, heap_allocate_array, load,
          store, drop, gc_state_inc, gc_mark_freelist, NextRoot, MarkSkip, MarkReturn,
          gc_sweep_phase, SweepReturn
  <1> QED BY <1>2, <1>3

LEMMA ExactCorrect == Spec => [](TypeOK /\ (~ overflow => Safe /\ Reached /\ Counted))
  <1> DEFINE Inv == TypeOK /\ (~ overflow => Safe /\ Reached /\ Counted)
  <1>1. Init => Inv
    <2>1. Init => Reached /\ Counted BY DEF Init, Reached, Counted
    <2> QED BY <2>1, InitType, InitSafe
  <1>2. Inv /\ [Next]_vars => Inv'
    <2> SUFFICES ASSUME Inv, [Next]_vars PROVE Inv' OBVIOUS
    <2>1. TypeOK' BY NextType
    <2>2. ASSUME ~ overflow' PROVE Safe' /\ Reached' /\ Counted'
      <3>1. ~ overflow BY <2>2, OverflowKept
      <3>2. Safe' BY <2>2, <3>1, NextSafe
      <3> QED BY <2>2, <3>1, <3>2, NextReached, NextCounted
    <2> QED BY <2>1, <2>2
  <1> QED BY <1>1, <1>2, PTL DEF Spec

LEMMA ExactAtEnd ==
  ASSUME TypeOK, ~ overflow => Safe /\ Reached /\ Counted
  PROVE  CollectionIsExact
  <1> SUFFICES ASSUME pc = "sweep", i = heap_size, ~ overflow
               PROVE  /\ Cell \ FreeCells = Reachable
                      /\ \A c \in Cell : ~ heap.mark[c]
                      /\ gc_marked + gc_recovered = heap_size
    BY DEF CollectionIsExact
  <1>1. Safe /\ Reached /\ Counted OBVIOUS
  <1>2. \A c \in Cell : c < i /\ ~ (c >= i) BY HeapSizeAssumption DEF Cell
  <1>3. Kept = Cell \ FreeCells BY <1>2 DEF Kept
  <1>4. Kept = Reachable BY <1>1, KeptClosed DEF Reached
  <1>5. \A c \in Cell : ~ heap.mark[c] BY <1>1, <1>2 DEF Safe, MarkBits
  <1>6. ToRecover = {} BY <1>2 DEF ToRecover
  <1>7. gc_marked + gc_recovered = heap_size
    <2>1. Cardinality(ToRecover) = 0 BY <1>6, FS_EmptySet
    <2>2. /\ gc_marked \in Nat /\ gc_recovered \in Nat
          /\ gc_marked + gc_recovered + Cardinality(ToRecover) = heap_size
      BY <1>1 DEF Counted
    <2> QED BY <2>1, <2>2
  <1> QED BY <1>3, <1>4, <1>5, <1>7

\* For every heap, set of roots and shape of the data, circular data included: a
\* collection whose mark stack sufficed keeps exactly the cells that the roots lead
\* to, leaves no mark, and has marked or recovered every cell once.
THEOREM CollectionCorrect == Spec => []CollectionIsExact
  <1>1. TypeOK /\ (~ overflow => Safe /\ Reached /\ Counted) => CollectionIsExact BY ExactAtEnd
  <1> QED BY <1>1, ExactCorrect, PTL

(***************************************************************************)
(* Array storage                                                           *)
(***************************************************************************)
\* The handle of an array stores where its block starts; no two blocks start at
\* the same word.
Storage ==
  /\ \A b \in blocks : b[1] \in Int /\ b[2] \in Int /\ b[1] <= b[2]
  /\ \A b, e \in blocks : b[1] = e[1] => b = e
  /\ \A c \in ArrayHandles : \E b \in blocks : heap.car[c] = <<"RAW", b[1]>>
  /\ \A c, d \in ArrayHandles : heap.car[c] = heap.car[d] => c = d
  /\ \A b \in blocks : \E c \in ArrayHandles : heap.car[c] = <<"RAW", b[1]>>

LEMMA StorageSays == Storage /\ ~ overflow => StorageOwned
  <1> SUFFICES ASSUME Storage
               PROVE  /\ \A c, d \in ArrayHandles : heap.car[c] = heap.car[d] => c = d
                      /\ {heap.car[c][2] : c \in ArrayHandles} = {b[1] : b \in blocks}
    BY DEF StorageOwned
  <1>1. \A c \in ArrayHandles : \E b \in blocks : heap.car[c][2] = b[1] BY DEF Storage
  <1>2. \A b \in blocks : \E c \in ArrayHandles : heap.car[c][2] = b[1] BY DEF Storage
  <1>3. {heap.car[c][2] : c \in ArrayHandles} \subseteq {b[1] : b \in blocks} BY <1>1
  <1>4. {b[1] : b \in blocks} \subseteq {heap.car[c][2] : c \in ArrayHandles} BY <1>2
  <1>5. {heap.car[c][2] : c \in ArrayHandles} = {b[1] : b \in blocks} BY <1>3, <1>4, Zenon
  <1>6. \A c, d \in ArrayHandles : heap.car[c] = heap.car[d] => c = d BY DEF Storage
  <1> QED BY <1>5, <1>6

\* Steps that change neither the handles nor the blocks.
LEMMA StorageKept ==
  ASSUME Storage, ArrayHandles' = ArrayHandles, blocks' = blocks,
         \A c \in ArrayHandles : heap'.car[c] = heap.car[c]
  PROVE  Storage'
  BY DEF Storage

LEMMA ArrayWords ==
  ASSUME NEW type, NEW size \in Nat
  PROVE  array_words(type, size) \in Nat
  <1>1. size \div 4 \in Nat OBVIOUS
  <1> QED BY <1>1 DEF array_words

\* An allocated cell whose cdr is d is a handle just when d is ARRAY_TYPE.
LEMMA HandlesAfter ==
  ASSUME TypeOK, FreeListProper, NEW a \in Value, NEW d \in Value, AllocateCell(a, d)
  PROVE  \E c \in Cell :
           /\ c \notin ArrayHandles /\ heap'.car[c] = a
           /\ \A e \in Cell : e # c => heap'.car[e] = heap.car[e]
           /\ d = ARRAY_TYPE => ArrayHandles' = ArrayHandles \cup {c}
           /\ d # ARRAY_TYPE => ArrayHandles' = ArrayHandles
  <1>1. PICK c \in Cell :
           /\ c \in FreeCells /\ FreeCells' = FreeCells \ {c}
           /\ cons_value(heap) = enc_cons_ptr(c)
           /\ heap'.car = [heap.car EXCEPT ![c] = a]
           /\ heap'.cdr = [heap.cdr EXCEPT ![c] = d]
           /\ heap'.mark = [heap.mark EXCEPT ![c] = FALSE]
           /\ FreeListProper'
           /\ fl' \in Seq(Cell)
           /\ heap' \in [car : [Cell -> Value], cdr : [Cell -> Value],
                         mark : [Cell -> BOOLEAN], freelist : Value, num_alloc : Int]
    BY TakeCell
  <1>2. heap.cdr \in [Cell -> Value] /\ heap.car \in [Cell -> Value] BY DEF TypeOK
  <1>3. c \notin ArrayHandles BY <1>1 DEF ArrayHandles
  <1>4. \A e \in Cell : heap'.cdr[e] = IF e = c THEN d ELSE heap.cdr[e] BY <1>1, <1>2
  <1>5. \A e : e \in ArrayHandles' <=> (e \in ArrayHandles \/ (e = c /\ d = ARRAY_TYPE))
    BY <1>1, <1>4 DEF ArrayHandles, HandlesArray
  <1>6. heap'.car[c] = a /\ \A e \in Cell : e # c => heap'.car[e] = heap.car[e] BY <1>1, <1>2
  <1> QED BY <1>3, <1>5, <1>6

LEMMA AllocateStorage ==
  ASSUME TypeOK, Safe, Storage, NEW r \in Regs, NEW type, NEW size \in Nat,
         heap_allocate_array(r, type, size)
  PROVE  Storage'
  <1> DEFINE n == array_words(type, size)
  <1>0. FreeListProper BY DEF Safe
  <1>1. CASE UNCHANGED <<heap, fl, memVars>>
    <2>1. ArrayHandles' = ArrayHandles /\ blocks' = blocks
      BY <1>1 DEF ArrayHandles, FreeCells, HandlesArray, memVars
    <2> QED BY <1>1, <2>1, StorageKept
  <1>2. CASE Mem!Refuse(n) /\ AllocateCell(NIL, NIL)
    <2>1. blocks' = blocks BY <1>2 DEF Mem!Refuse
    <2>2. PICK c \in Cell : /\ c \notin ArrayHandles
                            /\ \A e \in Cell : e # c => heap'.car[e] = heap.car[e]
                            /\ ArrayHandles' = ArrayHandles
      BY <1>0, <1>2, HandlesAfter, Atoms
    <2>3. \A e \in ArrayHandles : heap'.car[e] = heap.car[e] BY <2>2 DEF ArrayHandles
    <2> QED BY <2>1, <2>2, <2>3, StorageKept
  <1>3. CASE Mem!Allocate(n) /\ AllocateCell(<<"RAW", ret'[2]>>, ARRAY_TYPE)
    <2>1. PICK p \in Mem!Word : /\ ret' = <<"allocate", p>> /\ n > 0
                                /\ blocks' = blocks \cup {<<p, p + n - 1>>} /\ Mem!Hole(p, n)
      BY <1>3 DEF Mem!Allocate
    <2>2. p \in Int /\ n \in Nat BY <2>1, MemorySizeAssumption, ArrayWords DEF Mem!Word
    <2> HIDE DEF n
    <2>3. \A b \in blocks : p < b[1] \/ p > b[2]
      <3>1. p \in p .. p + n - 1 BY <2>1, <2>2
      <3> QED BY <2>1, <3>1 DEF Mem!Hole, Mem!FreeWord
    <2>4. \A b \in blocks : b[1] # p BY <2>2, <2>3 DEF Storage
    <2>5. ret'[2] = p /\ <<"RAW", p>> \in Value /\ ARRAY_TYPE \in Value BY <2>1, <2>2, Atoms
    <2>6. AllocateCell(<<"RAW", p>>, ARRAY_TYPE) BY <1>3, <2>5
    <2>7. PICK c \in Cell : /\ c \notin ArrayHandles /\ heap'.car[c] = <<"RAW", p>>
                            /\ \A e \in Cell : e # c => heap'.car[e] = heap.car[e]
                            /\ ArrayHandles' = ArrayHandles \cup {c}
      BY <1>0, <2>5, <2>6, HandlesAfter
    <2>8. \A e \in ArrayHandles : heap'.car[e] = heap.car[e] BY <2>7 DEF ArrayHandles
    <2>9. PICK new : new = <<p, p + n - 1>> OBVIOUS
    <2>10. /\ new[1] = p /\ new[1] \in Int /\ new[2] \in Int /\ new[1] <= new[2]
           /\ blocks' = blocks \cup {new}
      BY <2>1, <2>2, <2>9
    <2>11. \A b \in blocks' : b[1] \in Int /\ b[2] \in Int /\ b[1] <= b[2] BY <2>10 DEF Storage
    <2>12. \A b, e \in blocks' : b[1] = e[1] => b = e BY <2>4, <2>10 DEF Storage
    <2>13. \A x, y : <<"RAW", x>> = <<"RAW", y>> => x = y OBVIOUS
    <2>14. \A e \in ArrayHandles' : \E b \in blocks' : heap'.car[e] = <<"RAW", b[1]>>
      BY <2>7, <2>8, <2>10 DEF Storage
    <2>15. \A e \in ArrayHandles : heap.car[e] # <<"RAW", p>>
      BY <2>4, <2>13 DEF Storage
    <2>16. \A e, d \in ArrayHandles' : heap'.car[e] = heap'.car[d] => e = d
      BY <2>7, <2>8, <2>15 DEF Storage
    <2>17. \A b \in blocks' : \E e \in ArrayHandles' : heap'.car[e] = <<"RAW", b[1]>>
      BY <2>7, <2>8, <2>10 DEF Storage
    <2> QED BY <2>11, <2>12, <2>14, <2>16, <2>17 DEF Storage
  <1> QED BY <1>1, <1>2, <1>3 DEF heap_allocate_array

LEMMA SweepStorageKept ==
  ASSUME TypeOK, Safe, Storage, gc_sweep_phase
  PROVE  Storage'
  <1>1. SweepStorage(i) BY DEF gc_sweep_phase
  <1>2. i \in Cell BY SweepFacts
  <1>3. CASE heap.mark[i]
    <2>1. heap'.car = heap.car /\ heap'.cdr = heap.cdr /\ FreeCells' = FreeCells
      BY <1>3, SweepFacts
    <2>2. ArrayHandles' = ArrayHandles BY <2>1 DEF ArrayHandles, HandlesArray
    <2>3. blocks' = blocks BY <1>1, <1>3 DEF SweepStorage, memVars
    <2> QED BY <2>1, <2>2, <2>3, StorageKept
  <1>4. CASE ~ heap.mark[i]
    <2>1. PICK c \in Cell : c = i BY <1>2
    <2>2. /\ heap'.car = [heap.car EXCEPT ![c] = RECOVERED]
          /\ heap'.cdr = [heap.cdr EXCEPT ![c] = heap.freelist]
          /\ FreeCells' = FreeCells \cup {c} /\ c \notin FreeCells
      BY <1>4, <2>1, SweepFacts
    <2>3. heap.cdr \in [Cell -> Value] /\ heap.car \in [Cell -> Value] BY DEF TypeOK
    <2>4. \A e \in Cell : e # c => heap'.cdr[e] = heap.cdr[e] /\ heap'.car[e] = heap.car[e]
      BY <2>2, <2>3
    <2>5. ArrayHandles' = ArrayHandles \ {c} BY <2>2, <2>4 DEF ArrayHandles, HandlesArray
    <2>6. \A e \in ArrayHandles \ {c} : heap'.car[e] = heap.car[e] BY <2>4 DEF ArrayHandles
    <2>7. CASE ~ HandlesArray(heap, c)
      <3>1. blocks' = blocks BY <1>1, <2>1, <2>7 DEF SweepStorage, memVars
      <3>2. c \notin ArrayHandles BY <2>7 DEF ArrayHandles
      <3> QED BY <2>5, <2>6, <3>1, <3>2, StorageKept
    <2>8. CASE HandlesArray(heap, c)
      <3>1. c \in ArrayHandles BY <2>2, <2>8 DEF ArrayHandles
      <3>2. PICK b \in blocks : heap.car[c] = <<"RAW", b[1]>> BY <3>1 DEF Storage
      <3>3. heap.car[c][2] = b[1] BY <3>2
      <3>4. blocks' = blocks \ {b}
        <4>1. Mem!Free(b[1]) \/ Mem!Reject(b[1]) BY <1>1, <1>4, <2>1, <2>8, <3>3 DEF SweepStorage
        <4>2. ~ Mem!Reject(b[1]) BY DEF Mem!Reject
        <4>3. PICK e \in blocks : e[1] = b[1] /\ blocks' = blocks \ {e} BY <4>1, <4>2 DEF Mem!Free
        <4>4. e = b BY <4>3 DEF Storage
        <4> QED BY <4>3, <4>4
      <3>5. \A x, y : <<"RAW", x>> = <<"RAW", y>> => x = y OBVIOUS
      <3>6. ASSUME NEW e \in ArrayHandles \ {c} PROVE \E f \in blocks' : heap'.car[e] = <<"RAW", f[1]>>
        <4>1. PICK f \in blocks : heap.car[e] = <<"RAW", f[1]>> BY DEF Storage
        <4>2. heap.car[e] # heap.car[c] BY <3>1 DEF Storage
        <4>3. f # b BY <3>2, <4>1, <4>2
        <4> QED BY <2>6, <3>4, <4>1, <4>3
      <3>7. ASSUME NEW f \in blocks \ {b}
            PROVE  \E e \in ArrayHandles \ {c} : heap'.car[e] = <<"RAW", f[1]>>
        <4>1. PICK e \in ArrayHandles : heap.car[e] = <<"RAW", f[1]>> BY DEF Storage
        <4>2. f[1] # b[1] BY DEF Storage
        <4>3. e # c BY <3>2, <3>5, <4>1, <4>2
        <4> QED BY <2>6, <4>1, <4>3
      <3>8. /\ \A f \in blocks' : f[1] \in Int /\ f[2] \in Int /\ f[1] <= f[2]
            /\ \A f, g \in blocks' : f[1] = g[1] => f = g
        BY <3>4 DEF Storage
      <3>9. \A e, d \in ArrayHandles' : heap'.car[e] = heap'.car[d] => e = d
        BY <2>5, <2>6 DEF Storage
      <3> QED BY <2>5, <3>4, <3>6, <3>7, <3>8, <3>9 DEF Storage
    <2> QED BY <2>7, <2>8
  <1> QED BY <1>3, <1>4

LEMMA NextStorage ==
  ASSUME TypeOK, Safe, Storage, [Next]_vars, ~ overflow'
  PROVE  Storage'
  <1>0. FreeListProper BY DEF Safe
  <1>1. ASSUME UNCHANGED <<fl, blocks>>, heap'.car = heap.car, heap'.cdr = heap.cdr PROVE Storage'
    <2>1. ArrayHandles' = ArrayHandles BY <1>1 DEF ArrayHandles, FreeCells, HandlesArray
    <2> QED BY <1>1, <2>1, StorageKept
  <1>2. ASSUME NEW a \in Value, NEW d \in Value, d # ARRAY_TYPE, AllocateCell(a, d), blocks' = blocks
        PROVE  Storage'
    <2>1. PICK c \in Cell : /\ c \notin ArrayHandles
                            /\ \A e \in Cell : e # c => heap'.car[e] = heap.car[e]
                            /\ ArrayHandles' = ArrayHandles
      BY <1>0, <1>2, HandlesAfter
    <2>2. \A e \in ArrayHandles : heap'.car[e] = heap.car[e] BY <2>1 DEF ArrayHandles
    <2> QED BY <1>2, <2>1, <2>2, StorageKept
  <1>3. ASSUME OutOfCells, blocks' = blocks PROVE Storage' BY <1>1, <1>3 DEF OutOfCells
  <1>4. ASSUME NEW r \in Regs, NEW a \in Regs, NEW b \in Regs, cons(r, a, b) PROVE Storage'
    <2>1. blocks' = blocks BY <1>4 DEF cons, memVars
    <2>2. PICK va \in Value, vb \in Value : va = roots[a] /\ vb = roots[b] BY DEF TypeOK
    <2>3. vb # ARRAY_TYPE BY <2>2 DEF Safe, RefInv, Good
    <2>4. AllocateCell(va, vb) \/ OutOfCells BY <1>4, <2>2 DEF cons
    <2> QED BY <1>2, <1>3, <2>1, <2>3, <2>4
  <1>5. ASSUME NEW r \in Regs, enc_boxed(r) PROVE Storage'
    <2>1. blocks' = blocks BY <1>5 DEF enc_boxed, memVars
    <2>2. <<"RAW", 0>> \in Value /\ BOXED_TYPE \in Value /\ BOXED_TYPE # ARRAY_TYPE BY Atoms
    <2>3. AllocateCell(<<"RAW", 0>>, BOXED_TYPE) \/ OutOfCells BY <1>5 DEF enc_boxed
    <2> QED BY <1>2, <1>3, <2>1, <2>2, <2>3
  <1>6. ASSUME NEW r \in Regs, NEW s \in ArrayShapes, heap_allocate_array(r, s[1], s[2]) PROVE Storage'
    <2>1. s[2] \in Nat BY ArrayShapesAssumption
    <2> QED BY <1>6, <2>1, AllocateStorage
  <1>7. ASSUME NEW r \in Regs, NEW a \in Regs, load(r, a) PROVE Storage'
    BY <1>1, <1>7 DEF load, memVars
  <1>8. ASSUME NEW a \in Regs, NEW b \in Regs, store(a, b) PROVE Storage'
    <2>1. PICK v \in Value, w \in Value : v = roots[a] /\ w = roots[b] BY DEF TypeOK
    <2>2. Good(Kept, heap.cdr, v) /\ w # ARRAY_TYPE BY <2>1 DEF Safe, RefInv, Good
    <2>3. fl' = fl /\ blocks' = blocks /\ heap' = set_cdr(heap, v, w)
      BY <1>8, <2>1 DEF store, memVars
    <2>4. CASE type_of(v) # "CONS" BY <1>1, <2>3, <2>4 DEF set_cdr
    <2>5. CASE type_of(v) = "CONS"
      <3>1. PICK c \in Cell : c = dec_ptr(v) /\ KindOf(heap.cdr[c]) = "CONS"
        BY <2>2, <2>5, PtrValue DEF Good
      <3>2. /\ heap.cdr \in [Cell -> Value] /\ heap'.cdr = [heap.cdr EXCEPT ![c] = w]
            /\ heap'.car = heap.car
        BY <2>3, <2>5, <3>1 DEF TypeOK, set_cdr
      <3>3. heap.cdr[c] # ARRAY_TYPE BY <3>1 DEF KindOf
      <3>4. \A e \in Cell : heap'.cdr[e] = ARRAY_TYPE <=> heap.cdr[e] = ARRAY_TYPE
        BY <2>2, <3>2, <3>3
      <3>5. ArrayHandles' = ArrayHandles BY <2>3, <3>4 DEF ArrayHandles, FreeCells, HandlesArray
      <3> QED BY <2>3, <3>2, <3>5, StorageKept
    <2> QED BY <2>4, <2>5
  <1>9. ASSUME NEW r \in Regs, drop(r) PROVE Storage' BY <1>1, <1>9 DEF drop, memVars
  <1>10. CASE gc_state_inc \/ NextRoot \/ MarkSkip \/ MarkReturn \/ SweepReturn
    BY <1>1, <1>10 DEF gc_state_inc, NextRoot, MarkSkip, MarkReturn, SweepReturn, memVars
  <1>11. CASE gc_mark_freelist
    <2>1. fl' = fl /\ blocks' = blocks BY <1>11 DEF gc_mark_freelist, memVars
    <2>2. heap'.car = heap.car /\ heap'.cdr = heap.cdr
      BY <1>11 DEF gc_mark_freelist, set_gc_mark, TypeOK
    <2> QED BY <1>1, <2>1, <2>2
  <1>12. CASE MarkCell
    <2>1. fl' = fl /\ blocks' = blocks BY <1>12 DEF MarkCell, memVars
    <2>2. heap'.car = heap.car /\ heap'.cdr = heap.cdr BY <1>12, MarkCellFacts
    <2> QED BY <1>1, <2>1, <2>2
  <1>13. CASE gc_sweep_phase BY <1>13, SweepStorageKept
  <1>14. CASE UNCHANGED vars BY <1>1, <1>14 DEF vars, memVars
  <1> QED BY <1>4, <1>5, <1>6, <1>7, <1>8, <1>9, <1>10, <1>11, <1>12, <1>13, <1>14
      DEF Next, Evaluate, Collect

\* For every heap, array memory and mix of arrays: through every allocation and in
\* the middle of every sweep, each block of array storage belongs to exactly one
\* allocated handle, and each handle to one block.
THEOREM StorageCorrect == Spec => []StorageOwned
  <1>1. Init => Storage
    <2> SUFFICES ASSUME Init PROVE Storage OBVIOUS
    <2>1. blocks = {} BY DEF Init, Mem!AbsInit
    <2>2. ArrayHandles = {}
      <3>1. \A c \in Cell : heap.cdr[c] # ARRAY_TYPE
        <4>1. \A c \in Cell : heap.cdr[c] = IF c = heap_size - 1 THEN NIL ELSE enc_cons_ptr(c + 1)
          BY DEF Init, generate_freelist
        <4>2. NIL # ARRAY_TYPE BY Atoms
        <4>3. \A c \in Cell : c # heap_size - 1 => c + 1 \in Cell BY HeapSizeAssumption DEF Cell
        <4>4. \A c \in Cell : enc_cons_ptr(c) # ARRAY_TYPE BY ConsPtr
        <4> QED BY <4>1, <4>2, <4>3, <4>4
      <3> QED BY <3>1 DEF ArrayHandles, HandlesArray
    <2> QED BY <2>1, <2>2 DEF Storage
  <1> DEFINE SafeInv == TypeOK /\ (~ overflow => Safe)
             Inv == ~ overflow => Storage
  <1>2. SafeInv /\ Inv /\ [Next]_vars => Inv'
    <2> SUFFICES ASSUME SafeInv, Inv, [Next]_vars, ~ overflow' PROVE Storage' OBVIOUS
    <2>1. ~ overflow BY OverflowKept
    <2> QED BY <2>1, NextStorage
  <1>3. Inv => StorageOwned BY StorageSays DEF StorageOwned
  <1>4. Spec => []SafeInv BY SafeCorrect
  <1> QED BY <1>1, <1>2, <1>3, <1>4, PTL DEF Spec
=============================================================================
