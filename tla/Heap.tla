-------------------------------- MODULE Heap --------------------------------
(***************************************************************************)
(* The life of the cons-cell heap: the evaluator allocates cells, boxed    *)
(* numbers and arrays and moves references between its roots; when an      *)
(* allocation fails the mark and sweep collector of src/src/heap.c runs,   *)
(* one loop iteration per step, before the evaluator goes on.  Array       *)
(* storage comes from the allocator specified by MemoryAbs.                *)
(***************************************************************************)
EXTENDS HeapOps, FiniteSets

CONSTANTS Regs,           \* the VALUEs the collector is given: registers, stack
          RootOrder,      \* the order in which they are handed to gc_mark_phase
          MarkStackSize,  \* entries of gc_mark_phase's stack, 1024 in the code
          ArrayShapes,    \* <<element type, size>> of the arrays asked for
          memory_size     \* words of array memory

ASSUME RootOrderAssumption ==
  RootOrder \in Seq(Regs) /\ \A r \in Regs : \E k \in 1 .. Len(RootOrder) : RootOrder[k] = r
ASSUME MarkStackAssumption == MarkStackSize \in Nat \ {0}
ASSUME MemorySizeAssumption == memory_size \in Nat
ASSUME ArrayShapesAssumption == \A a \in ArrayShapes : a[2] \in Nat

VARIABLES heap,           \* the heap record of HeapOps
          roots,          \* the evaluator's references
          pc,             \* "run", or the phase of the collector
          curr,           \* gc_mark_freelist: the cell it has reached
          rootq,          \* roots not yet handed to gc_mark_phase
          mstack,         \* gc_mark_phase: its stack
          overflow,       \* a gc_mark_phase has returned 0, which callers ignore
          i,              \* gc_sweep_phase: the next cell
          gc_marked, gc_recovered,   \* statistics of the current collection
          array_ret,      \* what heap_allocate_array last returned: [ret, made]
          blocks, ret,    \* MemoryAbs: live blocks, last result
          fl              \* auxiliary: the free cells, last in the list first

gcVars == <<curr, rootq, mstack, overflow, i, gc_marked, gc_recovered>>
memVars == <<blocks, ret>>
vars == <<heap, roots, pc, gcVars, array_ret, memVars, fl>>

Requests == {array_words(a[1], a[2]) : a \in ArrayShapes}
Mem == INSTANCE MemoryAbs

FreeCells == {fl[k] : k \in 1 .. Len(fl)}

Init ==
  /\ heap = generate_freelist(<<"RAW", 0>>)
  /\ roots = [r \in Regs |-> NIL]
  /\ pc = "run" /\ curr = NIL /\ rootq = <<>> /\ mstack = <<>> /\ overflow = FALSE
  /\ i = 0 /\ gc_marked = 0 /\ gc_recovered = 0
  /\ array_ret = [ret |-> 0, made |-> FALSE]
  /\ Mem!AbsInit
  /\ fl = [k \in 1 .. heap_size |-> heap_size - k]

(***************************************************************************)
(* The evaluator.  An allocation that fails asks for a collection.         *)
(***************************************************************************)
AllocateCell(a, d) ==
  /\ CanAllocate(heap)
  /\ heap' = cons_heap(heap, a, d)
  /\ fl' = SubSeq(fl, 1, Len(fl) - 1)

OutOfCells ==
  /\ ~ CanAllocate(heap)
  /\ pc' = "gc"
  /\ UNCHANGED <<heap, fl, roots>>

\* r := cons(a, b)
cons(r, a, b) ==
  /\ pc = "run"
  /\ \/ /\ AllocateCell(roots[a], roots[b])
        /\ roots' = [roots EXCEPT ![r] = cons_value(heap)]
        /\ UNCHANGED pc
     \/ OutOfCells
  /\ UNCHANGED <<gcVars, memVars, array_ret>>

\* r := enc_I, enc_U or enc_F of some number
enc_boxed(r) ==
  /\ pc = "run"
  /\ \/ /\ AllocateCell(<<"RAW", 0>>, BOXED_TYPE)
        /\ roots' = [roots EXCEPT ![r] = set_ptr_type(cons_value(heap), "BOXED")]
        /\ UNCHANGED pc
     \/ OutOfCells
  /\ UNCHANGED <<gcVars, memVars, array_ret>>

\* heap_allocate_array(&r, size, type): the cell first, then the storage.
\* Without a cell it returns the error symbol, a nonzero int, and leaves r
\* alone; without storage it returns 0 and the cell it took is garbage.
heap_allocate_array(r, type, size) ==
  /\ pc = "run"
  /\ \/ /\ ~ CanAllocate(heap)
        /\ array_ret' = [ret |-> 1, made |-> FALSE]
        /\ UNCHANGED <<heap, fl, roots, pc, memVars>>
     \/ /\ Mem!Refuse(array_words(type, size))
        /\ AllocateCell(NIL, NIL)
        /\ array_ret' = [ret |-> 0, made |-> FALSE]
        /\ pc' = "gc"
        /\ UNCHANGED roots
     \/ /\ Mem!Allocate(array_words(type, size))
        /\ AllocateCell(<<"RAW", ret'[2]>>, ARRAY_TYPE)
        /\ roots' = [roots EXCEPT ![r] = set_ptr_type(cons_value(heap), "ARRAY")]
        /\ array_ret' = [ret |-> 1, made |-> TRUE]
        /\ UNCHANGED pc
  /\ UNCHANGED gcVars

\* r := car(a) or cdr(a).  car of a boxed or array value is the raw word it
\* stores, taken here to be even, so that it does not look like a pointer.
\* Of anything else both return a constant symbol and touch no cell.
load(r, a) ==
  /\ pc = "run"
  /\ \/ is_ptr(roots[a]) /\ roots' = [roots EXCEPT ![r] = car(heap, roots[a])]
     \/ type_of(roots[a]) = "CONS" /\ roots' = [roots EXCEPT ![r] = cdr(heap, roots[a])]
  /\ UNCHANGED <<heap, fl, pc, gcVars, memVars, array_ret>>

\* set_cdr, as env.c uses it to change a binding
store(a, b) ==
  /\ pc = "run"
  /\ heap' = set_cdr(heap, roots[a], roots[b])
  /\ UNCHANGED <<roots, fl, pc, gcVars, memVars, array_ret>>

drop(r) ==
  /\ pc = "run"
  /\ roots' = [roots EXCEPT ![r] = NIL]
  /\ UNCHANGED <<heap, fl, pc, gcVars, memVars, array_ret>>

(***************************************************************************)
(* The collector                                                           *)
(***************************************************************************)
gc_state_inc ==
  /\ pc = "gc"
  /\ pc' = "mark_freelist"
  /\ curr' = heap.freelist
  /\ rootq' = [k \in 1 .. Len(RootOrder) |-> roots[RootOrder[k]]]
  /\ gc_marked' = 0 /\ gc_recovered' = 0
  /\ UNCHANGED <<heap, roots, mstack, overflow, i, array_ret, memVars, fl>>

gc_mark_freelist ==
  /\ pc = "mark_freelist"
  /\ IF is_ptr(curr)
       THEN /\ heap' = set_gc_mark(heap, dec_ptr(curr))
            /\ curr' = heap.cdr[dec_ptr(curr)]
            /\ gc_marked' = gc_marked + 1
            /\ UNCHANGED pc
       ELSE /\ pc' = "mark_roots"
            /\ UNCHANGED <<heap, curr, gc_marked>>
  /\ UNCHANGED <<roots, rootq, mstack, overflow, i, gc_recovered, array_ret, memVars, fl>>

\* gc hands the next root to gc_mark_phase; after the last one it sweeps.
NextRoot ==
  /\ pc = "mark_roots"
  /\ IF rootq = <<>>
       THEN pc' = "sweep" /\ i' = 0 /\ UNCHANGED <<rootq, mstack>>
       ELSE /\ rootq' = Tail(rootq)
            /\ IF is_ptr(Head(rootq))
                 THEN mstack' = <<Head(rootq)>> /\ pc' = "mark"
                 ELSE UNCHANGED <<mstack, pc>>
            /\ UNCHANGED i
  /\ UNCHANGED <<heap, roots, curr, overflow, gc_marked, gc_recovered, array_ret, memVars, fl>>

Top == mstack[Len(mstack)]
Below == SubSeq(mstack, 1, Len(mstack) - 1)

\* A value that needs no marking: not a pointer, or a cell already marked.
NothingToMark(v) == is_ptr(v) => heap.mark[dec_ptr(v)]

\* Fault: a marked cell is looked at but not taken off the stack.
MarkSkip_NoPop ==
  /\ pc = "mark" /\ mstack # <<>>
  /\ NothingToMark(Top)
  /\ mstack' = IF is_ptr(Top) THEN mstack ELSE Below
  /\ UNCHANGED <<heap, roots, pc, curr, rootq, overflow, i, gc_marked, gc_recovered,
                 array_ret, memVars, fl>>

MarkSkip ==
  /\ pc = "mark" /\ mstack # <<>>
  /\ NothingToMark(Top)
  /\ mstack' = Below
  /\ UNCHANGED <<heap, roots, pc, curr, rootq, overflow, i, gc_marked, gc_recovered,
                 array_ret, memVars, fl>>

\* Fault: only the cdr is followed.
MarkCell_CdrOnly ==
  /\ pc = "mark" /\ mstack # <<>>
  /\ ~ NothingToMark(Top)
  /\ heap' = set_gc_mark(heap, dec_ptr(Top))
  /\ gc_marked' = gc_marked + 1
  /\ mstack' = IF type_of(Top) # "CONS" THEN Below ELSE Below \o <<cdr(heap, Top)>>
  /\ UNCHANGED <<pc, overflow, roots, curr, rootq, i, gc_recovered, array_ret, memVars, fl>>

\* Mark the cell and push cdr, then car.  When the stack has no room for both
\* gc_mark_phase gives up and the rest of its stack is forgotten.
MarkCell ==
  /\ pc = "mark" /\ mstack # <<>>
  /\ ~ NothingToMark(Top)
  /\ heap' = set_gc_mark(heap, dec_ptr(Top))
  /\ gc_marked' = gc_marked + 1
  /\ IF type_of(Top) # "CONS"
       THEN mstack' = Below /\ UNCHANGED <<pc, overflow>>
       ELSE IF Len(mstack) < MarkStackSize
         THEN /\ mstack' = Below \o <<cdr(heap, Top), car(heap, Top)>>
              /\ UNCHANGED <<pc, overflow>>
         ELSE mstack' = <<>> /\ overflow' = TRUE /\ pc' = "mark_roots"
  /\ UNCHANGED <<roots, curr, rootq, i, gc_recovered, array_ret, memVars, fl>>

MarkReturn ==
  /\ pc = "mark" /\ mstack = <<>>
  /\ pc' = "mark_roots"
  /\ UNCHANGED <<heap, roots, gcVars, array_ret, memVars, fl>>

\* Fault: the storage of a collected array is kept.
SweepStorage_Leaks(c) == UNCHANGED memVars

\* The storage of an unmarked array goes back to the memory module.
SweepStorage(c) ==
  IF ~ heap.mark[c] /\ HandlesArray(heap, c)
    THEN Mem!Free(heap.car[c][2]) \/ Mem!Reject(heap.car[c][2])
    ELSE UNCHANGED memVars

gc_sweep_phase ==
  /\ pc = "sweep" /\ i < heap_size
  /\ SweepStorage(i)
  /\ heap' = sweep_cell(heap, i)
  /\ IF heap.mark[i]
       THEN UNCHANGED <<fl, gc_recovered>>
       ELSE fl' = Append(fl, i) /\ gc_recovered' = gc_recovered + 1
  /\ i' = i + 1
  /\ UNCHANGED <<roots, pc, curr, rootq, mstack, overflow, gc_marked, array_ret>>

SweepReturn ==
  /\ pc = "sweep" /\ i = heap_size
  /\ pc' = "run" /\ curr' = NIL /\ i' = 0
  /\ gc_marked' = 0 /\ gc_recovered' = 0   \* reported, never read by the program
  /\ UNCHANGED <<heap, roots, rootq, mstack, overflow, array_ret, memVars, fl>>

Evaluate ==
  \/ \E r \in Regs, a \in Regs : (\E b \in Regs : cons(r, a, b)) \/ load(r, a) \/ store(r, a)
  \/ \E r \in Regs : enc_boxed(r) \/ drop(r)
  \/ \E r \in Regs, s \in ArrayShapes : heap_allocate_array(r, s[1], s[2])

Collect ==
  \/ gc_state_inc \/ gc_mark_freelist \/ NextRoot
  \/ MarkSkip \/ MarkCell \/ MarkReturn
  \/ gc_sweep_phase \/ SweepReturn

Next == Evaluate \/ Collect

Spec == Init /\ [][Next]_vars
FairSpec == Spec /\ WF_vars(Collect)

(***************************************************************************)
(* Properties                                                              *)
(***************************************************************************)
Symbol == {"nil", "sym_recovered", "sym_array", "sym_boxed", "out_of_memory",
           "type_error", "fatal_error"}
Value == (PtrType \X Cell) \cup ({"SYM"} \X Symbol) \cup ({"RAW"} \X Int)

TypeOK ==
  /\ heap \in [car : [Cell -> Value], cdr : [Cell -> Value], mark : [Cell -> BOOLEAN],
               freelist : Value, num_alloc : Int]
  /\ roots \in [Regs -> Value]
  /\ pc \in {"run", "gc", "mark_freelist", "mark_roots", "mark", "sweep"}
  /\ curr \in Value /\ rootq \in Seq(Value) /\ mstack \in Seq(Value)
  /\ overflow \in BOOLEAN
  /\ i \in 0 .. heap_size
  /\ fl \in Seq(Cell)

\* What pointers to an allocated cell must be typed as.
Kind(c) ==
  IF heap.cdr[c] = ARRAY_TYPE THEN "ARRAY"
  ELSE IF heap.cdr[c] = BOXED_TYPE THEN "BOXED" ELSE "CONS"

Valid(v) == is_ptr(v) => dec_ptr(v) \notin FreeCells /\ type_of(v) = Kind(dec_ptr(v))

RootsValid == \A r \in Regs : Valid(roots[r])

\* No reference held by the evaluator or by an allocated cell leads to a free
\* cell or to a cell of another kind, whatever collections came before: marking
\* reached everything the evaluator can still use, as long as no gc_mark_phase
\* ran out of stack.
NoDanglingReference ==
  pc = "run" /\ ~ overflow =>
    /\ RootsValid
    /\ \A c \in Cell \ FreeCells : Valid(heap.car[c]) /\ Valid(heap.cdr[c])

FreeListProper ==
  /\ \A m, n \in 1 .. Len(fl) : m # n => fl[m] # fl[n]
  /\ heap.freelist = IF fl = <<>> THEN NIL ELSE enc_cons_ptr(fl[Len(fl)])
  /\ \A k \in 1 .. Len(fl) :
       heap.cdr[fl[k]] = IF k = 1 THEN NIL ELSE enc_cons_ptr(fl[k - 1])
  /\ heap.num_alloc + Len(fl) = heap_size

\* The free list is a proper list of distinct cells, and num_alloc counts
\* exactly the others, through every step of allocation and sweep.  (Once a
\* gc_mark_phase has run out of stack, a store through a dangling reference
\* may tie the list into a knot.)
FreeListExact == ~ overflow => FreeListProper

\* The cells the roots lead to, through cons cells: the least closed set.
Closed(S) ==
  /\ \A r \in Regs : is_ptr(roots[r]) => dec_ptr(roots[r]) \in S
  /\ \A c \in S : Kind(c) = "CONS" =>
       /\ is_ptr(heap.car[c]) => dec_ptr(heap.car[c]) \in S
       /\ is_ptr(heap.cdr[c]) => dec_ptr(heap.cdr[c]) \in S
Reachable == {c \in Cell : \A S \in SUBSET Cell : Closed(S) => c \in S}

\* A collection keeps the reachable cells, frees all others (cycles of garbage
\* included), leaves no mark behind, and its statistics account for each cell.
CollectionIsExact ==
  pc = "sweep" /\ i = heap_size /\ ~ overflow =>
    /\ Cell \ FreeCells = Reachable
    /\ \A c \in Cell : ~ heap.mark[c]
    /\ gc_marked + gc_recovered = heap_size

ArrayHandles == {c \in Cell \ FreeCells : HandlesArray(heap, c)}

\* Storage and array handles are in one-to-one correspondence, in the middle of
\* a sweep too: sweeping an array frees its own block, once, and no block
\* outlives its handle.  (Once a gc_mark_phase has run out of stack, a store
\* through a dangling reference may turn a handle into a pair.)
StorageOwned ==
  ~ overflow =>
    /\ \A c, d \in ArrayHandles : heap.car[c] = heap.car[d] => c = d
    /\ {heap.car[c][2] : c \in ArrayHandles} = {b[1] : b \in blocks}

\* Every collection ends and hands control back, on circular data too.
CollectionEnds == pc = "gc" ~> pc = "run"

\* Nothing the roots hold is ever freed: what README.md promises of "mark and
\* sweep garbage collection", with no proviso about the depth of the data.
LiveDataKept == pc = "run" => RootsValid
=============================================================================
