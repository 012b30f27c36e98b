------------------------------ MODULE HeapOps ------------------------------
(***************************************************************************)
(* The heap of cons cells of src/src/heap.c and src/include/heap.h as pure *)
(* operators on a heap record:                                             *)
(*   car, cdr   what each cell holds (the mark bit of cdr kept apart),     *)
(*   mark       the GC bit of each cell,                                   *)
(*   freelist   a pointer to the first free cell, or NIL,                  *)
(*   num_alloc  the count of allocated cells.                              *)
(* A VALUE is a pair <<type, payload>>: pointers carry a cell number,      *)
(* symbols a name, RAW words whatever a boxed or array cell stores in car. *)
(***************************************************************************)
EXTENDS Integers, Sequences

CONSTANT heap_size
ASSUME HeapSizeAssumption == heap_size \in Nat \ {0}

Cell == 0 .. heap_size - 1

\* The three PTR_TYPE_BOXED_* behave alike for the collector.
PtrType == {"CONS", "BOXED", "ARRAY"}

sym(s) == <<"SYM", s>>
NIL == sym("nil")
RECOVERED == sym("sym_recovered")
ARRAY_TYPE == sym("sym_array")
BOXED_TYPE == sym("sym_boxed")
MERROR == sym("out_of_memory")
TERROR == sym("type_error")
FATAL_ERROR == sym("fatal_error")

type_of(v) == v[1]
dec_ptr(v) == v[2]
is_ptr(v) == type_of(v) \in PtrType
enc_cons_ptr(c) == <<"CONS", c>>
set_ptr_type(v, t) == <<t, dec_ptr(v)>>

car(h, v) ==
  IF v = NIL THEN NIL ELSE IF is_ptr(v) THEN h.car[dec_ptr(v)] ELSE TERROR

cdr(h, v) ==
  IF v = NIL THEN NIL
  ELSE IF type_of(v) = "CONS" THEN h.cdr[dec_ptr(v)] ELSE TERROR

\* Fault: boxed and array cells are written like cons cells.
set_cdr_AnyPointer(h, v, d) ==
  IF is_ptr(v) THEN [h EXCEPT !.cdr = [@ EXCEPT ![dec_ptr(v)] = d]] ELSE h

set_cdr(h, v, d) ==
  IF type_of(v) = "CONS" THEN [h EXCEPT !.cdr = [@ EXCEPT ![dec_ptr(v)] = d]] ELSE h

\* Fault: the last cell links past the end of the heap.
generate_freelist_NoEnd(garbage) ==
  [car |-> [c \in Cell |-> RECOVERED],
   cdr |-> [c \in Cell |-> enc_cons_ptr(c + 1)],
   mark |-> [c \in Cell |-> FALSE],
   freelist |-> enc_cons_ptr(0),
   num_alloc |-> 0]

\* generate_freelist: cell n links to cell n+1.  The car of the last cell is
\* never written; it keeps whatever malloc returned, here garbage.
generate_freelist(garbage) ==
  [car |-> [c \in Cell |-> IF c = heap_size - 1 THEN garbage ELSE RECOVERED],
   cdr |-> [c \in Cell |-> IF c = heap_size - 1 THEN NIL ELSE enc_cons_ptr(c + 1)],
   mark |-> [c \in Cell |-> FALSE],
   freelist |-> enc_cons_ptr(0),
   num_alloc |-> 0]

\* What heap_allocate_cell returns when the free list yields no cell.
NoCell(h) == IF h.freelist = NIL THEN MERROR ELSE FATAL_ERROR

CanAllocate(h) == type_of(h.freelist) = "CONS"

\* heap_allocate_cell and the two stores of cons: the head of the free list
\* becomes (a . d), unmarked.
cons_heap(h, a, d) ==
  LET c == dec_ptr(h.freelist) IN
  [car |-> [h.car EXCEPT ![c] = a],
   cdr |-> [h.cdr EXCEPT ![c] = d],
   mark |-> [h.mark EXCEPT ![c] = FALSE],
   freelist |-> h.cdr[c],
   num_alloc |-> h.num_alloc + 1]

\* The value cons returns.
cons_value(h) == IF CanAllocate(h) THEN h.freelist ELSE NoCell(h)

\* cons as a function: the heap it leaves behind and the value it returns.
cons_result(h, a, d) ==
  [h |-> IF CanAllocate(h) THEN cons_heap(h, a, d) ELSE h, v |-> cons_value(h)]

set_gc_mark(h, c) == [h EXCEPT !.mark = [@ EXCEPT ![c] = TRUE]]

\* Fault: a recovered cell is still counted as allocated.
sweep_cell_NoCount(h, c) ==
  IF h.mark[c]
    THEN [h EXCEPT !.mark = [@ EXCEPT ![c] = FALSE]]
    ELSE [h EXCEPT !.car = [@ EXCEPT ![c] = RECOVERED], !.cdr = [@ EXCEPT ![c] = h.freelist],
                   !.freelist = enc_cons_ptr(c)]

\* One iteration of gc_sweep_phase on cell c.
sweep_cell(h, c) ==
  IF h.mark[c]
    THEN [h EXCEPT !.mark = [@ EXCEPT ![c] = FALSE]]
    ELSE [car |-> [h.car EXCEPT ![c] = RECOVERED],
          cdr |-> [h.cdr EXCEPT ![c] = h.freelist],
          mark |-> h.mark,
          freelist |-> enc_cons_ptr(c),
          num_alloc |-> h.num_alloc - 1]

\* A cell that gc_sweep_phase takes for the handle of an array.
HandlesArray(h, c) == h.cdr[c] = ARRAY_TYPE

\* Words that heap_allocate_array asks memory_allocate for: a two-word header,
\* then one word per element, or one per four characters, rounded up.
array_words(type, size) ==
  2 + (IF type = "CHAR"
         THEN IF size % 4 = 0 THEN size \div 4 ELSE (size \div 4) + 1
         ELSE size)
=============================================================================
