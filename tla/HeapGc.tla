------------------------------- MODULE HeapGc -------------------------------
(***************************************************************************)
(* Collections as their callers see them: gc of Heap, all of it one step.  *)
(***************************************************************************)
EXTENDS HeapOps, SequencesExt

Cells(S) == {dec_ptr(v) : v \in {w \in S : is_ptr(w)}}

\* The cells that vs lead to in h.
Reachable(h, vs) ==
  LET grow[S \in SUBSET Cell] ==
        LET G == S \cup Cells({h.car[c] : c \in S} \cup {h.cdr[c] : c \in S})
        IN IF G = S THEN S ELSE grow[G]
  IN grow[Cells(vs)]

\* The free list is followed over its cdrs only.
FreeCells(h) == Reachable([h EXCEPT !.car = h.cdr], {h.freelist})

\* gc, in one step: Heap has it in detail.  The sweep takes the cells in the order of
\* the heap.  A live one loses its mark and nothing else; swept[n] is the heap when
\* those below n have had their turn.
gc(h, vs) ==
  LET live == Reachable(h, vs) \cup FreeCells(h)
      dead(n) == {c \in Cell \ live : c < n}
      swept[n \in 0 .. heap_size] ==
        IF dead(n) = {} THEN [h EXCEPT !.mark = [c \in Cell |-> FALSE]]
        ELSE sweep_cell(swept[Max(dead(n))], Max(dead(n)))
  IN swept[heap_size]

(***************************************************************************)
(* What a heap is like between two operations                              *)
(***************************************************************************)
\* fl are the cells of the free list, the last one at its head; F is the set of them.
FreeListIs(h, fl) ==
  /\ fl \in Seq(Cell) /\ h.num_alloc = heap_size - Len(fl)
  /\ \A i, j \in 1 .. Len(fl) : fl[i] = fl[j] => i = j
  /\ h.freelist = IF fl = <<>> THEN NIL ELSE enc_cons_ptr(fl[Len(fl)])
  /\ \A i \in 1 .. Len(fl) : h.cdr[fl[i]] = IF i = 1 THEN NIL ELSE enc_cons_ptr(fl[i - 1])

\* A VALUE that leads to no cell outside the heap, and one that leads to no free cell.
InHeap(v) == is_ptr(v) => dec_ptr(v) \in Cell
Kept(F, v) == is_ptr(v) => dec_ptr(v) \in Cell \ F

\* Outside a collection no cell has a mark, and no cell in use leads to a free one.
SoundHeap(h, F) ==
  /\ DOMAIN h = {"car", "cdr", "mark", "freelist", "num_alloc"}
  /\ DOMAIN h.car = Cell /\ DOMAIN h.cdr = Cell /\ h.mark = [c \in Cell |-> FALSE]
  /\ \A c \in Cell : InHeap(h.car[c]) /\ InHeap(h.cdr[c])
  /\ \A c \in Cell \ F : Kept(F, h.car[c]) /\ Kept(F, h.cdr[c])
=============================================================================
