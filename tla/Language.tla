------------------------------ MODULE Language ------------------------------
(***************************************************************************)
(* What the two evaluators of the library have in common: the heap, the    *)
(* global environment, and what counts as a special symbol or an extension. *)
(* tests/test_lisp_code_cps_nc.c runs every test program with either.      *)
(***************************************************************************)
EXTENDS Fundamental

CONSTANTS Images,  \* what there is once a program has been read: a record of the
                   \* heap, the global environment env, the list program of
                   \* expressions, the evaluator it is given to, the size of its
                   \* stack, the answers expected and the depth the stack may reach
          Garbage  \* words found in a field before it is set for the first time

\* What the reader leaves behind (Heap has the theorems): a proper free list, and
\* nothing that leads into it from the cells in use, from the environment or from the
\* program.  And malloc returns nothing that reads as a pointer out of the heap,
\* which gc_mark_phase would follow.
ASSUME ImageAssumption ==
  \A im \in Images :
    LET fl == Reverse(spine(im.heap, im.heap.freelist)) IN
    /\ FreeListIs(im.heap, fl) /\ SoundHeap(im.heap, Range(fl))
    /\ "program" \in DOMAIN im /\ Kept(Range(fl), im.program) /\ Kept(Range(fl), im.env)
ASSUME GarbageAssumption == \A garbage \in Garbage : InHeap(garbage)

VARIABLES heap, env_global,
          promise,     \* the program, and what is expected of it: an image
                       \* without heap and env
          env_lost,    \* auxiliary: env_set has returned a binding as the environment
          starved      \* auxiliary: an evaluation was ended for want of cells

SpecialForms == {sym(s) : s \in {"quote", "define", "progn", "spawn", "lambda", "if", "let"}}
Specials == SpecialForms \cup {sym(s) : s \in Fundamentals} \cup
  {sym(s) : s \in {"nil", "t", "and", "or", "eval", "yield", "wait", "closure", "not_found", "type_error",
                   "eval_error", "out_of_memory", "fatal_error"}}

nthcdr(v, n) == LET d[k \in 0 .. n] == IF k = 0 THEN v ELSE cdr(heap, d[k - 1]) IN d[n]
nth(v, n) == car(heap, nthcdr(v, n))

\* The REPLs register one extension.
extensions_lookup(v) == v = sym("print")

\* It is ext_print; none of these values is an array, of which it prints strings only.
ext_fun(args) == IF args = <<>> THEN NIL ELSE T

\* A program has been read, and is handed to an evaluator.
Loaded ==
  \E im \in Images :
    /\ promise = [field \in DOMAIN im \ {"heap", "env"} |-> im[field]]
    /\ heap = im.heap /\ env_global = im.env
    /\ env_lost = FALSE /\ starved = FALSE

\* env_set has extended or kept the global environment.
EnvKept(new_env) == env_global \in {new_env.v, cdr(new_env.h, new_env.v)}
=============================================================================
