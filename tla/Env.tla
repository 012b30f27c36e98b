-------------------------------- MODULE Env --------------------------------
(***************************************************************************)
(* The environments of src/src/env.c: association lists on the heap.       *)
(* An operation that allocates takes the heap and returns a record: h, the *)
(* heap it leaves behind, and v, its result.  Cells taken before an        *)
(* allocation fails stay allocated, and become garbage.                    *)
(***************************************************************************)
EXTENDS HeapGc

NOT_FOUND == sym("not_found")

\* The cells of a list, as the while loops over cdr meet them.  A list that comes
\* back to itself, on which those loops never end, is cut off: no other one has so
\* many cells.
spine(h, list) ==
  LET from[n \in 0 .. heap_size] ==
        [c \in Cell |->
          <<c>> \o (IF n > 0 /\ type_of(h.cdr[c]) = "CONS" THEN from[n - 1][dec_ptr(h.cdr[c])]
                    ELSE <<>>)]
  IN IF type_of(list) = "CONS" THEN from[heap_size][dec_ptr(list)] ELSE <<>>

elements(h, list) == LET cs == spine(h, list) IN [k \in 1 .. Len(cs) |-> h.car[cs[k]]]

length(h, list) == Len(spine(h, list))

\* Put v in front of the list s.v, unless an earlier allocation has failed.
push_front(s, v) == IF s.v = MERROR THEN s ELSE cons_result(s.h, v, s.v)

\* Put those of the values of vals that are at the positions of which in front of
\* tail, one after the other.
push_each(h, vals, which, tail) ==
  LET pushed[k \in 0 .. Len(vals)] ==
        IF k = 0 THEN [h |-> h, v |-> tail]
        ELSE IF k \in which THEN push_front(pushed[k - 1], vals[k])
        ELSE pushed[k - 1]
  IN pushed[Len(vals)]

\* Each binding goes to the front of the copy: the copy is in reverse order.
env_copy_shallow(h, env) ==
  LET es == elements(h, env) IN
  push_each(h, es, {k \in 1 .. Len(es) : car(h, es[k]) # NIL}, NIL)

\* The positions of the bindings of key, and the first of them.
bindings(h, env, key) ==
  LET es == elements(h, env) IN {k \in 1 .. Len(es) : car(h, es[k]) = key}
first_binding(h, env, key) == elements(h, env)[Min(bindings(h, env, key))]

env_lookup(h, key, env) ==
  IF key = NIL THEN NIL
  ELSE IF bindings(h, env, key) = {} THEN NOT_FOUND
  ELSE cdr(h, first_binding(h, env, key))

\* Fault: a binding there is no cell for is left out, and nobody is told.
env_set_LeavesOut(h, env, key, val) ==
  LET keyval == cons_result(h, key, val)
      new_env == cons_result(keyval.h, keyval.v, env)
  IN IF bindings(h, env, key) # {}
       THEN [h |-> set_cdr(h, first_binding(h, env, key), val), v |-> env]
     ELSE IF ~ is_ptr(new_env.v) THEN [h |-> new_env.h, v |-> env]
     ELSE new_env

\* When the second allocation fails the binding itself is returned.
env_set(h, env, key, val) ==
  LET keyval == cons_result(h, key, val)
      new_env == cons_result(keyval.h, keyval.v, env)
  IN IF bindings(h, env, key) # {}
       THEN [h |-> set_cdr(h, first_binding(h, env, key), val), v |-> env]
     ELSE IF ~ is_ptr(keyval.v) THEN keyval
     ELSE IF ~ is_ptr(new_env.v) THEN [h |-> new_env.h, v |-> keyval.v]
     ELSE new_env

\* The heap after env_modify_binding; its callers ignore the result.
env_modify_binding(h, env, key, val) ==
  IF bindings(h, env, key) = {} THEN h ELSE set_cdr(h, first_binding(h, env, key), val)

\* A binding in front of the environment s.v.  When there is no cell for the
\* binding there is none for the environment either.
bind_front(s, key, val) ==
  LET entry == cons_result(s.h, key, val) IN
  IF s.v = MERROR THEN s ELSE cons_result(entry.h, entry.v, s.v)

\* Bind the keys, the first one outermost, in front of env0.
bind_each(h, keys, vals, env0) ==
  LET bound[k \in 0 .. Len(keys)] ==
        IF k = 0 THEN [h |-> h, v |-> env0] ELSE bind_front(bound[k - 1], keys[k], vals[k])
  IN bound[Len(keys)]

env_build_params_args(h, params, args, env0) ==
  LET ps == elements(h, params)
      as == elements(h, args)
  IN IF Len(ps) # Len(as) THEN [h |-> h, v |-> FATAL_ERROR] ELSE bind_each(h, ps, as, env0)
=============================================================================
