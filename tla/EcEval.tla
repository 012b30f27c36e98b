------------------------------- MODULE EcEval -------------------------------
(***************************************************************************)
(* The register machine of src/src/ec_eval.c, the other evaluator: one     *)
(* action for every handler that ec_eval calls.  A handler that runs out   *)
(* of cells collects and tries once more before it gives up.               *)
(***************************************************************************)
EXTENDS Language

VARIABLES rm,      \* rm_state
          es,      \* which of its three switches ec_eval enters next
          done,    \* ec_eval has left its loop
          adrift   \* auxiliary: a handler has gone on with what it did not get

ec_vars == <<heap, env_global, promise, env_lost, starved, rm, es, done, adrift>>

CONT_DONE == enc_u(0)
CONT_ERROR == enc_u(1)
CONT_DEFINE == enc_u(2)
CONT_SETUP_NO_ARG_APPLY == enc_u(3)
CONT_EVAL_ARGS == enc_u(4)
CONT_ACCUMULATE_ARG == enc_u(5)
CONT_ACCUMULATE_LAST_ARG == enc_u(6)
CONT_BRANCH == enc_u(7)
CONT_BIND_VAR == enc_u(8)
CONT_END_LET == enc_u(9)
CONT_SEQUENCE == enc_u(10)
CONT_AND == enc_u(11)
CONT_OR == enc_u(12)

\* ec_eval_program; unev is what the program before has left in it.
EcInit ==
  /\ \E garbage \in IF promise.evaluator = "ec" THEN Garbage ELSE {NIL} :
       rm = [cont |-> CONT_DONE, env |-> NIL, unev |-> garbage, prg |-> cdr(heap, promise.program),
             exp |-> car(heap, promise.program), argl |-> NIL, val |-> NIL, fun |-> NIL, S |-> <<>>]
  /\ es = "EVAL_DISPATCH" /\ done = (promise.evaluator # "ec") /\ adrift = FALSE

(***************************************************************************)
(* Parts of handlers                                                       *)
(***************************************************************************)
\* What cannot be pushed is left out; no handler looks.
push(S, vals) == SubSeq(S \o vals, 1, IF Len(S) + Len(vals) < promise.stack_size
                                      THEN Len(S) + Len(vals) ELSE promise.stack_size)
\* The n-th value from the top of the stack, from 0, and the stack without the n topmost.
peek(n) == rm.S[Len(rm.S) - n]
pop(n) == SubSeq(rm.S, 1, Len(rm.S) - n)

\* Fault: the stack is forgotten.
rm_roots_NoStack(r) == {env_global, r.env, r.unev, r.prg, r.exp, r.argl, r.val, r.fun}

\* What gc marks.
rm_roots(r) == {env_global, r.env, r.unev, r.prg, r.exp, r.argl, r.val, r.fun} \cup Range(r.S)

\* An allocation, made again after a collection when it fails; r are the registers
\* at that point.
allocate(op(_), h, r) == IF op(h).v = MERROR THEN op(gc(op(h).h, rm_roots(r))) ELSE op(h)

Dispatch(r) == rm' = r /\ es' = "EVAL_DISPATCH"
Continue(r) == rm' = r /\ es' = "EVAL_CONTINUATION"
Error(r, v) == Continue([r EXCEPT !.cont = CONT_ERROR, !.val = v])

\* Short of memory even after a collection.
OutOfCells(r) == Error(r, MERROR) /\ starved' = TRUE

\* car(cdr(v)) and so on, in the heap as it is by then.
cadr(h, v) == car(h, cdr(h, v))
caddr(h, v) == car(h, cdr(h, cdr(h, v)))
cadddr(h, v) == car(h, cdr(h, cdr(h, cdr(h, v))))

\* A list that a loop which looks for nil alone comes to the end of.
ends_in_nil(h, list) ==
  list = NIL \/ (type_of(list) = "CONS" /\ h.cdr[Last(spine(h, list))] = NIL)

reverse(h, list) == push_each(h, elements(h, list), 1 .. length(h, list), NIL)
is_closure(v) == type_of(v) = "CONS" /\ car(heap, v) = sym("closure")

others_ec == <<promise, done, adrift>>

(***************************************************************************)
(* EVAL_DISPATCH: exp_kind_of                                              *)
(***************************************************************************)
Evaluates == ~ done /\ es = "EVAL_DISPATCH"
IsForm == type_of(rm.exp) = "CONS"
Kind(s) == Evaluates /\ IsForm /\ car(heap, rm.exp) = sym(s)
KindHeads == (SpecialForms \ {sym("spawn")}) \cup {sym("and"), sym("or")}
NoArgs == type_of(car(heap, rm.exp)) = "SYM" /\ cdr(heap, rm.exp) = NIL

eval_self_evaluating ==
  /\ Evaluates /\ ~ IsForm /\ (type_of(rm.exp) = "SYM" => rm.exp \in Specials)
  /\ Continue([rm EXCEPT !.val = rm.exp])
  /\ UNCHANGED <<heap, env_global, env_lost, starved, others_ec>>

eval_variable ==
  /\ Evaluates /\ type_of(rm.exp) = "SYM" /\ rm.exp \notin Specials
  /\ LET local == IF extensions_lookup(rm.exp) THEN rm.exp ELSE env_lookup(heap, rm.exp, rm.env)
         val == IF local = NOT_FOUND THEN env_lookup(heap, rm.exp, env_global) ELSE local
     IN IF val = NOT_FOUND THEN Error(rm, val) ELSE Continue([rm EXCEPT !.val = val])
  /\ UNCHANGED <<heap, env_global, env_lost, starved, others_ec>>

eval_quoted ==
  /\ Kind("quote")
  /\ Continue([rm EXCEPT !.val = nth(rm.exp, 1)])
  /\ UNCHANGED <<heap, env_global, env_lost, starved, others_ec>>

eval_define ==
  /\ Kind("define")
  /\ LET key == nth(rm.exp, 1) IN
     Dispatch([rm EXCEPT !.unev = key, !.exp = nth(rm.exp, 2), !.S = push(rm.S, <<key, rm.cont>>),
                         !.cont = CONT_DEFINE])
  /\ UNCHANGED <<heap, env_global, env_lost, starved, others_ec>>

\* (closure params body env); the environment is shared, not copied.
eval_lambda ==
  /\ Kind("lambda")
  /\ LET make(h) ==
           LET env_end == cons_result(h, rm.env, NIL)
               body    == cons_result(env_end.h, caddr(h, rm.exp), env_end.v)
               params  == cons_result(body.h, cadr(h, rm.exp), body.v)
           IN cons_result(params.h, sym("closure"), params.v)
         closure == allocate(make, heap, rm)
     IN /\ heap' = closure.h
        /\ IF closure.v = MERROR THEN OutOfCells(rm)
           ELSE Continue([rm EXCEPT !.val = closure.v]) /\ UNCHANGED starved
  /\ UNCHANGED <<env_global, env_lost, others_ec>>

\* (f), for a symbol f
eval_no_args ==
  /\ Evaluates /\ IsForm /\ car(heap, rm.exp) \notin KindHeads /\ NoArgs
  /\ Dispatch([rm EXCEPT !.exp = car(heap, rm.exp), !.S = push(rm.S, <<rm.cont>>),
                         !.cont = CONT_SETUP_NO_ARG_APPLY])
  /\ UNCHANGED <<heap, env_global, env_lost, starved, others_ec>>

eval_application ==
  /\ Evaluates /\ IsForm /\ car(heap, rm.exp) \notin KindHeads /\ ~ NoArgs
  /\ LET args == cdr(heap, rm.exp) IN
     Dispatch([rm EXCEPT !.unev = args, !.exp = car(heap, rm.exp),
                         !.S = push(rm.S, <<rm.cont, rm.env, args>>), !.cont = CONT_EVAL_ARGS])
  /\ UNCHANGED <<heap, env_global, env_lost, starved, others_ec>>

\* Fault: the environment of the expressions is not restored.
eval_sequence_KeepsEnv(r) ==
  LET S == SubSeq(r.S, 1, Len(r.S) - 1)
      q == [r EXCEPT !.exp = car(heap, r.unev)]
  IN IF cdr(heap, r.unev) = NIL
       THEN Dispatch([q EXCEPT !.cont = S[Len(S)], !.S = SubSeq(S, 1, Len(S) - 1)])
       ELSE Dispatch([q EXCEPT !.S = push(S, <<q.env, r.unev>>), !.cont = CONT_SEQUENCE])

\* The next expression of a progn, in the environment on the stack; the last one
\* is a tail call.
eval_sequence(r) ==
  LET S == SubSeq(r.S, 1, Len(r.S) - 1)
      q == [r EXCEPT !.exp = car(heap, r.unev), !.env = r.S[Len(r.S)]]
  IN IF cdr(heap, r.unev) = NIL
       THEN Dispatch([q EXCEPT !.cont = S[Len(S)], !.S = SubSeq(S, 1, Len(S) - 1)])
       ELSE Dispatch([q EXCEPT !.S = push(S, <<q.env, r.unev>>), !.cont = CONT_SEQUENCE])

eval_progn ==
  /\ Kind("progn")
  /\ eval_sequence([rm EXCEPT !.S = push(rm.S, <<rm.cont, rm.env>>), !.unev = cdr(heap, rm.exp)])
  /\ UNCHANGED <<heap, env_global, env_lost, starved, others_ec>>

eval_if ==
  /\ Kind("if")
  /\ LET branches == nthcdr(rm.exp, 2) IN
     Dispatch([rm EXCEPT !.unev = branches, !.exp = nth(rm.exp, 1),
                         !.S = push(rm.S, <<rm.cont, rm.env, branches>>), !.cont = CONT_BRANCH])
  /\ UNCHANGED <<heap, env_global, env_lost, starved, others_ec>>

\* One binding (key . 0) on top of s.v, for the first element of s.curr.  The
\* allocation of the environment cell is not looked at, and new_env is no root of the
\* collection: s.kept becomes false unless nothing has been bound yet.
prebind(s) ==
  LET add(h) ==
        LET binding == cons_result(h, car(h, car(h, s.curr)), enc_u(0))
            env == cons_result(binding.h, binding.v, s.v)
        IN [h |-> env.h, binding |-> binding.v, env |-> env.v]
      first == add(s.h)
      short == first.binding = MERROR \/ s.v = MERROR
      again == add(gc(first.h, rm_roots(s.r)))
      res == IF short THEN again ELSE first
  IN IF s.failed THEN s
     ELSE [s EXCEPT !.h = res.h, !.v = res.env, !.curr = cdr(res.h, s.curr),
                    !.failed = res.binding = MERROR \/ s.v = MERROR,
                    !.kept = /\ s.kept /\ res.env # MERROR
                             /\ short => s.v = s.r.env /\ s.curr = s.r.unev]

prebind_each(s, n) ==
  LET made[k \in 0 .. n] == IF k = 0 THEN s ELSE prebind(made[k - 1]) IN made[n]

\* The value of the next binding of a let, or its body.
eval_let_loop(h, r) ==
  IF r.unev = NIL
    THEN Dispatch([r EXCEPT !.exp = r.S[Len(r.S)], !.S = SubSeq(r.S, 1, Len(r.S) - 1),
                            !.cont = CONT_END_LET])
    ELSE Dispatch([r EXCEPT !.exp = car(h, cdr(h, car(h, r.unev))),
                            !.S = push(r.S, <<r.env, r.unev>>), !.cont = CONT_BIND_VAR])

\* On bindings that do not end in nil it never returns: whenever cells run out it
\* recovers those it has just taken.
eval_let ==
  /\ Kind("let") /\ ends_in_nil(heap, nth(rm.exp, 1))
  /\ LET r == [rm EXCEPT !.S = push(rm.S, <<rm.cont, rm.env, nth(rm.exp, 2)>>),
                         !.unev = nth(rm.exp, 1)]
         res == prebind_each([h |-> heap, v |-> rm.env, curr |-> r.unev, r |-> r,
                              failed |-> FALSE, kept |-> TRUE], length(heap, r.unev))
     IN /\ heap' = res.h
        /\ IF res.failed THEN OutOfCells(r) /\ UNCHANGED adrift
           ELSE /\ eval_let_loop(res.h, [r EXCEPT !.env = res.v])
                /\ adrift' = (adrift \/ ~ res.kept)
                /\ UNCHANGED starved
  /\ UNCHANGED <<env_global, env_lost, promise, done>>

\* Without operands and goes on to evaluate nil.
eval_junction(s, cont) ==
  /\ Kind(s)
  /\ LET rest == nthcdr(rm.exp, 2) IN
     Dispatch([rm EXCEPT !.unev = rest, !.S = push(rm.S, <<rm.cont, rm.env, rest>>),
                         !.exp = nth(rm.exp, 1), !.cont = cont])
  /\ UNCHANGED <<heap, env_global, env_lost, starved, others_ec>>
eval_and == eval_junction("and", CONT_AND)
eval_or == eval_junction("or", CONT_OR)

(***************************************************************************)
(* EVAL_CONTINUATION                                                       *)
(***************************************************************************)
Continues(cont) == ~ done /\ es = "EVAL_CONTINUATION" /\ rm.cont = cont

\* Fault: the expression stays in the program.
cont_done_Repeats ==
  /\ Continues(CONT_DONE)
  /\ IF type_of(rm.prg) # "CONS" THEN done' = TRUE /\ UNCHANGED <<rm, es>>
     ELSE /\ Dispatch([rm EXCEPT !.exp = car(heap, rm.prg), !.env = NIL,
                                 !.argl = NIL, !.val = NIL, !.fun = NIL, !.S = <<>>])
          /\ UNCHANGED done
  /\ UNCHANGED <<heap, env_global, env_lost, starved, promise, adrift>>

\* The next expression of the program, or the end.
cont_done ==
  /\ Continues(CONT_DONE)
  /\ IF type_of(rm.prg) # "CONS" THEN done' = TRUE /\ UNCHANGED <<rm, es>>
     ELSE /\ Dispatch([rm EXCEPT !.exp = car(heap, rm.prg), !.prg = cdr(heap, rm.prg), !.env = NIL,
                                 !.argl = NIL, !.val = NIL, !.fun = NIL, !.S = <<>>])
          /\ UNCHANGED done
  /\ UNCHANGED <<heap, env_global, env_lost, starved, promise, adrift>>

\* Whatever went wrong, the answer is eval_error.
cont_error ==
  /\ Continues(CONT_ERROR)
  /\ Dispatch([rm EXCEPT !.exp = NIL, !.prg = NIL, !.cont = NIL, !.env = NIL, !.argl = NIL,
                         !.val = EERROR, !.fun = NIL, !.S = <<>>])
  /\ done' = TRUE
  /\ UNCHANGED <<heap, env_global, env_lost, starved, promise, adrift>>

cont_define ==
  /\ Continues(CONT_DEFINE)
  /\ LET r == [rm EXCEPT !.cont = peek(0), !.unev = peek(1), !.S = pop(2)]
         set(h) == env_set(h, env_global, r.unev, r.val)
         new_env == allocate(set, heap, r)
     IN /\ heap' = new_env.h
        /\ IF new_env.v = MERROR THEN OutOfCells(r) /\ UNCHANGED <<env_global, env_lost>>
           ELSE /\ Continue([r EXCEPT !.val = r.unev])
                /\ env_global' = new_env.v
                /\ env_lost' = (env_lost \/ ~ EnvKept(new_env))
                /\ UNCHANGED starved
  /\ UNCHANGED others_ec

cont_setup_no_arg_apply ==
  /\ Continues(CONT_SETUP_NO_ARG_APPLY)
  /\ rm' = [rm EXCEPT !.fun = rm.val, !.argl = NIL] /\ es' = "EVAL_APPLY_DISPATCH"
  /\ UNCHANGED <<heap, env_global, env_lost, starved, others_ec>>

\* The next argument; that there is none is not noticed, and nil evaluated.
eval_arg_loop(h, r) ==
  LET S == push(r.S, <<r.argl>>)
      q == [r EXCEPT !.exp = car(h, r.unev)]
  IN IF cdr(h, r.unev) = NIL
       THEN Dispatch([q EXCEPT !.S = S, !.cont = CONT_ACCUMULATE_LAST_ARG])
       ELSE Dispatch([q EXCEPT !.S = push(S, <<r.env, r.unev>>), !.cont = CONT_ACCUMULATE_ARG])

cont_eval_args ==
  /\ Continues(CONT_EVAL_ARGS)
  /\ eval_arg_loop(heap, [rm EXCEPT !.unev = peek(0), !.env = peek(1), !.fun = rm.val,
                                    !.S = push(pop(2), <<rm.val>>), !.argl = NIL])
  /\ UNCHANGED <<heap, env_global, env_lost, starved, others_ec>>

cont_accumulate_arg ==
  /\ Continues(CONT_ACCUMULATE_ARG)
  /\ LET r == [rm EXCEPT !.unev = peek(0), !.env = peek(1), !.argl = peek(2), !.S = pop(3)]
         add(h) == cons_result(h, r.val, r.argl)
         argl == allocate(add, heap, r)
     IN /\ heap' = argl.h
        /\ IF argl.v = MERROR THEN OutOfCells(r)
           ELSE /\ eval_arg_loop(heap', [r EXCEPT !.argl = argl.v, !.unev = cdr(heap', r.unev)])
                /\ UNCHANGED starved
  /\ UNCHANGED <<env_global, env_lost, others_ec>>

\* When the list cannot be reversed the error is noted (with a tag that reads as
\* CONT_DONE) and the function applied nevertheless, to out_of_memory.
cont_accumulate_last_arg ==
  /\ Continues(CONT_ACCUMULATE_LAST_ARG)
  /\ LET r == [rm EXCEPT !.argl = peek(0), !.S = pop(1)]
         add(h) == cons_result(h, r.val, r.argl)
         argl == allocate(add, heap, r)
         turn(h) == reverse(h, argl.v)
         rev_args == allocate(turn, argl.h, [r EXCEPT !.argl = argl.v])
     IN IF argl.v = MERROR
          THEN heap' = argl.h /\ OutOfCells(r) /\ UNCHANGED adrift
          ELSE /\ heap' = rev_args.h
               /\ rm' = [r EXCEPT !.argl = rev_args.v, !.fun = peek(1), !.S = pop(2),
                                  !.cont = IF rev_args.v = MERROR THEN CONT_DONE ELSE r.cont,
                                  !.val = IF rev_args.v = MERROR THEN MERROR ELSE r.val]
               /\ es' = "EVAL_APPLY_DISPATCH"
               /\ adrift' = (adrift \/ rev_args.v = MERROR)
               /\ UNCHANGED starved
  /\ UNCHANGED <<env_global, env_lost, promise, done>>

cont_sequence ==
  /\ Continues(CONT_SEQUENCE)
  /\ eval_sequence([rm EXCEPT !.unev = cdr(heap, peek(0)), !.S = pop(1)])
  /\ UNCHANGED <<heap, env_global, env_lost, starved, others_ec>>

\* Fault: the environment is put back after the branch, as after a let.
cont_branch_PutsBack ==
  /\ Continues(CONT_BRANCH)
  /\ Dispatch([rm EXCEPT !.unev = peek(0), !.env = peek(1), !.cont = CONT_END_LET,
                         !.S = push(pop(3), <<peek(2), peek(1)>>),
                         !.exp = nth(peek(0), IF rm.val = NIL THEN 1 ELSE 0)])
  /\ UNCHANGED <<heap, env_global, env_lost, starved, others_ec>>

cont_branch ==
  /\ Continues(CONT_BRANCH)
  /\ Dispatch([rm EXCEPT !.unev = peek(0), !.env = peek(1), !.cont = peek(2), !.S = pop(3),
                         !.exp = nth(peek(0), IF rm.val = NIL THEN 1 ELSE 0)])
  /\ UNCHANGED <<heap, env_global, env_lost, starved, others_ec>>

cont_bind_var ==
  /\ Continues(CONT_BIND_VAR)
  /\ heap' = env_modify_binding(heap, peek(1), nth(nth(peek(0), 0), 0), rm.val)
  /\ eval_let_loop(heap', [rm EXCEPT !.unev = cdr(heap', peek(0)), !.env = peek(1), !.S = pop(2)])
  /\ UNCHANGED <<env_global, env_lost, starved, others_ec>>

\* Fault: the environment stays on the stack.
cont_end_let_LeavesEnv ==
  /\ Continues(CONT_END_LET)
  /\ Continue([rm EXCEPT !.env = peek(0), !.cont = peek(1), !.S = pop(1)])
  /\ UNCHANGED <<heap, env_global, env_lost, starved, others_ec>>

cont_end_let ==
  /\ Continues(CONT_END_LET)
  /\ Continue([rm EXCEPT !.env = peek(0), !.cont = peek(1), !.S = pop(2)])
  /\ UNCHANGED <<heap, env_global, env_lost, starved, others_ec>>

\* and, or: the value decides, or was the last, or the next operand is evaluated.
cont_junction(cont, decided) ==
  /\ Continues(cont)
  /\ LET rest == peek(0)
         r == [rm EXCEPT !.unev = rest, !.env = peek(1)]
     IN IF decided \/ rest = NIL THEN Continue([r EXCEPT !.cont = peek(2), !.S = pop(3)])
        ELSE Dispatch([r EXCEPT !.exp = car(heap, rest), !.unev = cdr(heap, rest),
                                !.S = push(pop(2), <<peek(1), cdr(heap, rest)>>)])
  /\ UNCHANGED <<heap, env_global, env_lost, starved, others_ec>>
cont_and == cont_junction(CONT_AND, rm.val = NIL)
cont_or == cont_junction(CONT_OR, rm.val # NIL)

(***************************************************************************)
(* EVAL_APPLY_DISPATCH                                                     *)
(***************************************************************************)
Applies == ~ done /\ es = "EVAL_APPLY_DISPATCH"

\* eval takes the environment there is.
eval_eval ==
  /\ Applies /\ rm.fun = sym("eval")
  /\ Dispatch([rm EXCEPT !.exp = car(heap, rm.argl), !.cont = peek(0), !.S = pop(1)])
  /\ UNCHANGED <<heap, env_global, env_lost, starved, others_ec>>

\* The arguments are pushed for fundamental_exec; out_of_memory instead of a list is
\* none.  Above them are words that were on the stack before, and are read when there
\* are too few arguments.  What it does with arguments that did not fit is not
\* followed.
eval_apply_fundamental ==
  /\ Applies /\ is_fundamental(rm.fun) /\ rm.fun # sym("eval")
  /\ LET args == elements(heap, rm.argl)
         r == [rm EXCEPT !.S = push(rm.S, args)]
     IN /\ \E above \in IF Len(args) < 2 THEN [1 .. 2 -> Garbage] ELSE {<<NIL, NIL>>} :
             LET exec(h) == fundamental_exec(h, args \o above, Len(args), rm.fun[2])
                 val == allocate(exec, heap, r)
             IN /\ heap' = val.h
                /\ IF val.v = MERROR THEN OutOfCells(r)
                   ELSE /\ Continue([rm EXCEPT !.val = val.v, !.cont = peek(0), !.S = pop(1)])
                        /\ UNCHANGED starved
        /\ adrift' = (adrift \/ Len(args) < ArgsRead(rm.fun[2])
                             \/ Len(rm.S) + Len(args) > promise.stack_size)
  /\ UNCHANGED <<env_global, env_lost, promise, done>>

\* The wrong number of arguments is not noticed: the body is evaluated with
\* fatal_error for an environment.
eval_apply_closure ==
  /\ Applies /\ is_closure(rm.fun)
  /\ LET bind(h) == env_build_params_args(h, cadr(h, rm.fun), rm.argl, cadddr(h, rm.fun))
         local_env == allocate(bind, heap, rm)
     IN /\ heap' = local_env.h
        /\ IF local_env.v = MERROR THEN OutOfCells(rm)
           ELSE /\ Dispatch([rm EXCEPT !.env = local_env.v, !.exp = caddr(heap', rm.fun),
                                       !.cont = peek(0), !.S = pop(1)])
                /\ UNCHANGED starved
  /\ UNCHANGED <<env_global, env_lost, others_ec>>

eval_apply_extension ==
  /\ Applies /\ extensions_lookup(rm.fun)
  /\ Continue([rm EXCEPT !.val = ext_fun(elements(heap, rm.argl)), !.cont = peek(0), !.S = pop(1)])
  /\ UNCHANGED <<heap, env_global, env_lost, starved, others_ec>>

\* eval_apply_dispatch, for anything else
eval_apply_unknown ==
  /\ Applies /\ rm.fun # sym("eval") /\ ~ is_fundamental(rm.fun) /\ ~ is_closure(rm.fun)
  /\ ~ extensions_lookup(rm.fun)
  /\ Error(rm, EERROR)
  /\ UNCHANGED <<heap, env_global, env_lost, starved, others_ec>>

EcNext ==
  \/ eval_self_evaluating \/ eval_variable \/ eval_quoted \/ eval_define \/ eval_lambda
  \/ eval_no_args \/ eval_application \/ eval_progn \/ eval_if \/ eval_let \/ eval_and \/ eval_or
  \/ cont_done \/ cont_error \/ cont_define \/ cont_setup_no_arg_apply \/ cont_eval_args
  \/ cont_accumulate_arg \/ cont_accumulate_last_arg \/ cont_sequence \/ cont_branch
  \/ cont_bind_var \/ cont_end_let \/ cont_and \/ cont_or
  \/ eval_eval \/ eval_apply_fundamental \/ eval_apply_closure \/ eval_apply_extension
  \/ eval_apply_unknown

(***************************************************************************)
(* Properties                                                              *)
(***************************************************************************)
\* What is still needed, by the switch that ec_eval enters next.
EcInUse ==
  {env_global, rm.env, rm.prg} \cup Range(rm.S) \cup
  CASE es = "EVAL_DISPATCH" -> {rm.exp}
    [] es = "EVAL_CONTINUATION" -> {rm.val}
    [] es = "EVAL_APPLY_DISPATCH" -> {rm.fun, rm.argl}

\* However often a handler collects and tries again, no collection recovers a cell
\* that is still needed: between taking a value off the stack and putting it into a
\* cell, every handler holds it in a register.  (Not eval_let, which keeps the
\* bindings it has made so far to itself: adrift.)
RegistersKept == ~ done /\ ~ adrift => Reachable(heap, EcInUse) \cap FreeCells(heap) = {}

\* The values on top of the stack that belong to a continuation, and where among
\* them, from the bottom, is the continuation to go to next.
EcFrame(cont) ==
  CASE cont = CONT_DEFINE -> [size |-> 2, next |-> 2]
    [] cont = CONT_SETUP_NO_ARG_APPLY -> [size |-> 1, next |-> 1]
    [] cont = CONT_END_LET -> [size |-> 2, next |-> 1]
    [] cont \in {CONT_EVAL_ARGS, CONT_ACCUMULATE_LAST_ARG, CONT_BRANCH, CONT_SEQUENCE, CONT_AND,
                 CONT_OR} -> [size |-> 3, next |-> 1]
    [] cont \in {CONT_ACCUMULATE_ARG, CONT_BIND_VAR} -> [size |-> 5, next |-> 1]
    [] OTHER -> [size |-> 0, next |-> 0]

\* The n lowest values of S are whole frames under the continuation cont, each with
\* the continuation of the one below it, down to CONT_DONE on an empty stack.
EcWhole(S, cont, n) ==
  LET whole[p \in (Range(S) \cup {cont}) \X (0 .. Len(S))] ==
        LET frame == EcFrame(p[1]) IN
        IF p[1] = CONT_DONE THEN p[2] = 0
        ELSE /\ frame.size \in 1 .. p[2]
             /\ whole[<<S[p[2] - frame.size + frame.next], p[2] - frame.size>>]
  IN whole[<<cont, n>>]

\* Whatever is evaluated, the stack is made of whole frames: what one handler pushes
\* the handler of its continuation pops.  (While it holds all that was pushed.)
EcStackOfFrames ==
  ~ done /\ ~ adrift /\ rm.cont # CONT_ERROR =>
    IF es = "EVAL_APPLY_DISPATCH" THEN EcWhole(rm.S, rm.S[Len(rm.S)], Len(rm.S) - 1)
    ELSE EcWhole(rm.S, rm.cont, Len(rm.S))

\* There is room for what the next handler pushes at most.  (For evaluating; what
\* eval_apply_fundamental pushes it pops again.)
EcRoom == Len(rm.S) + 5 <= promise.stack_size

\* The register machine answers what the program is worth, the answer the other
\* evaluator gives, wherever its collections fall; for want of cells it answers
\* eval_error.  (Not after env_set has lost the global environment, nor adrift.)
EcAnswers ==
  done /\ promise.evaluator = "ec" /\ ~ env_lost /\ ~ adrift =>
    IF starved THEN rm.val = EERROR ELSE rm.val \in promise.answers[1]

\* A loop written as a tail call runs in a constant part of the stack, whose end
\* no handler looks at.
EcTailCallsConstantStack == Len(rm.S) <= promise.depth

\* ec_eval returns.
EcTerminates == <>done
=============================================================================
