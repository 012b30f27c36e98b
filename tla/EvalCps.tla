------------------------------ MODULE EvalCps ------------------------------
(***************************************************************************)
(* The continuation machine of src/src/eval_cps.c: evaluation_step and     *)
(* apply_continuation evaluate a program held in heap cells, a stack K of  *)
(* values and continuation tags standing for the rest of the computation.  *)
(* An allocation that fails abandons the step, which is done again after a *)
(* collection.  Contexts take turns on one heap as in eval_cps_run_eval: a *)
(* program handed in by eval_cps_program, and those it spawns.  The queue  *)
(* and the done list are sequences here, and time is left open: Scheduler  *)
(* has the links, the clock and the clients.                               *)
(***************************************************************************)
EXTENDS Language

CONSTANT EVAL_CPS_DEFAULT_STACK_SIZE

\* A stack holds fewer values than 28 bits can count.
StackSizes == 1 .. 2^28 - 1
ASSUME StackSizeAssumption ==
  /\ EVAL_CPS_DEFAULT_STACK_SIZE \in StackSizes
  /\ \A im \in Images : "stack_size" \in DOMAIN im /\ im.stack_size \in StackSizes

VARIABLES ctx,         \* the eval_context_t that runs, or ran last
          running,     \* ctx_running # NULL
          ctx_queue, ctx_done, next_ctx_id,
          perform_gc, last_iteration_gc,
          unborn,      \* auxiliary: spawn has reported a CID and made no context
          misread      \* auxiliary: an argument has been taken for an operator

vars == <<heap, env_global, ctx, running, ctx_queue, ctx_done, next_ctx_id, perform_gc,
          last_iteration_gc, promise, env_lost, starved, unborn, misread>>
waiting == <<ctx_queue, ctx_done, next_ctx_id>>
others == <<promise, env_lost, starved, unborn, misread>>

DONE == enc_u(1)
SET_GLOBAL_ENV == enc_u(2)
BIND_TO_KEY_REST == enc_u(3)
IF_ == enc_u(4)
PROGN_REST == enc_u(5)
APPLICATION == enc_u(6)
APPLICATION_ARGS == enc_u(7)
AND == enc_u(8)
OR == enc_u(9)
WAIT == enc_u(10)
SPAWN_ALL == enc_u(11)

\* The symbols whose numbers are also those of continuations.
DEF_REPR == [nil |-> 0, quote |-> 1, t |-> 2, if |-> 3, lambda |-> 4, closure |-> 5, let |-> 6,
             read_error |-> 7, type_error |-> 8, eval_error |-> 9, out_of_memory |-> 10,
             division_by_zero |-> 11]

\* The bits above the type, of a VALUE of any type.  Other symbols and all pointers
\* have greater ones than any continuation: one number stands for them.
dec_u(v) ==
  CASE is_number(v) -> v[2] % 2^28
    [] type_of(v) = "SYM" /\ v[2] \in DOMAIN DEF_REPR -> DEF_REPR[v[2]]
    [] OTHER -> 2^28 - 1

\* The context create_ctx makes; r is whatever malloc returned.
new_ctx(h, id, program, env, stack_size, garbage) ==
  [id |-> id, program |-> cdr(h, program), curr_exp |-> car(h, program), curr_env |-> env,
   r |-> garbage, app_cont |-> FALSE, done |-> FALSE, asleep |-> FALSE, K |-> <<DONE>>,
   stack_size |-> stack_size]

\* eval_cps_program has been called; the evaluator's thread is about to start.
Init ==
  /\ Loaded
  /\ \E garbage \in IF promise.evaluator = "cps" THEN Garbage ELSE {NIL} :
       ctx = new_ctx(heap, 1, promise.program, NIL, promise.stack_size, garbage)
  /\ ctx_queue = IF promise.evaluator = "cps" THEN <<ctx>> ELSE <<>>
  /\ ctx_done = <<>> /\ running = FALSE /\ next_ctx_id = 2
  /\ perform_gc = FALSE /\ last_iteration_gc = FALSE /\ unborn = FALSE
  /\ misread = FALSE

(***************************************************************************)
(* Ways for a step to end                                                  *)
(***************************************************************************)
\* A step that succeeds.  The next evaluation_step would clear
\* last_iteration_gc before it looks at it.
Succeed == perform_gc' = FALSE /\ last_iteration_gc' = FALSE

\* A step that runs out of cells asks for a collection.
Retry == perform_gc' = TRUE /\ UNCHANGED last_iteration_gc

\* The value v goes to the continuation on top of k.
Return(v, k) ==
  /\ ctx' = [ctx EXCEPT !.r = v, !.K = k, !.app_cont = TRUE]
  /\ UNCHANGED <<running, waiting>>

\* Go on with an expression.
Go(exp, env, k) ==
  /\ ctx' = [ctx EXCEPT !.curr_exp = exp, !.curr_env = env, !.K = k, !.app_cont = FALSE]
  /\ UNCHANGED <<running, waiting>>

\* Nothing but the flags and the heap: the step will be done again.
Stay == UNCHANGED <<ctx, running, waiting>>

finish_ctx(c) ==
  /\ ctx' = c /\ running' = FALSE
  /\ ctx_done' = <<c>> \o ctx_done
  /\ UNCHANGED <<ctx_queue, next_ctx_id>>

error_ctx(v, k) == finish_ctx([ctx EXCEPT !.r = v, !.K = k, !.app_cont = FALSE])

yield_ctx(c, sleep_us) ==
  LET y == [c EXCEPT !.r = T, !.app_cont = TRUE, !.asleep = (sleep_us # 0)] IN
  /\ ctx' = y /\ running' = FALSE
  /\ ctx_queue' = Append(ctx_queue, y)
  /\ UNCHANGED <<ctx_done, next_ctx_id>>

\* A push of several values that does not fit leaves the first ones on K.
Fits(k, vals) == Len(k) + Len(vals) <= ctx.stack_size
Pushed(k, vals) == IF Fits(k, vals) THEN k \o vals ELSE SubSeq(k \o vals, 1, ctx.stack_size)

\* FOF: push, and go on if that succeeds; otherwise finish the context.
FOF(k, vals, onSuccess) ==
  IF Fits(k, vals) THEN onSuccess
  ELSE finish_ctx([ctx EXCEPT !.r = FATAL_ERROR, !.done = TRUE, !.K = Pushed(k, vals)])

\* FATAL_ON_FAIL marks the context as done but leaves it ctx_running.
FATAL_ON_FAIL(k, vals, onSuccess) ==
  IF Fits(k, vals) THEN onSuccess
  ELSE /\ ctx' = [ctx EXCEPT !.r = FATAL_ERROR, !.done = TRUE, !.K = Pushed(k, vals),
                             !.app_cont = FALSE]
       /\ UNCHANGED <<running, waiting>>

\* Push, and go on with an expression.
PushGo(vals, exp, env) == FOF(ctx.K, vals, Go(exp, env, ctx.K \o vals))

(***************************************************************************)
(* dequeue_ctx, and the prologue of evaluation_step                        *)
(***************************************************************************)
\* The first context that is due runs next; one that sleeps may be due or not.
Dequeue ==
  /\ ~ running
  /\ \E k \in DOMAIN ctx_queue :
       /\ \A j \in 1 .. k - 1 : ctx_queue[j].asleep
       /\ ctx' = ctx_queue[k]
       /\ ctx_queue' = RemoveAt(ctx_queue, k)
  /\ running' = TRUE
  /\ UNCHANGED <<heap, env_global, ctx_done, next_ctx_id, perform_gc, last_iteration_gc, others>>

\* What gc marks of a context that runs or is queued.
ctx_roots(c) == {c.curr_env, c.curr_exp, c.program, c.r} \cup Range(c.K)

\* Fault: the results of the finished contexts are not roots.
gc_roots_NotDone ==
  {env_global} \cup ctx_roots(ctx) \cup UNION {ctx_roots(c) : c \in Range(ctx_queue)}

gc_roots ==
  {env_global} \cup ctx_roots(ctx) \cup {c.r : c \in Range(ctx_done)}
    \cup UNION {ctx_roots(c) : c \in Range(ctx_queue)}

Collect ==
  /\ running /\ perform_gc /\ ~ last_iteration_gc
  /\ heap' = gc(heap, gc_roots)
  /\ perform_gc' = FALSE /\ last_iteration_gc' = TRUE
  /\ Stay /\ UNCHANGED <<env_global, others>>

\* Fault: a context that is short of memory tries for ever.
OutOfMemory_TriesOn ==
  /\ running /\ perform_gc /\ last_iteration_gc
  /\ last_iteration_gc' = FALSE
  /\ Stay /\ UNCHANGED <<heap, env_global, perform_gc, others>>

\* The flags stay as they are, for the next context too.
OutOfMemory ==
  /\ running /\ perform_gc /\ last_iteration_gc
  /\ error_ctx(MERROR, ctx.K) /\ starved' = TRUE
  /\ UNCHANGED <<heap, env_global, perform_gc, last_iteration_gc, promise, env_lost, unborn,
                 misread>>

(***************************************************************************)
(* evaluation_step                                                         *)
(***************************************************************************)
Eval == running /\ ~ perform_gc /\ ~ ctx.app_cont
Form(s) == Eval /\ type_of(ctx.curr_exp) = "CONS" /\ nth(ctx.curr_exp, 0) = sym(s)

EvalSymbol ==
  /\ Eval /\ type_of(ctx.curr_exp) = "SYM"
  /\ LET local == env_lookup(heap, ctx.curr_exp, ctx.curr_env) IN
     Return(IF ctx.curr_exp \in Specials \/ extensions_lookup(ctx.curr_exp) THEN ctx.curr_exp
            ELSE IF local # NOT_FOUND THEN local
            ELSE env_lookup(heap, ctx.curr_exp, env_global), ctx.K)
  /\ Succeed /\ UNCHANGED <<heap, env_global, others>>

EvalSelf ==
  /\ Eval /\ type_of(ctx.curr_exp) \in {"I", "U"}
  /\ Return(ctx.curr_exp, ctx.K)
  /\ Succeed /\ UNCHANGED <<heap, env_global, others>>

EvalQuote ==
  /\ Form("quote")
  /\ Return(nth(ctx.curr_exp, 1), ctx.K)
  /\ Succeed /\ UNCHANGED <<heap, env_global, others>>

EvalDefine ==
  /\ Form("define")
  /\ LET key == nth(ctx.curr_exp, 1) IN
     IF type_of(key) # "SYM" \/ key = NIL
       THEN error_ctx(EERROR, ctx.K)
       ELSE PushGo(<<key, SET_GLOBAL_ENV>>, nth(ctx.curr_exp, 2), ctx.curr_env)
  /\ Succeed /\ UNCHANGED <<heap, env_global, others>>

\* symrepr_is_error is given a VALUE where it expects a symbol's number: it
\* holds of the integers 0 and 0u28, whose VALUEs are 8 and 12.
symrepr_is_error(v) == v \in {enc_i(0), enc_u(0)}

EvalProgn ==
  /\ Form("progn")
  /\ LET exps == nthcdr(ctx.curr_exp, 1) IN
     IF exps = NIL THEN Return(NIL, ctx.K)
     ELSE IF symrepr_is_error(exps) THEN error_ctx(exps, ctx.K)
     ELSE PushGo(<<ctx.curr_env, cdr(heap, exps), PROGN_REST>>, car(heap, exps), ctx.curr_env)
  /\ Succeed /\ UNCHANGED <<heap, env_global, others>>

\* The programs of a spawn are started by its continuation, one a step.
EvalSpawn ==
  /\ Form("spawn")
  /\ LET prgs == nthcdr(ctx.curr_exp, 1)
         all == <<ctx.curr_env, prgs, SPAWN_ALL>>
     IN IF prgs = NIL THEN Return(NIL, ctx.K)
        ELSE FOF(ctx.K, all, Return(NIL, ctx.K \o all))
  /\ Succeed /\ UNCHANGED <<heap, env_global, others>>

\* (closure params body env)
EvalLambda ==
  /\ Form("lambda")
  /\ LET env_cpy == env_copy_shallow(heap, ctx.curr_env)
         env_end == cons_result(env_cpy.h, env_cpy.v, NIL)
         body    == cons_result(env_end.h, nth(ctx.curr_exp, 2), env_end.v)
         params  == cons_result(body.h, nth(ctx.curr_exp, 1), body.v)
         closure == cons_result(params.h, sym("closure"), params.v)
     IN /\ heap' = closure.h
        /\ IF is_ptr(closure.v) THEN Return(closure.v, ctx.K) /\ Succeed
           ELSE Retry /\ Stay
  /\ UNCHANGED <<env_global, others>>

EvalIf ==
  /\ Form("if")
  /\ PushGo(<<nth(ctx.curr_exp, 3), nth(ctx.curr_exp, 2), IF_>>, nth(ctx.curr_exp, 1),
            ctx.curr_env)
  /\ Succeed /\ UNCHANGED <<heap, env_global, others>>

\* One frame entry (key . nil) for every binding, before any is evaluated.
preallocate(h, binds, env) ==
  LET es == elements(h, binds) IN
  bind_each(h, [k \in 1 .. Len(es) |-> car(h, es[k])], [k \in 1 .. Len(es) |-> NIL], env)

EvalLet ==
  /\ Form("let")
  /\ LET binds == nth(ctx.curr_exp, 1)
         new_env == preallocate(heap, binds, ctx.curr_env)
         bind0 == nth(binds, 0)
     IN IF type_of(binds) # "CONS"
          THEN Go(nth(ctx.curr_exp, 2), ctx.curr_env, ctx.K) /\ Succeed /\ UNCHANGED heap
          ELSE /\ heap' = new_env.h
               /\ IF new_env.v = MERROR
                    THEN Retry /\ Stay
                    ELSE /\ PushGo(<<nth(ctx.curr_exp, 2), cdr(heap, binds), new_env.v,
                                     car(heap, bind0), BIND_TO_KEY_REST>>,
                                   nth(bind0, 1), new_env.v)
                         /\ Succeed
  /\ UNCHANGED <<env_global, others>>

\* Anything else is an application: its head is evaluated first.
EvalApplication ==
  /\ Eval /\ type_of(ctx.curr_exp) = "CONS"
  /\ nth(ctx.curr_exp, 0) \notin SpecialForms
  /\ PushGo(<<ctx.curr_env, enc_u(0), cdr(heap, ctx.curr_exp), APPLICATION_ARGS>>,
            nth(ctx.curr_exp, 0), ctx.curr_env)
  /\ Succeed /\ UNCHANGED <<heap, env_global, others>>

(***************************************************************************)
(* apply_continuation                                                      *)
(***************************************************************************)
Apply == running /\ ~ perform_gc /\ ctx.app_cont
\* The n-th value from the top of K, from 0, and K without the n topmost.
Top(n) == ctx.K[Len(ctx.K) - n]
Drop(n) == SubSeq(ctx.K, 1, Len(ctx.K) - n)
\* The switch is on the bits of the topmost word above its type: a value that has
\* come to lie there is taken for the continuation of that number.
Cont(tag) == Apply /\ dec_u(Top(0)) = dec_u(tag)

\* advance_ctx: the next expression of the program, or the end.
ContDone ==
  /\ Cont(DONE)
  /\ IF type_of(ctx.program) = "CONS"
       THEN /\ ctx' = [ctx EXCEPT !.K = Drop(1) \o <<DONE>>,
                                  !.curr_exp = car(heap, ctx.program),
                                  !.program = cdr(heap, ctx.program),
                                  !.r = NIL, !.app_cont = FALSE]
            /\ UNCHANGED <<running, waiting>>
       ELSE finish_ctx([ctx EXCEPT !.K = Drop(1), !.done = TRUE, !.app_cont = FALSE])
  /\ Succeed /\ UNCHANGED <<heap, env_global, others>>

\* cont_set_global_env.  A context that a failed push has left running as done goes
\* on to evaluate its expression.
ContSetGlobalEnv ==
  /\ Cont(SET_GLOBAL_ENV)
  /\ LET new_env == env_set(heap, env_global, Top(1), ctx.r)
         then(v, k) == [ctx EXCEPT !.r = v, !.K = k, !.app_cont = ~ ctx.done]
     IN /\ heap' = new_env.h
        /\ CASE new_env.v = MERROR ->
                  /\ ctx' = then(ctx.r, Drop(2) \o <<Top(1), SET_GLOBAL_ENV>>)
                  /\ Retry /\ UNCHANGED <<running, waiting, env_global, env_lost>>
             [] new_env.v = FATAL_ERROR ->
                  /\ finish_ctx(then(new_env.v, Drop(2)))
                  /\ Succeed /\ UNCHANGED <<env_global, env_lost>>
             [] OTHER ->
                  /\ ctx' = then(Top(1), Drop(2))
                  /\ Succeed /\ UNCHANGED <<running, waiting>>
                  /\ env_global' = new_env.v
                  /\ env_lost' = (env_lost \/ ~ EnvKept(new_env))
  /\ UNCHANGED <<promise, starved, unborn, misread>>

\* Fault: the last expression of a progn leaves a continuation behind.
ContPrognRest_NoTail ==
  /\ Cont(PROGN_REST)
  /\ IF Top(1) = NIL THEN Return(ctx.r, Drop(3))
     ELSE FATAL_ON_FAIL(Drop(3), <<Top(2), cdr(heap, Top(1)), PROGN_REST>>,
            Go(car(heap, Top(1)), Top(2), Drop(3) \o <<Top(2), cdr(heap, Top(1)), PROGN_REST>>))
  /\ Succeed /\ UNCHANGED <<heap, env_global, others>>

\* The last expression is a tail call, in whatever environment there is.
ContPrognRest ==
  /\ Cont(PROGN_REST)
  /\ LET rest == Top(1)
         again == <<Top(2), cdr(heap, rest), PROGN_REST>>
     IN IF rest = NIL THEN Return(ctx.r, Drop(3))
        ELSE IF symrepr_is_error(rest) THEN error_ctx(rest, Drop(3))
        ELSE IF cdr(heap, rest) = NIL THEN Go(car(heap, rest), ctx.curr_env, Drop(3))
        ELSE FATAL_ON_FAIL(Drop(3), again, Go(car(heap, rest), Top(2), Drop(3) \o again))
  /\ Succeed /\ UNCHANGED <<heap, env_global, others>>

\* APPLICATION finds the function and its arguments below the count.
Count == dec_u(Top(1))
Fun == Top(Count + 2)
Args == SubSeq(ctx.K, Len(ctx.K) - Count - 1, Len(ctx.K) - 2)
\* fun_args + 1: after the arguments come the two words that have been popped.
ArgWords == SubSeq(ctx.K, Len(ctx.K) - Count - 1, Len(ctx.K))
\* fun_args[1]: the count itself when there is no argument.
Arg1 == Top(Count + 1)

\* The application is put back on K and done again after a collection.
TryAgain == ctx' = [ctx EXCEPT !.r = Fun] /\ Retry /\ UNCHANGED <<running, waiting>>

ApplyClosure ==
  /\ Cont(APPLICATION) /\ type_of(Fun) = "CONS"
  /\ LET args == list_onto(heap, Args, NIL)
         params == nth(Fun, 1)
         local_env == env_build_params_args(args.h, params, args.v, nth(Fun, 3))
     IN \/ /\ args.v = MERROR
           /\ heap' = args.h /\ TryAgain
        \/ /\ args.v # MERROR /\ length(heap, params) # Count
           /\ heap' = args.h /\ error_ctx(EERROR, Drop(2)) /\ Succeed
        \/ /\ args.v # MERROR /\ length(heap, params) = Count
           /\ heap' = local_env.h
           /\ IF local_env.v = MERROR THEN TryAgain
              ELSE Go(nth(Fun, 2), local_env.v, Drop(Count + 3)) /\ Succeed
  /\ UNCHANGED <<env_global, others>>

\* eval takes the environment there is.
ApplyEval ==
  /\ Cont(APPLICATION) /\ Fun = sym("eval")
  /\ Go(Arg1, ctx.curr_env, Drop(Count + 3))
  /\ Succeed /\ UNCHANGED <<heap, env_global, others>>

\* Fault: the function stays on the stack.
ApplyFundamental_LeavesFunction ==
  /\ Cont(APPLICATION) /\ Fun \in {sym(s) : s \in Fundamentals}
  /\ LET res == fundamental_exec(heap, ArgWords, Count, Fun[2]) IN
     /\ heap' = res.h
     /\ CASE res.v = EERROR -> error_ctx(res.v, Drop(2)) /\ Succeed
          [] res.v = MERROR -> TryAgain
          [] OTHER -> Return(res.v, Drop(Count + 2)) /\ Succeed
  /\ UNCHANGED <<env_global, others>>

ApplyFundamental ==
  /\ Cont(APPLICATION) /\ Fun \in {sym(s) : s \in Fundamentals}
  /\ LET res == fundamental_exec(heap, ArgWords, Count, Fun[2]) IN
     /\ heap' = res.h
     /\ CASE res.v = EERROR -> error_ctx(res.v, Drop(2)) /\ Succeed
          [] res.v = MERROR -> TryAgain
          [] OTHER -> Return(res.v, Drop(Count + 3)) /\ Succeed
  /\ UNCHANGED <<env_global, others>>

\* (yield us)
ApplyYield ==
  /\ Cont(APPLICATION) /\ Fun = sym("yield")
  /\ IF type_of(Arg1) = "I" THEN yield_ctx([ctx EXCEPT !.K = Drop(Count + 3)], dec_i(Arg1))
     ELSE error_ctx(EERROR, Drop(2))
  /\ Succeed /\ UNCHANGED <<heap, env_global, others>>

\* The context sleeps with WAIT on K, and will look at the done list when it runs.
Sleep(cid, k) ==
  LET wait == <<enc_u(cid), WAIT>> IN
  FOF(k, wait, yield_ctx([ctx EXCEPT !.K = k \o wait], 50000))

\* (wait cid), with a CID of 16 bits
ApplyWait ==
  /\ Cont(APPLICATION) /\ Fun = sym("wait")
  /\ IF type_of(Arg1) = "I" THEN Sleep(dec_i(Arg1) % 2^16, Drop(Count + 3))
     ELSE error_ctx(EERROR, Drop(2))
  /\ Succeed /\ UNCHANGED <<heap, env_global, others>>

\* Anything else is looked up among the extensions.
ApplyExtension ==
  /\ Cont(APPLICATION) /\ type_of(Fun) # "CONS"
  /\ Fun \notin {sym(s) : s \in Fundamentals \cup {"eval", "yield", "wait"}}
  /\ IF ~ extensions_lookup(Fun) THEN error_ctx(EERROR, Drop(2)) /\ Succeed
     ELSE IF ext_fun(Args) = MERROR THEN TryAgain
     ELSE Return(ext_fun(Args), Drop(Count + 3)) /\ Succeed
  /\ UNCHANGED <<heap, env_global, others>>

\* create_ctx: no context for something that is no list of expressions, or when
\* malloc fails, before or after the CID has been used up.
create_ctx(program, env) ==
  \/ /\ type_of(program) = "CONS"
     /\ \E garbage \in Garbage :
          ctx_queue' = Append(ctx_queue, new_ctx(heap, next_ctx_id % 2^16, program, env,
                                                 EVAL_CPS_DEFAULT_STACK_SIZE, garbage))
     /\ next_ctx_id' = next_ctx_id + 1
     /\ UNCHANGED unborn
  \/ /\ next_ctx_id' \in (IF type_of(program) = "CONS" THEN next_ctx_id .. next_ctx_id + 1
                           ELSE {next_ctx_id})
     /\ unborn' = TRUE
     /\ UNCHANGED ctx_queue

\* SPAWN_ALL: the CID goes on the list before the context is created; what
\* create_ctx returns is not looked at.
ContSpawnAll ==
  /\ Cont(SPAWN_ALL)
  /\ LET rest == Top(1)  env == Top(2)
         cid_list == cons_result(heap, enc_i(next_ctx_id), ctx.r)
     IN \/ /\ rest = NIL
           /\ Return(ctx.r, Drop(3)) /\ Succeed /\ UNCHANGED <<heap, unborn>>
        \/ /\ rest # NIL /\ ~ is_ptr(cid_list.v)
           /\ Retry /\ Stay /\ UNCHANGED <<heap, unborn>>
        \/ /\ rest # NIL /\ is_ptr(cid_list.v)
           /\ heap' = cid_list.h /\ Succeed
           /\ create_ctx(car(heap, rest), env)
           /\ ctx' = [ctx EXCEPT !.r = cid_list.v,
                                 !.K = Drop(3) \o <<env, cdr(heap, rest), SPAWN_ALL>>]
           /\ UNCHANGED <<running, ctx_done>>
  /\ UNCHANGED <<env_global, promise, env_lost, starved, misread>>

\* WAIT: the first context of that CID in the done list gives up its result.
ContWait ==
  /\ Cont(WAIT)
  /\ LET cid == dec_u(Top(1)) % 2^16
         found == {k \in DOMAIN ctx_done : ctx_done[k].id = cid}
         k == Min(found)
     IN IF found = {} THEN Sleep(cid, Drop(2))
        ELSE /\ ctx' = [ctx EXCEPT !.r = ctx_done[k].r, !.K = Drop(2)]
             /\ ctx_done' = RemoveAt(ctx_done, k)
             /\ UNCHANGED <<running, ctx_queue, next_ctx_id>>
  /\ Succeed /\ UNCHANGED <<heap, env_global, others>>

\* The operands of and, or: the value decided so far, or the next operand.
ShortCircuit(tag, decided, value, rest, env, k) ==
  LET again == <<env, cdr(heap, rest), tag>> IN
  IF decided \/ rest = NIL THEN Return(value, k)
  ELSE FATAL_ON_FAIL(k, again, Go(car(heap, rest), env, k \o again))

ContAnd ==
  /\ Cont(AND)
  /\ ShortCircuit(AND, ctx.r = NIL, ctx.r, Top(1), Top(2), Drop(3))
  /\ Succeed /\ UNCHANGED <<heap, env_global, others>>

ContOr ==
  /\ Cont(OR)
  /\ ShortCircuit(OR, ctx.r # NIL, ctx.r, Top(1), Top(2), Drop(3))
  /\ Succeed /\ UNCHANGED <<heap, env_global, others>>

\* The function, or an argument, has been evaluated to ctx.r.  An argument whose
\* value is the symbol and (or) is dealt with like the operator: the function and
\* the arguments before it stay on K.
ContApplicationArgs ==
  /\ Cont(APPLICATION_ARGS)
  /\ LET rest == Top(1)  count == Top(2)  env == Top(3)
         last == <<ctx.r, count, APPLICATION>>
         more == <<ctx.r, env, enc_u(dec_u(count) + 1), cdr(heap, rest), APPLICATION_ARGS>>
     IN CASE ctx.r = sym("and") -> ShortCircuit(AND, FALSE, T, rest, env, Drop(4))
          [] ctx.r = sym("or") -> ShortCircuit(OR, FALSE, NIL, rest, env, Drop(4))
          [] ctx.r \notin {sym("and"), sym("or")} /\ rest = NIL ->
               FATAL_ON_FAIL(Drop(4), last, Return(ctx.r, Drop(4) \o last))
          [] OTHER ->
               FATAL_ON_FAIL(Drop(4), more, Go(car(heap, rest), env, Drop(4) \o more))
  /\ misread' = (misread \/ (ctx.r \in {sym("and"), sym("or")} /\ dec_u(Top(2)) # 0))
  /\ Succeed /\ UNCHANGED <<heap, env_global, promise, env_lost, starved, unborn>>

\* The value of one let binding; then the next one, or the body.
ContBindToKeyRest ==
  /\ Cont(BIND_TO_KEY_REST)
  /\ LET key == Top(1)  env == Top(2)  rest == Top(3)
         bind == car(heap, rest)
         again == <<cdr(heap, rest), env, car(heap, bind), BIND_TO_KEY_REST>>
     IN /\ heap' = env_modify_binding(heap, env, key, ctx.r)
        /\ IF type_of(rest) = "CONS"
             THEN FATAL_ON_FAIL(Drop(4), again, Go(nth(bind, 1), env, Drop(4) \o again))
             ELSE Go(Top(4), env, Drop(5))
  /\ Succeed /\ UNCHANGED <<env_global, others>>

\* The branch is evaluated in whatever environment there is.
ContIf ==
  /\ Cont(IF_)
  /\ Go(IF ctx.r = T THEN Top(1) ELSE Top(2), ctx.curr_env, Drop(3))
  /\ Succeed /\ UNCHANGED <<heap, env_global, others>>

\* A word that is taken for no continuation on top of K: what follows a push that
\* FATAL_ON_FAIL gave up, or a misread argument.
ContUnknown ==
  /\ Apply /\ dec_u(Top(0)) \notin dec_u(DONE) .. dec_u(SPAWN_ALL)
  /\ error_ctx(EERROR, Drop(1))
  /\ Succeed /\ UNCHANGED <<heap, env_global, others>>

\* Nobody is left: the evaluator polls an empty queue (evaluate_non_concurrent
\* returns).
Idle == ~ running /\ ctx_queue = <<>>
Ended == Idle /\ UNCHANGED vars

Next ==
  \/ Dequeue \/ Collect \/ OutOfMemory
  \/ EvalSymbol \/ EvalSelf \/ EvalQuote \/ EvalDefine \/ EvalProgn \/ EvalSpawn \/ EvalLambda
  \/ EvalIf \/ EvalLet \/ EvalApplication
  \/ ContDone \/ ContSetGlobalEnv \/ ContPrognRest \/ ContSpawnAll \/ ContWait
  \/ ApplyClosure \/ ApplyEval \/ ApplyYield \/ ApplyWait \/ ApplyFundamental \/ ApplyExtension
  \/ ContAnd \/ ContOr \/ ContApplicationArgs \/ ContBindToKeyRest \/ ContIf \/ ContUnknown
  \/ Ended

Spec == Init /\ [][Next]_vars

Queued(cid) == \E c \in Range(ctx_queue) : c.id = cid

(***************************************************************************)
(* Properties                                                              *)
(***************************************************************************)
\* The contexts that will run again.
Alive == Range(ctx_queue) \cup (IF running THEN {ctx} ELSE {})

TypeOK ==
  /\ DOMAIN heap.car = Cell /\ DOMAIN heap.cdr = Cell /\ heap.mark \in [Cell -> BOOLEAN]
  /\ heap.num_alloc \in 0 .. heap_size
  /\ \A c \in Alive : Len(c.K) <= c.stack_size /\ {c.app_cont, c.done, c.asleep} \subseteq BOOLEAN
  /\ {running, perform_gc, last_iteration_gc, env_lost, starved, unborn} \subseteq BOOLEAN

\* Everything some context still needs: its program, its environment, the values
\* and expressions on its stack, the value on its way to a continuation, and the
\* result of a finished context until somebody has taken it.
InUse ==
  {env_global} \cup {c.r : c \in Range(ctx_done)} \cup
  UNION {{c.curr_env, c.program} \cup Range(c.K) \cup {IF c.app_cont THEN c.r ELSE c.curr_exp} :
         c \in Alive}

\* Between two steps everything needed is in a field that gc marks: no collection
\* that one context asks for ever recovers a cell that it or another one, running,
\* asleep or finished, leads to.
NothingInUseRecovered == Reachable(heap, InUse) \cap FreeCells(heap) = {}

\* Whenever collections happen, however often a step has to be done again,
\* whatever malloc leaves in r and in whatever order contexts take turns, each
\* computes the value it computes alone in ample memory, or is told that there is
\* not enough; and wait delivers the result of the program that spawn started
\* under that CID.  (Not after env_set has lost the global environment, see
\* GlobalsKept, nor after spawn has reported a CID it has no context for.)
GcTransparent ==
  ~ env_lost /\ ~ starved /\ ~ unborn =>
    \A k \in DOMAIN ctx_done : ctx_done[k].r \in promise.answers[ctx_done[k].id]

\* The entries of K that belong to the continuation at position k.
FrameSize(K, k) ==
  LET tag == K[k] IN
  CASE tag = DONE -> 1
    [] tag \in {SET_GLOBAL_ENV, WAIT} -> 2
    [] tag \in {PROGN_REST, SPAWN_ALL, AND, OR, IF_} -> 3
    [] tag = BIND_TO_KEY_REST -> 5
    [] tag = APPLICATION -> 3 + K[k - 1][2]
    [] tag = APPLICATION_ARGS -> 4 + K[k - 2][2]
    [] OTHER -> 0

\* K is made of whole continuations, down to the one DONE at its bottom.
Whole(K) ==
  LET whole[k \in 0 .. Len(K)] ==
        /\ k > 0
        /\ IF K[k] = DONE THEN k = 1
           ELSE FrameSize(K, k) \in 1 .. k /\ whole[k - FrameSize(K, k)]
  IN whole[Len(K)]

\* Whatever was retried or collected, and wherever a context gave up its turn, its
\* K is made of whole continuations down to the one DONE at its bottom: each pop
\* of apply_continuation finds the value it expects, and the count of an
\* application is the number of values under it.  (Not after an argument whose value
\* is the symbol and or or has been taken for an operator.)
StackOfFrames == ~ misread => \A c \in Alive : ~ c.done => Whole(c.K)

\* A loop written as a tail call runs in constant stack: what the
\* test_tailrec_*.lisp rely on.
TailCallsConstantStack == Len(ctx.K) <= promise.depth

\* Every program that ends in ample memory ends: no step is tried for ever, and
\* nobody waits for ever for a context that spawn has started.
Terminates == <>(Idle \/ unborn)

\* A test program answers as its author wrote down: an expression sees the
\* variables of the place it is written in, not those of what ran before it.
TestAnswer == \A k \in DOMAIN ctx_done : ctx_done[k].r \in promise.answers[1] \cup {MERROR}

\* A definition never takes away the ones before it.
GlobalsKept == ~ env_lost
=============================================================================
