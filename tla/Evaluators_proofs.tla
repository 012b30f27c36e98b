-------------------------- MODULE Evaluators_proofs --------------------------
(***************************************************************************)
(* No collection recovers a cell that is in use, whichever evaluator asks  *)
(* for it and whenever: between two steps everything that is still needed  *)
(* is in a place that gc marks, and leads to no free cell.                 *)
(***************************************************************************)
EXTENDS EcEval_proofs

(***************************************************************************)
(* The contexts of the CPS evaluator                                       *)
(***************************************************************************)
\* Before r is set for the first time it holds what malloc has left there, which
\* gc marks like everything else.
CtxKept(F, c) ==
  /\ {"curr_env", "curr_exp", "program", "r", "K", "app_cont", "done", "asleep"} \subseteq DOMAIN c
  /\ c.app_cont \in BOOLEAN /\ c.done \in BOOLEAN /\ c.asleep \in BOOLEAN
  /\ Kept(F, c.curr_env) /\ Kept(F, c.curr_exp) /\ Kept(F, c.program) /\ KeptSeq(F, c.K)
  /\ InHeap(c.r) /\ (c.app_cont => Kept(F, c.r))

QueueKept(F, q) == IsSeq(q) /\ \A k \in 1 .. Len(q) : CtxKept(F, q[k])
ResultsKept(F, d) == IsSeq(d) /\ \A k \in 1 .. Len(d) : Kept(F, d[k].r)

\* The free cells of the heap are F, and nothing in use leads to one of them.
AllKept(F) ==
  /\ Sound(heap, F) /\ Kept(F, env_global) /\ QueueKept(F, ctx_queue) /\ ResultsKept(F, ctx_done)
  /\ running \in BOOLEAN /\ (running => CtxKept(F, ctx))

\* The inductive invariant, together with AllReady.
Safe == \E F : AllKept(F)

LEMMA CtxKeptMore ==
  ASSUME NEW F, NEW E, E \subseteq F, NEW c, CtxKept(F, c)
  PROVE  CtxKept(E, c)
  BY KeptMore, KeptSeqMore DEF CtxKept

LEMMA QueueKeptMore ==
  ASSUME NEW F, NEW E, E \subseteq F, NEW q, QueueKept(F, q)
  PROVE  QueueKept(E, q)
  BY CtxKeptMore DEF QueueKept

LEMMA ResultsKeptMore ==
  ASSUME NEW F, NEW E, E \subseteq F, NEW d, ResultsKept(F, d)
  PROVE  ResultsKept(E, d)
  BY KeptMore DEF ResultsKept

\* What a step has not come to yet.
StepKeeps(E) ==
  /\ Sound(heap', E) /\ Kept(E, env_global')
  /\ QueueKept(E, ctx_queue) /\ ResultsKept(E, ctx_done) /\ CtxKept(E, ctx) /\ running \in BOOLEAN

LEMMA Moved ==
  ASSUME NEW F, AllKept(F), running, NEW E, E \subseteq F, Sound(heap', E), Kept(E, env_global')
  PROVE  StepKeeps(E)
  BY QueueKeptMore, ResultsKeptMore, CtxKeptMore DEF AllKept, StepKeeps

LEMMA Unmoved ==
  ASSUME NEW F, AllKept(F), running, UNCHANGED <<heap, env_global>>
  PROVE  StepKeeps(F)
  BY DEF AllKept, StepKeeps

(***************************************************************************)
(* Stacks                                                                  *)
(***************************************************************************)
LEMMA JoinKept ==
  ASSUME NEW F, NEW s, KeptSeq(F, s), NEW t, KeptSeq(F, t)
  PROVE  KeptSeq(F, s \o t)
  <1>1. PICK L : L = s \o t OBVIOUS
  <1>2. IsSeq(s) /\ IsSeq(t) BY DEF KeptSeq
  <1>3. /\ IsSeq(L) /\ Len(s) \in Nat /\ Len(t) \in Nat /\ Len(L) = Len(s) + Len(t)
        /\ \A k \in 1 .. Len(s) : L[k] = s[k]
        /\ \A k \in 1 .. Len(t) : L[Len(s) + k] = t[k]
    <2>1. IsSeq(s) BY <1>2
    <2>2. IsSeq(t) BY <1>2
    <2>3. IsJoin(s \o t, s, t) BY <2>1, <2>2, JoinIs, Zenon
    <2>4. IsJoin(L, s, t) BY <1>1, <2>3, Zenon
    <2> QED BY <2>4, Zenon DEF IsJoin
  <1>4. ASSUME NEW k \in 1 .. Len(L) PROVE Kept(F, L[k])
    <2>1. CASE k \in 1 .. Len(s) BY <1>3, <2>1 DEF KeptSeq
    <2>2. CASE k \notin 1 .. Len(s)
      <3>1. PICK j \in 1 .. Len(t) : k = Len(s) + j
        <4>1. k - Len(s) \in 1 .. Len(t) /\ k = Len(s) + (k - Len(s)) BY <1>3, <2>2
        <4> QED BY <4>1
      <3> QED BY <1>3, <3>1 DEF KeptSeq
    <2> QED BY <2>1, <2>2
  <1>5. Len(L) \in Nat BY <1>3
  <1> QED BY <1>1, <1>3, <1>4, <1>5 DEF KeptSeq

LEMMA CutKept ==
  ASSUME NEW F, NEW s, KeptSeq(F, s), NEW n, n \in 0 .. Len(s)
  PROVE  KeptSeq(F, SubSeq(s, 1, n))
  <1>1. IsSeq(s) /\ Len(s) \in Nat BY DEF KeptSeq
  <1>2. PICK L : L = SubSeq(s, 1, n) OBVIOUS
  <1>3. IsSeq(L) /\ Len(L) = n /\ \A k \in 1 .. n : L[k] = s[k] BY <1>1, <1>2, CutSeq
  <1>4. \A k \in 1 .. n : k \in 1 .. Len(s) /\ n \in Nat BY <1>1
  <1>5. n \in Nat BY <1>1
  <1> QED BY <1>2, <1>3, <1>4, <1>5 DEF KeptSeq

LEMMA OneKept == ASSUME NEW F, NEW a, Kept(F, a) PROVE KeptSeq(F, <<a>>)
  <1>1. <<a>> \in Seq({a}) /\ Len(<<a>>) = 1 /\ \A k \in 1 .. 1 : <<a>>[k] = a OBVIOUS
  <1> QED BY <1>1 DEF KeptSeq, IsSeq

LEMMA TwoKept == ASSUME NEW F, NEW a, Kept(F, a), NEW b, Kept(F, b) PROVE KeptSeq(F, <<a, b>>)
  <1>1. <<a, b>> = <<a>> \o <<b>> OBVIOUS
  <1>2. KeptSeq(F, <<a>> \o <<b>>) BY OneKept, JoinKept
  <1> QED BY <1>1, <1>2

LEMMA ThreeKept ==
  ASSUME NEW F, NEW a, Kept(F, a), NEW b, Kept(F, b), NEW c, Kept(F, c)
  PROVE  KeptSeq(F, <<a, b, c>>)
  <1>1. <<a, b, c>> = <<a, b>> \o <<c>> OBVIOUS
  <1>2. KeptSeq(F, <<a, b>> \o <<c>>) BY OneKept, TwoKept, JoinKept
  <1> QED BY <1>1, <1>2

LEMMA FourKept ==
  ASSUME NEW F, NEW a, Kept(F, a), NEW b, Kept(F, b), NEW c, Kept(F, c), NEW d, Kept(F, d)
  PROVE  KeptSeq(F, <<a, b, c, d>>)
  <1>1. <<a, b, c, d>> = <<a, b>> \o <<c, d>> OBVIOUS
  <1>2. KeptSeq(F, <<a, b>> \o <<c, d>>) BY TwoKept, JoinKept
  <1> QED BY <1>1, <1>2

LEMMA FiveKept ==
  ASSUME NEW F, NEW a, Kept(F, a), NEW b, Kept(F, b), NEW c, Kept(F, c), NEW d, Kept(F, d),
         NEW e, Kept(F, e)
  PROVE  KeptSeq(F, <<a, b, c, d, e>>)
  <1>1. <<a, b, c, d, e>> = <<a, b>> \o <<c, d, e>> OBVIOUS
  <1>2. KeptSeq(F, <<a, b>> \o <<c, d, e>>) BY TwoKept, ThreeKept, JoinKept
  <1> QED BY <1>1, <1>2

\* Numbers and symbols, tags among them, lead nowhere.
LEMMA PlainKept ==
  /\ \A F, n : Kept(F, enc_u(n)) /\ Kept(F, enc_i(n))
  /\ \A F : /\ Kept(F, NIL) /\ Kept(F, T) /\ Kept(F, EERROR) /\ Kept(F, MERROR)
            /\ Kept(F, FATAL_ERROR) /\ Kept(F, NOT_FOUND)
  /\ \A F : /\ Kept(F, DONE) /\ Kept(F, SET_GLOBAL_ENV) /\ Kept(F, BIND_TO_KEY_REST) /\ Kept(F, IF_)
            /\ Kept(F, PROGN_REST) /\ Kept(F, APPLICATION) /\ Kept(F, APPLICATION_ARGS) /\ Kept(F, AND)
            /\ Kept(F, OR) /\ Kept(F, WAIT) /\ Kept(F, SPAWN_ALL)
  <1>1. \A F, n : Kept(F, enc_u(n)) /\ Kept(F, enc_i(n))
    BY DEF enc_u, enc_i, Kept, is_ptr, PtrType, type_of
  <1>2. \A F, s : Kept(F, sym(s)) BY KeptSym
  <1> QED BY <1>1, <1>2 DEF NIL, T, EERROR, MERROR, FATAL_ERROR, NOT_FOUND, DONE, SET_GLOBAL_ENV,
             BIND_TO_KEY_REST, IF_, PROGN_REST, APPLICATION, APPLICATION_ARGS, AND, OR, WAIT, SPAWN_ALL

(***************************************************************************)
(* Ways for a step to end                                                  *)
(***************************************************************************)
LEMMA StayKeeps ==
  ASSUME NEW E, StepKeeps(E), Stay
  PROVE  Safe'
  <1>1. UNCHANGED <<ctx, running, ctx_queue, ctx_done>> BY DEF Stay, waiting
  <1>2. AllKept(E)' BY <1>1 DEF StepKeeps, AllKept
  <1> QED BY <1>2 DEF Safe

\* A context that goes on.
LEMMA CtxKeeps ==
  ASSUME NEW E, StepKeeps(E), CtxKept(E, ctx'), UNCHANGED <<running, waiting>>
  PROVE  Safe'
  <1>1. UNCHANGED <<running, ctx_queue, ctx_done>> BY DEF waiting
  <1>2. AllKept(E)' BY <1>1 DEF StepKeeps, AllKept
  <1> QED BY <1>2 DEF Safe

LEMMA ReturnKeeps ==
  ASSUME NEW E, StepKeeps(E), NEW v, Kept(E, v), NEW k, KeptSeq(E, k), Return(v, k)
  PROVE  Safe'
  <1>1. CtxKept(E, ctx) BY DEF StepKeeps
  <1>2. ctx' = [ctx EXCEPT !.r = v, !.K = k, !.app_cont = TRUE] BY DEF Return
  <1>3. CtxKept(E, ctx') BY <1>1, <1>2, KeptIn DEF CtxKept
  <1> QED BY <1>3, CtxKeeps DEF Return

LEMMA GoKeeps ==
  ASSUME NEW E, StepKeeps(E), NEW e, Kept(E, e), NEW env, Kept(E, env), NEW k, KeptSeq(E, k),
         Go(e, env, k)
  PROVE  Safe'
  <1>1. CtxKept(E, ctx) BY DEF StepKeeps
  <1>2. ctx' = [ctx EXCEPT !.curr_exp = e, !.curr_env = env, !.K = k, !.app_cont = FALSE] BY DEF Go
  <1>3. CtxKept(E, ctx') BY <1>1, <1>2, KeptIn DEF CtxKept
  <1> QED BY <1>3, CtxKeeps DEF Go

\* A sequence in front of another one.
LEMMA JoinedAll ==
  ASSUME NEW s, IsSeq(s), NEW t, IsSeq(t), NEW L, L = s \o t
  PROVE  /\ IsSeq(L) /\ Len(s) \in Nat /\ Len(t) \in Nat /\ Len(L) = Len(s) + Len(t)
         /\ \A k \in 1 .. Len(s) : L[k] = s[k]
         /\ \A k \in 1 .. Len(t) : L[Len(s) + k] = t[k]
  BY JoinSeq

LEMMA PrependKept ==
  ASSUME NEW E, NEW d, ResultsKept(E, d), NEW c, Kept(E, c.r)
  PROVE  ResultsKept(E, <<c>> \o d)
  <1>1. IsSeq(d) /\ \A k \in 1 .. Len(d) : Kept(E, d[k].r) BY DEF ResultsKept
  <1>2. PICK one : one = <<c>> OBVIOUS
  <1>3. one \in Seq({c}) /\ Len(one) = 1 /\ one[1] = c BY <1>2
  <1>4. IsSeq(one) BY <1>3, SeqIn
  <1>5. PICK L : L = one \o d OBVIOUS
  <1>6. /\ IsSeq(L) /\ Len(one) \in Nat /\ Len(d) \in Nat /\ Len(L) = Len(one) + Len(d)
        /\ \A k \in 1 .. Len(one) : L[k] = one[k]
        /\ \A k \in 1 .. Len(d) : L[Len(one) + k] = d[k]
    <2>1. IsSeq(d) BY <1>1
    <2>2. IsSeq(one) BY <1>4
    <2>3. L = one \o d BY <1>5
    <2>4. IsSeq(L) /\ Len(one) \in Nat /\ Len(d) \in Nat BY <2>1, <2>2, <2>3, JoinedAll
    <2>5. Len(L) = Len(one) + Len(d) BY <2>1, <2>2, <2>3, JoinedAll
    <2>6. \A k \in 1 .. Len(one) : L[k] = one[k] BY <2>1, <2>2, <2>3, JoinedAll
    <2>7. \A k \in 1 .. Len(d) : L[Len(one) + k] = d[k] BY <2>1, <2>2, <2>3, JoinedAll
    <2> QED BY <2>4, <2>5, <2>6, <2>7
  <1>7. /\ Len(L) = 1 + Len(d) /\ L[1] = c /\ \A k \in 1 .. Len(d) : L[1 + k] = d[k]
    BY <1>3, <1>6
  <1>8. ASSUME NEW k \in 1 .. Len(L) PROVE Kept(E, L[k].r)
    <2>1. CASE k = 1 BY <1>7, <2>1
    <2>2. CASE k # 1
      <3>1. PICK j \in 1 .. Len(d) : k = 1 + j
        <4>1. k - 1 \in 1 .. Len(d) /\ k = 1 + (k - 1) BY <1>6, <1>7, <2>2
        <4> QED BY <4>1
      <3> QED BY <1>1, <1>7, <3>1
    <2> QED BY <2>1, <2>2
  <1>9. ResultsKept(E, L) BY <1>6, <1>8 DEF ResultsKept
  <1> QED BY <1>2, <1>5, <1>9

LEMMA FinishKeeps ==
  ASSUME NEW E, StepKeeps(E), NEW c, Kept(E, c.r), finish_ctx(c)
  PROVE  Safe'
  <1>1. ctx_done' = <<c>> \o ctx_done /\ ctx_queue' = ctx_queue /\ running' = FALSE BY DEF finish_ctx
  <1>2. ResultsKept(E, <<c>> \o ctx_done) BY PrependKept DEF StepKeeps
  <1>3. ResultsKept(E, ctx_done') BY <1>1, <1>2
  <1>4. AllKept(E)' BY <1>1, <1>3 DEF StepKeeps, AllKept
  <1> QED BY <1>4 DEF Safe

LEMMA ErrorKeeps ==
  ASSUME NEW E, StepKeeps(E), NEW v, Kept(E, v), NEW k, error_ctx(v, k)
  PROVE  Safe'
  <1>1. CtxKept(E, ctx) BY DEF StepKeeps
  <1>2. PICK c : c = [ctx EXCEPT !.r = v, !.K = k, !.app_cont = FALSE] OBVIOUS
  <1>3. c.r = v BY <1>1, <1>2 DEF CtxKept
  <1>4. finish_ctx(c) BY <1>2 DEF error_ctx
  <1> QED BY <1>3, <1>4, FinishKeeps

LEMMA AppendKept ==
  ASSUME NEW E, NEW q, QueueKept(E, q), NEW c, CtxKept(E, c)
  PROVE  QueueKept(E, Append(q, c))
  <1>1. IsSeq(q) /\ \A j \in 1 .. Len(q) : CtxKept(E, q[j]) BY DEF QueueKept
  <1>2. PICK S : q \in Seq(S) BY <1>1 DEF IsSeq
  <1>3. PICK U : U = S \cup {c} OBVIOUS
  <1>4. q \in Seq(U) /\ c \in U BY <1>2, <1>3
  <1>5. PICK L : L = Append(q, c) OBVIOUS
  <1>6. /\ L \in Seq(U) /\ Len(q) \in Nat /\ Len(L) = Len(q) + 1
        /\ \A j \in 1 .. Len(q) : L[j] = q[j]
        /\ L[Len(q) + 1] = c
    BY <1>4, <1>5
  <1>7. \A j \in 1 .. Len(q) + 1 : j \in 1 .. Len(q) \/ j = Len(q) + 1 BY <1>6
  <1>8. QueueKept(E, L) BY <1>1, <1>6, <1>7 DEF QueueKept, IsSeq
  <1> QED BY <1>5, <1>8

LEMMA YieldKeeps ==
  ASSUME NEW E, StepKeeps(E), NEW k, KeptSeq(E, k), NEW us, yield_ctx([ctx EXCEPT !.K = k], us)
  PROVE  Safe'
  <1>1. CtxKept(E, ctx) BY DEF StepKeeps
  <1>2. PICK c : c = [ctx EXCEPT !.K = k] OBVIOUS
  <1>3. PICK y : y = [c EXCEPT !.r = T, !.app_cont = TRUE, !.asleep = (us # 0)] OBVIOUS
  <1>4. CtxKept(E, c) BY <1>1, <1>2 DEF CtxKept
  <1>5. Kept(E, T) /\ InHeap(T) BY PlainKept, KeptIn
  <1>6. CtxKept(E, y) BY <1>3, <1>4, <1>5 DEF CtxKept
  <1>7. ctx_queue' = Append(ctx_queue, y) /\ running' = FALSE /\ ctx_done' = ctx_done
    BY <1>2, <1>3 DEF yield_ctx
  <1>8. QueueKept(E, ctx_queue') BY <1>6, <1>7, AppendKept DEF StepKeeps
  <1>9. AllKept(E)' BY <1>7, <1>8 DEF StepKeeps, AllKept
  <1> QED BY <1>9 DEF Safe

LEMMA FailKeeps ==
  ASSUME NEW E, StepKeeps(E), NEW k,
         finish_ctx([ctx EXCEPT !.r = FATAL_ERROR, !.done = TRUE, !.K = k])
  PROVE  Safe'
  <1>1. CtxKept(E, ctx) BY DEF StepKeeps
  <1>2. PICK c : c = [ctx EXCEPT !.r = FATAL_ERROR, !.done = TRUE, !.K = k] OBVIOUS
  <1>3. c.r = FATAL_ERROR BY <1>1, <1>2 DEF CtxKept
  <1> QED BY <1>2, <1>3, PlainKept, FinishKeeps

LEMMA FofKeeps ==
  ASSUME NEW E, StepKeeps(E), NEW e, Kept(E, e), NEW env, Kept(E, env), NEW k, KeptSeq(E, k),
         NEW vals, KeptSeq(E, vals), FOF(k, vals, Go(e, env, k \o vals))
  PROVE  Safe'
  <1>1. CASE Fits(k, vals)
    <2>1. PICK l : l = k \o vals OBVIOUS
    <2>2. KeptSeq(E, l) BY <2>1, JoinKept
    <2>3. Go(e, env, l) BY <1>1, <2>1 DEF FOF
    <2> QED BY <2>2, <2>3, GoKeeps
  <1>2. CASE ~ Fits(k, vals)
    <2>1. finish_ctx([ctx EXCEPT !.r = FATAL_ERROR, !.done = TRUE, !.K = Pushed(k, vals)])
      BY <1>2 DEF FOF
    <2> QED BY <2>1, FailKeeps
  <1> QED BY <1>1, <1>2

\* FATAL_ON_FAIL when the push fails.
LEMMA GivenUpKeeps ==
  ASSUME NEW E, StepKeeps(E), ctx.stack_size \in StackSizes, NEW k, KeptSeq(E, k),
         NEW vals, KeptSeq(E, vals), ~ Fits(k, vals),
         ctx' = [ctx EXCEPT !.r = FATAL_ERROR, !.done = TRUE, !.K = Pushed(k, vals),
                            !.app_cont = FALSE],
         UNCHANGED <<running, waiting>>
  PROVE  Safe'
  <1>1. CtxKept(E, ctx) BY DEF StepKeeps
  <1>2. PICK l : l = k \o vals OBVIOUS
  <1>3. KeptSeq(E, l) /\ Len(l) = Len(k) + Len(vals)
    <2>1. IsSeq(k) /\ IsSeq(vals) BY DEF KeptSeq
    <2> QED BY <1>2, <2>1, JoinKept, JoinSeq
  <1>4. ctx.stack_size \in 0 .. Len(l)
    <2>1. ctx.stack_size \in Nat BY DEF StackSizes
    <2>2. Len(k) \in Nat /\ Len(vals) \in Nat /\ ~ Len(k) + Len(vals) <= ctx.stack_size
      BY DEF KeptSeq, Fits
    <2> QED BY <1>3, <2>1, <2>2
  <1>5. PICK p : p = SubSeq(l, 1, ctx.stack_size) OBVIOUS
  <1>6. KeptSeq(E, p) BY <1>3, <1>4, <1>5, CutKept
  <1>7. ctx' = [ctx EXCEPT !.r = FATAL_ERROR, !.done = TRUE, !.K = p, !.app_cont = FALSE]
    BY <1>2, <1>5 DEF Pushed
  <1>8. InHeap(FATAL_ERROR) BY PlainKept, KeptIn
  <1>9. CtxKept(E, ctx') BY <1>1, <1>6, <1>7, <1>8 DEF CtxKept
  <1> QED BY <1>9, CtxKeeps

LEMMA FatalKeeps ==
  ASSUME NEW E, StepKeeps(E), ctx.stack_size \in StackSizes, NEW e, Kept(E, e), NEW env, Kept(E, env),
         NEW k, KeptSeq(E, k), NEW vals, KeptSeq(E, vals),
         FATAL_ON_FAIL(k, vals, Go(e, env, k \o vals))
  PROVE  Safe'
  <1>1. CASE Fits(k, vals)
    <2>1. PICK l : l = k \o vals OBVIOUS
    <2>2. KeptSeq(E, l) BY <2>1, JoinKept
    <2>3. Go(e, env, l) BY <1>1, <2>1 DEF FATAL_ON_FAIL
    <2> QED BY <2>2, <2>3, GoKeeps
  <1>2. CASE ~ Fits(k, vals) BY <1>2, GivenUpKeeps DEF FATAL_ON_FAIL
  <1> QED BY <1>1, <1>2

(***************************************************************************)
(* What a step takes from its context                                      *)
(***************************************************************************)
\* The context that runs, as evaluation_step finds it.
LEMMA EvalFinds ==
  ASSUME NEW F, AllKept(F), Eval
  PROVE  /\ running /\ Sound(heap, F) /\ Kept(F, env_global) /\ CtxKept(F, ctx)
         /\ Kept(F, ctx.curr_env) /\ Kept(F, ctx.curr_exp) /\ KeptSeq(F, ctx.K)
         /\ \A n \in Nat : Kept(F, nth(ctx.curr_exp, n)) /\ Kept(F, nthcdr(ctx.curr_exp, n))
  <1>1. running /\ Sound(heap, F) /\ Kept(F, env_global) /\ CtxKept(F, ctx) BY DEF AllKept, Eval
  <1>2. Kept(F, ctx.curr_env) /\ Kept(F, ctx.curr_exp) /\ KeptSeq(F, ctx.K) BY <1>1 DEF CtxKept
  <1> QED BY <1>1, <1>2, NthKept

\* And as apply_continuation does.
LEMMA ApplyFinds ==
  ASSUME NEW F, AllKept(F), AllReady, Apply, ~ ctx.done
  PROVE  /\ running /\ Sound(heap, F) /\ Kept(F, env_global) /\ CtxKept(F, ctx)
         /\ Kept(F, ctx.curr_env) /\ Kept(F, ctx.program) /\ Kept(F, ctx.r) /\ KeptSeq(F, ctx.K)
         /\ Framed(ctx.K) /\ Len(ctx.K) \in Nat /\ Len(ctx.K) > 0 /\ ctx.stack_size \in StackSizes
         /\ Top(0) = ctx.K[Len(ctx.K)]
  <1>1. running /\ Sound(heap, F) /\ Kept(F, env_global) /\ CtxKept(F, ctx) /\ ctx.app_cont
    BY DEF AllKept, Apply
  <1> QED BY <1>1, StackFacts DEF CtxKept

\* The entries of the topmost continuation, and what is under it.
LEMMA Popped ==
  ASSUME NEW F, AllKept(F), AllReady, Apply, ~ ctx.done, NEW n, Entries(ctx.K, Len(ctx.K), n)
  PROVE  /\ n \in 1 .. Len(ctx.K) - 1
         /\ \A k \in 0 .. n - 1 : Kept(F, Top(k))
         /\ \A k \in 0 .. n : KeptSeq(F, Drop(k))
  <1>1. KeptSeq(F, ctx.K) /\ Framed(ctx.K) /\ Len(ctx.K) \in Nat BY ApplyFinds
  <1>2. n \in 1 .. Len(ctx.K) - 1 BY <1>1, Under DEF Framed
  <1>3. ASSUME NEW k \in 0 .. n - 1 PROVE Kept(F, Top(k))
    <2>1. Len(ctx.K) - k \in 1 .. Len(ctx.K) BY <1>1, <1>2
    <2> QED BY <1>1, <2>1 DEF KeptSeq, Top
  <1>4. ASSUME NEW k \in 0 .. n PROVE KeptSeq(F, Drop(k))
    <2>1. Len(ctx.K) - k \in 0 .. Len(ctx.K) BY <1>1, <1>2
    <2> QED BY <1>1, <2>1, CutKept DEF Drop
  <1> QED BY <1>2, <1>3, <1>4

LEMMA Popped2 ==
  ASSUME NEW F, AllKept(F), AllReady, Apply, ~ ctx.done, Top(0) \in {SET_GLOBAL_ENV, WAIT}
  PROVE  Kept(F, Top(1)) /\ KeptSeq(F, Drop(2))
  <1>1. Entries(ctx.K, Len(ctx.K), 2) BY ApplyFinds DEF Entries
  <1>2. 1 \in 0 .. 2 - 1 /\ 2 \in 0 .. 2 OBVIOUS
  <1> QED BY <1>1, <1>2, Popped

LEMMA Popped3 ==
  ASSUME NEW F, AllKept(F), AllReady, Apply, ~ ctx.done,
         Top(0) \in {PROGN_REST, SPAWN_ALL, AND, OR, IF_}
  PROVE  Kept(F, Top(1)) /\ Kept(F, Top(2)) /\ KeptSeq(F, Drop(3))
  <1>1. Entries(ctx.K, Len(ctx.K), 3) BY ApplyFinds DEF Entries
  <1>2. 1 \in 0 .. 3 - 1 /\ 2 \in 0 .. 3 - 1 /\ 3 \in 0 .. 3 OBVIOUS
  <1> QED BY <1>1, <1>2, Popped

LEMMA PoppedLet ==
  ASSUME NEW F, AllKept(F), AllReady, Apply, ~ ctx.done, Top(0) = BIND_TO_KEY_REST
  PROVE  /\ Kept(F, Top(1)) /\ Kept(F, Top(2)) /\ Kept(F, Top(3)) /\ Kept(F, Top(4))
         /\ KeptSeq(F, Drop(4)) /\ KeptSeq(F, Drop(5))
  <1>1. Entries(ctx.K, Len(ctx.K), 5) BY ApplyFinds DEF Entries
  <1>2. /\ 1 \in 0 .. 5 - 1 /\ 2 \in 0 .. 5 - 1 /\ 3 \in 0 .. 5 - 1 /\ 4 \in 0 .. 5 - 1
        /\ 4 \in 0 .. 5 /\ 5 \in 0 .. 5
    OBVIOUS
  <1> QED BY <1>1, <1>2, Popped

LEMMA PoppedArgs ==
  ASSUME NEW F, AllKept(F), AllReady, Apply, ~ ctx.done, Top(0) = APPLICATION_ARGS
  PROVE  Kept(F, Top(1)) /\ Kept(F, Top(2)) /\ Kept(F, Top(3)) /\ KeptSeq(F, Drop(4))
  <1>1. PICK m \in Nat : Entries(ctx.K, Len(ctx.K), 4 + m) BY ArgsFacts
  <1>2. PICK n : n = 4 + m OBVIOUS
  <1>3. 1 \in 0 .. n - 1 /\ 2 \in 0 .. n - 1 /\ 3 \in 0 .. n - 1 /\ 4 \in 0 .. n BY <1>2
  <1>4. Entries(ctx.K, Len(ctx.K), n) BY <1>1, <1>2
  <1> QED BY <1>3, <1>4, Popped

\* The count of an application, its arguments and its function.
LEMMA PoppedApplication ==
  ASSUME NEW F, AllKept(F), AllReady, Apply, ~ ctx.done, Top(0) = APPLICATION
  PROVE  /\ Count \in Nat /\ Kept(F, Fun) /\ Kept(F, Arg1) /\ KeptSeq(F, Drop(Count + 3))
         /\ KeptSeq(F, Drop(2)) /\ KeptSeq(F, Args) /\ KeptSeq(F, ArgWords)
         /\ Len(ArgWords) = Count + 2 /\ Len(Args) = Count
  <1>1. KeptSeq(F, ctx.K) /\ Len(ctx.K) \in Nat BY ApplyFinds
  <1>2. Count \in Nat /\ Entries(ctx.K, Len(ctx.K), 3 + Count) BY CountIs
  <1>3. PICK m, n : m = Count /\ n = 3 + Count OBVIOUS
  <1>4. m \in Nat /\ Count = m /\ n = 3 + m /\ Entries(ctx.K, Len(ctx.K), n) BY <1>2, <1>3
  <1>5. /\ n \in 1 .. Len(ctx.K) - 1
        /\ \A k \in 0 .. n - 1 : Kept(F, Top(k))
        /\ \A k \in 0 .. n : KeptSeq(F, Drop(k))
    BY <1>4, Popped
  <1>6. m + 2 \in 0 .. n - 1 /\ m + 1 \in 0 .. n - 1 /\ m + 3 \in 0 .. n /\ 2 \in 0 .. n BY <1>4
  <1>7. Kept(F, Fun) /\ Kept(F, Arg1) /\ KeptSeq(F, Drop(Count + 3)) /\ KeptSeq(F, Drop(2))
    BY <1>4, <1>5, <1>6 DEF Fun, Arg1
  <1>8. PICK N : N = Len(ctx.K) OBVIOUS
  <1>9. N \in Nat /\ m \in Nat /\ m + 3 \in 1 .. N - 1 BY <1>1, <1>4, <1>5, <1>8
  <1>10. PICK S : ctx.K \in Seq(S) BY <1>1 DEF KeptSeq, IsSeq
  <1>11. \A k \in 1 .. N : ctx.K[k] \in S /\ Kept(F, ctx.K[k]) BY <1>1, <1>8, <1>10 DEF KeptSeq
  <1>12. ASSUME NEW b \in {N, N - 2}, NEW s, s = SubSeq(ctx.K, N - m - 1, b)
         PROVE  KeptSeq(F, s) /\ Len(s) = b - (N - m - 1) + 1
    <2>1. b \in 0 .. N /\ N - m - 1 \in 1 .. N /\ b - (N - m - 1) + 1 \in Nat BY <1>9, <1>12
    <2>2. PICK a : a = N - m - 1 OBVIOUS
    <2>3. PICK l : l = b - a + 1 OBVIOUS
    <2>4. /\ a \in 1 .. N /\ b \in 0 .. N /\ l \in Nat /\ l = b - a + 1 BY <2>1, <2>2, <2>3
    <2>5. s = SubSeq(ctx.K, a, b) BY <1>12, <2>2
    <2>6. s \in Seq(S) /\ Len(s) = l /\ \A k \in 1 .. l : s[k] = ctx.K[a + k - 1]
      BY <1>8, <1>9, <1>10, <2>4, <2>5
    <2>7. \A k \in 1 .. l : a + k - 1 \in 1 .. N BY <1>9, <2>4
    <2>8. \A k \in 1 .. l : Kept(F, s[k]) BY <1>11, <2>6, <2>7
    <2>9. KeptSeq(F, s) BY <2>4, <2>6, <2>8 DEF KeptSeq, IsSeq
    <2> QED BY <2>2, <2>3, <2>6, <2>9
  <1>13. KeptSeq(F, Args) /\ Len(Args) = Count
    <2>1. Args = SubSeq(ctx.K, N - m - 1, N - 2) BY <1>4, <1>8 DEF Args
    <2>2. KeptSeq(F, Args) /\ Len(Args) = (N - 2) - (N - m - 1) + 1 BY <1>12, <2>1
    <2>3. (N - 2) - (N - m - 1) + 1 = m BY <1>9
    <2> QED BY <1>4, <2>2, <2>3
  <1>14. KeptSeq(F, ArgWords) /\ Len(ArgWords) = Count + 2
    <2>1. ArgWords = SubSeq(ctx.K, N - m - 1, N) BY <1>4, <1>8 DEF ArgWords
    <2>2. KeptSeq(F, ArgWords) /\ Len(ArgWords) = N - (N - m - 1) + 1 BY <1>12, <2>1
    <2>3. N - (N - m - 1) + 1 = m + 2 BY <1>9
    <2> QED BY <1>4, <2>2, <2>3
  <1> QED BY <1>4, <1>7, <1>13, <1>14

(***************************************************************************)
(* dequeue_ctx, and the prologue of evaluation_step                        *)
(***************************************************************************)
LEMMA DequeueKeeps ==
  ASSUME NEW F, AllKept(F), Dequeue
  PROVE  Safe'
  <1>1. PICK k \in DOMAIN ctx_queue : ctx' = ctx_queue[k] /\ ctx_queue' = RemoveAt(ctx_queue, k)
    BY DEF Dequeue
  <1>2. IsSeq(ctx_queue) /\ \A j \in 1 .. Len(ctx_queue) : CtxKept(F, ctx_queue[j])
    BY DEF AllKept, QueueKept
  <1>3. PICK s : s = RemoveAt(ctx_queue, k) OBVIOUS
  <1>4. IsSeq(s) /\ \A j \in 1 .. Len(s) : \E i \in 1 .. Len(ctx_queue) : s[j] = ctx_queue[i]
    BY <1>2, <1>3, Removed
  <1>5. QueueKept(F, s) BY <1>2, <1>4 DEF QueueKept
  <1>6. k \in 1 .. Len(ctx_queue) BY <1>2 DEF IsSeq
  <1>7. CtxKept(F, ctx') BY <1>1, <1>2, <1>6
  <1>8. UNCHANGED <<heap, env_global, ctx_done>> /\ running' = TRUE BY DEF Dequeue
  <1>9. QueueKept(F, ctx_queue') BY <1>1, <1>3, <1>5
  <1>10. AllKept(F)' BY <1>7, <1>8, <1>9 DEF AllKept
  <1> QED BY <1>10 DEF Safe

LEMMA CtxRootsIn ==
  ASSUME NEW F, NEW c, CtxKept(F, c)
  PROVE  \A v \in ctx_roots(c) : InHeap(v)
  <1>1. \A v \in {c.curr_env, c.curr_exp, c.program, c.r} : InHeap(v) BY KeptIn DEF CtxKept
  <1>2. PICK k : k = c.K OBVIOUS
  <1>3. KeptSeq(F, k) BY <1>2 DEF CtxKept
  <1>4. DOMAIN k = 1 .. Len(k) BY <1>3 DEF KeptSeq, IsSeq
  <1>5. \A v \in Range(k) : InHeap(v) BY <1>3, <1>4, KeptIn DEF KeptSeq, Range
  <1> QED BY <1>1, <1>2, <1>5 DEF ctx_roots

\* The roots of a context are all it needs.
LEMMA RootsKept ==
  ASSUME NEW F, NEW E, NEW R, \A v \in R : Kept(F, v) => Kept(E, v), NEW c, CtxKept(F, c),
         ctx_roots(c) \subseteq R
  PROVE  CtxKept(E, c)
  <1>1. /\ c.curr_env \in R /\ c.curr_exp \in R /\ c.program \in R /\ c.r \in R
        /\ Range(c.K) \subseteq R
    BY DEF ctx_roots
  <1>2. PICK k : k = c.K OBVIOUS
  <1>3. KeptSeq(F, k) BY <1>2 DEF CtxKept
  <1>4. DOMAIN k = 1 .. Len(k) BY <1>3 DEF KeptSeq, IsSeq
  <1>5. \A j \in 1 .. Len(k) : k[j] \in R BY <1>1, <1>2, <1>4 DEF Range
  <1>6. KeptSeq(E, k) BY <1>3, <1>5 DEF KeptSeq
  <1> QED BY <1>1, <1>2, <1>6 DEF CtxKept

LEMMA CollectKeeps ==
  ASSUME NEW F, AllKept(F), Collect
  PROVE  Safe'
  <1>1. /\ running /\ heap' = gc(heap, gc_roots)
        /\ UNCHANGED <<env_global, ctx, running, ctx_queue, ctx_done>>
    BY DEF Collect, Stay, waiting
  <1>2. /\ Sound(heap, F) /\ Kept(F, env_global) /\ CtxKept(F, ctx)
        /\ QueueKept(F, ctx_queue) /\ ResultsKept(F, ctx_done)
    BY <1>1 DEF AllKept
  <1>3. PICK q, d : q = ctx_queue /\ d = ctx_done OBVIOUS
  <1>4. QueueKept(F, q) /\ ResultsKept(F, d) BY <1>2, <1>3
  <1>5. DOMAIN q = 1 .. Len(q) /\ DOMAIN d = 1 .. Len(d)
    BY <1>4 DEF QueueKept, ResultsKept, IsSeq
  <1>6. PICK R : R = gc_roots OBVIOUS
  <1> DEFINE Q == UNION {ctx_roots(c) : c \in Range(ctx_queue)}
             D == {c.r : c \in Range(ctx_done)}
  <1>8. R = {env_global} \cup ctx_roots(ctx) \cup D \cup Q
    <2>1. gc_roots = {env_global} \cup ctx_roots(ctx) \cup D \cup Q BY DEF gc_roots
    <2> QED BY <1>6, <2>1
  <1> HIDE DEF Q, D
  <1>9. \A v \in Q : InHeap(v)
    <2>1. \A c \in Range(q) : CtxKept(F, c) BY <1>4, <1>5 DEF QueueKept, Range
    <2> QED BY <1>3, <2>1, CtxRootsIn DEF Q
  <1>10. \A v \in R : InHeap(v)
    <2>1. \A c \in Range(d) : Kept(F, c.r) BY <1>4, <1>5 DEF ResultsKept, Range
    <2>2. \A v \in D : InHeap(v) BY <1>3, <2>1, KeptIn DEF D
    <2>3. InHeap(env_global) /\ \A v \in ctx_roots(ctx) : InHeap(v) BY <1>2, KeptIn, CtxRootsIn
    <2> QED BY <1>8, <1>9, <2>2, <2>3
  <1>11. PICK E : /\ Sound(gc(heap, R), E)
                  /\ \A v \in R : Kept(F, v) => Kept(E, v)
    BY <1>2, <1>10, GcKeeps
  <1>12. Kept(E, env_global) BY <1>2, <1>8, <1>11
  <1>13. CtxKept(E, ctx)
    <2>1. ctx_roots(ctx) \subseteq R BY <1>8
    <2> QED BY <1>2, <1>11, <2>1, RootsKept
  <1>14. QueueKept(E, q)
    <2>1. ASSUME NEW k \in 1 .. Len(q) PROVE CtxKept(E, q[k])
      <3>1. PICK c : c = q[k] OBVIOUS
      <3>2. c \in Range(q) /\ CtxKept(F, c) BY <1>4, <1>5, <3>1 DEF QueueKept, Range
      <3>3. ctx_roots(c) \subseteq R BY <1>3, <1>8, <3>2 DEF Q
      <3> QED BY <1>11, <3>1, <3>2, <3>3, RootsKept
    <2> QED BY <1>4, <2>1 DEF QueueKept
  <1>15. ResultsKept(E, d)
    <2>1. ASSUME NEW k \in 1 .. Len(d) PROVE Kept(E, d[k].r)
      <3>1. PICK c : c = d[k] OBVIOUS
      <3>2. c \in Range(d) /\ Kept(F, c.r) BY <1>4, <1>5, <3>1 DEF ResultsKept, Range
      <3>3. c.r \in D BY <1>3, <3>2 DEF D
      <3>4. c.r \in R BY <1>8, <3>3
      <3> QED BY <1>11, <3>1, <3>2, <3>4
    <2> QED BY <1>4, <2>1 DEF ResultsKept
  <1>16. AllKept(E)'
    <2>1. Sound(heap', E) BY <1>1, <1>6, <1>11
    <2>2. QueueKept(E, ctx_queue') /\ ResultsKept(E, ctx_done') BY <1>1, <1>3, <1>14, <1>15
    <2> QED BY <1>1, <1>12, <1>13, <2>1, <2>2 DEF AllKept
  <1> QED BY <1>16 DEF Safe

LEMMA OutOfMemoryKeeps ==
  ASSUME NEW F, AllKept(F), OutOfMemory
  PROVE  Safe'
  <1>1. StepKeeps(F) BY Unmoved DEF OutOfMemory
  <1>2. error_ctx(MERROR, ctx.K) BY DEF OutOfMemory
  <1> QED BY <1>1, <1>2, PlainKept, ErrorKeeps

(***************************************************************************)
(* evaluation_step                                                         *)
(***************************************************************************)
LEMMA EvalAtomKeeps ==
  ASSUME NEW F, AllKept(F), EvalSymbol \/ EvalSelf \/ EvalQuote
  PROVE  Safe'
  <1>1. Eval /\ UNCHANGED <<heap, env_global>> BY DEF EvalSymbol, EvalSelf, EvalQuote, Form
  <1>2. /\ running /\ Sound(heap, F) /\ Kept(F, env_global)
        /\ Kept(F, ctx.curr_env) /\ Kept(F, ctx.curr_exp) /\ KeptSeq(F, ctx.K)
        /\ \A n \in Nat : Kept(F, nth(ctx.curr_exp, n))
    BY <1>1, EvalFinds
  <1>3. StepKeeps(F) BY <1>1, <1>2, Unmoved
  <1>4. CASE EvalSymbol
    <2>1. PICK a, b : /\ a = env_lookup(heap, ctx.curr_exp, ctx.curr_env)
                      /\ b = env_lookup(heap, ctx.curr_exp, env_global)
      OBVIOUS
    <2>2. Kept(F, a) /\ Kept(F, b) BY <1>2, <2>1, LookupKept
    <2>3. Return(ctx.curr_exp, ctx.K) \/ Return(a, ctx.K) \/ Return(b, ctx.K)
      BY <1>4, <2>1 DEF EvalSymbol
    <2> QED BY <1>2, <1>3, <2>2, <2>3, ReturnKeeps
  <1>5. CASE EvalSelf
    <2>1. Return(ctx.curr_exp, ctx.K) BY <1>5 DEF EvalSelf
    <2> QED BY <1>2, <1>3, <2>1, ReturnKeeps
  <1>6. CASE EvalQuote
    <2>1. Return(nth(ctx.curr_exp, 1), ctx.K) BY <1>6 DEF EvalQuote
    <2> QED BY <1>2, <1>3, <2>1, ReturnKeeps
  <1> QED BY <1>4, <1>5, <1>6

LEMMA EvalDefineKeeps ==
  ASSUME NEW F, AllKept(F), EvalDefine
  PROVE  Safe'
  <1>1. Eval /\ UNCHANGED <<heap, env_global>> BY DEF EvalDefine, Form
  <1>2. /\ running /\ Kept(F, ctx.curr_env) /\ KeptSeq(F, ctx.K)
        /\ \A n \in Nat : Kept(F, nth(ctx.curr_exp, n))
    BY <1>1, EvalFinds
  <1>3. StepKeeps(F) BY <1>1, <1>2, Unmoved
  <1>4. PICK key, e, vals : /\ key = nth(ctx.curr_exp, 1) /\ e = nth(ctx.curr_exp, 2)
                            /\ vals = <<key, SET_GLOBAL_ENV>>
    OBVIOUS
  <1>5. Kept(F, key) /\ Kept(F, e) BY <1>2, <1>4
  <1>6. KeptSeq(F, vals) BY <1>4, <1>5, PlainKept, TwoKept
  <1>7. error_ctx(EERROR, ctx.K) \/ FOF(ctx.K, vals, Go(e, ctx.curr_env, ctx.K \o vals))
    BY <1>4 DEF EvalDefine, PushGo
  <1>8. CASE error_ctx(EERROR, ctx.K) BY <1>3, <1>8, PlainKept, ErrorKeeps
  <1>9. CASE FOF(ctx.K, vals, Go(e, ctx.curr_env, ctx.K \o vals))
    BY <1>2, <1>3, <1>5, <1>6, <1>9, FofKeeps
  <1> QED BY <1>7, <1>8, <1>9

LEMMA EvalPrognKeeps ==
  ASSUME NEW F, AllKept(F), EvalProgn
  PROVE  Safe'
  <1>1. Eval /\ UNCHANGED <<heap, env_global>> BY DEF EvalProgn, Form
  <1>2. /\ running /\ Sound(heap, F) /\ Kept(F, ctx.curr_env) /\ KeptSeq(F, ctx.K)
        /\ \A n \in Nat : Kept(F, nthcdr(ctx.curr_exp, n))
    BY <1>1, EvalFinds
  <1>3. StepKeeps(F) BY <1>1, <1>2, Unmoved
  <1>4. PICK exps : exps = nthcdr(ctx.curr_exp, 1) OBVIOUS
  <1>5. PICK e, rest, vals : /\ e = car(heap, exps) /\ rest = cdr(heap, exps)
                             /\ vals = <<ctx.curr_env, rest, PROGN_REST>>
    OBVIOUS
  <1>6. Kept(F, exps) BY <1>2, <1>4
  <1>7. Kept(F, e) /\ Kept(F, rest) BY <1>2, <1>5, <1>6, CarKept
  <1>8. KeptSeq(F, vals) BY <1>2, <1>5, <1>7, PlainKept, ThreeKept
  <1>9. \/ Return(NIL, ctx.K) \/ error_ctx(exps, ctx.K)
        \/ FOF(ctx.K, vals, Go(e, ctx.curr_env, ctx.K \o vals))
    BY <1>4, <1>5 DEF EvalProgn, PushGo
  <1>10. CASE Return(NIL, ctx.K) BY <1>2, <1>3, <1>10, PlainKept, ReturnKeeps
  <1>11. CASE error_ctx(exps, ctx.K) BY <1>3, <1>6, <1>11, ErrorKeeps
  <1>12. CASE FOF(ctx.K, vals, Go(e, ctx.curr_env, ctx.K \o vals))
    BY <1>2, <1>3, <1>7, <1>8, <1>12, FofKeeps
  <1> QED BY <1>9, <1>10, <1>11, <1>12

LEMMA EvalSpawnKeeps ==
  ASSUME NEW F, AllKept(F), EvalSpawn
  PROVE  Safe'
  <1>1. Eval /\ UNCHANGED <<heap, env_global>> BY DEF EvalSpawn, Form
  <1>2. /\ running /\ Kept(F, ctx.curr_env) /\ KeptSeq(F, ctx.K)
        /\ \A n \in Nat : Kept(F, nthcdr(ctx.curr_exp, n))
    BY <1>1, EvalFinds
  <1>3. StepKeeps(F) BY <1>1, <1>2, Unmoved
  <1>4. PICK prgs : prgs = nthcdr(ctx.curr_exp, 1) OBVIOUS
  <1>5. PICK all : all = <<ctx.curr_env, prgs, SPAWN_ALL>> OBVIOUS
  <1>6. PICK l : l = ctx.K \o all OBVIOUS
  <1>7. Kept(F, prgs) BY <1>2, <1>4
  <1>8. KeptSeq(F, all) BY <1>2, <1>5, <1>7, PlainKept, ThreeKept
  <1>9. KeptSeq(F, l) BY <1>2, <1>6, <1>8, JoinKept
  <1>10. Return(NIL, ctx.K) \/ FOF(ctx.K, all, Return(NIL, l))
    BY <1>4, <1>5, <1>6 DEF EvalSpawn
  <1>11. CASE Return(NIL, ctx.K) BY <1>2, <1>3, <1>11, PlainKept, ReturnKeeps
  <1>12. CASE Return(NIL, l) BY <1>3, <1>9, <1>12, PlainKept, ReturnKeeps
  <1>13. CASE finish_ctx([ctx EXCEPT !.r = FATAL_ERROR, !.done = TRUE, !.K = Pushed(ctx.K, all)])
    BY <1>3, <1>13, FailKeeps
  <1> QED BY <1>10, <1>11, <1>12, <1>13 DEF FOF

LEMMA EvalIfKeeps ==
  ASSUME NEW F, AllKept(F), EvalIf
  PROVE  Safe'
  <1>1. Eval /\ UNCHANGED <<heap, env_global>> BY DEF EvalIf, Form
  <1>2. /\ running /\ Kept(F, ctx.curr_env) /\ KeptSeq(F, ctx.K)
        /\ \A n \in Nat : Kept(F, nth(ctx.curr_exp, n))
    BY <1>1, EvalFinds
  <1>3. StepKeeps(F) BY <1>1, <1>2, Unmoved
  <1>4. PICK a, b, e : /\ a = nth(ctx.curr_exp, 3) /\ b = nth(ctx.curr_exp, 2)
                       /\ e = nth(ctx.curr_exp, 1)
    OBVIOUS
  <1>5. PICK vals : vals = <<a, b, IF_>> OBVIOUS
  <1>6. Kept(F, a) /\ Kept(F, b) /\ Kept(F, e) BY <1>2, <1>4
  <1>7. KeptSeq(F, vals) BY <1>5, <1>6, PlainKept, ThreeKept
  <1>8. FOF(ctx.K, vals, Go(e, ctx.curr_env, ctx.K \o vals)) BY <1>4, <1>5 DEF EvalIf, PushGo
  <1> QED BY <1>2, <1>3, <1>6, <1>7, <1>8, FofKeeps

LEMMA EvalApplicationKeeps ==
  ASSUME NEW F, AllKept(F), EvalApplication
  PROVE  Safe'
  <1>1. Eval /\ UNCHANGED <<heap, env_global>> BY DEF EvalApplication
  <1>2. /\ running /\ Sound(heap, F) /\ Kept(F, ctx.curr_env) /\ Kept(F, ctx.curr_exp)
        /\ KeptSeq(F, ctx.K) /\ \A n \in Nat : Kept(F, nth(ctx.curr_exp, n))
    BY <1>1, EvalFinds
  <1>3. StepKeeps(F) BY <1>1, <1>2, Unmoved
  <1>4. PICK e, rest, zero : /\ e = nth(ctx.curr_exp, 0) /\ rest = cdr(heap, ctx.curr_exp)
                             /\ zero = enc_u(0)
    OBVIOUS
  <1>5. PICK vals : vals = <<ctx.curr_env, zero, rest, APPLICATION_ARGS>> OBVIOUS
  <1>6. Kept(F, e) /\ Kept(F, rest) /\ Kept(F, zero) BY <1>2, <1>4, CarKept, PlainKept
  <1>7. KeptSeq(F, vals) BY <1>2, <1>5, <1>6, PlainKept, FourKept
  <1>8. FOF(ctx.K, vals, Go(e, ctx.curr_env, ctx.K \o vals))
    BY <1>4, <1>5 DEF EvalApplication, PushGo
  <1> QED BY <1>2, <1>3, <1>6, <1>7, <1>8, FofKeeps

\* Cells that a step takes one after the other.
LEMMA ConsOn ==
  ASSUME NEW F, NEW s, Leaves(s, F), NEW v, Kept(F, v)
  PROVE  Leaves(cons_result(s.h, v, s.v), F) /\ Leaves(cons_result(s.h, s.v, v), F)
  <1>1. PICK E : E \subseteq F /\ Sound(s.h, E) /\ Kept(E, s.v) BY DEF Leaves
  <1>2. Kept(E, v) BY <1>1, KeptMore
  <1>3. Leaves(cons_result(s.h, v, s.v), E) /\ Leaves(cons_result(s.h, s.v, v), E)
    BY <1>1, <1>2, ConsLeaves
  <1> QED BY <1>1, <1>3, LeavesMore

\* An operation on the heap has been done.
LEMMA LeavesStep ==
  ASSUME NEW F, AllKept(F), running, NEW res, Leaves(res, F), heap' = res.h,
         UNCHANGED env_global
  PROVE  \E E : E \subseteq F /\ StepKeeps(E) /\ Kept(E, res.v)
  <1>1. PICK E : E \subseteq F /\ Sound(res.h, E) /\ Kept(E, res.v) BY DEF Leaves
  <1>2. Kept(E, env_global') BY <1>1, KeptMore DEF AllKept
  <1>3. StepKeeps(E) BY <1>1, <1>2, Moved
  <1> QED BY <1>1, <1>3

LEMMA EvalLambdaKeeps ==
  ASSUME NEW F, AllKept(F), EvalLambda
  PROVE  Safe'
  <1>1. Eval /\ UNCHANGED env_global BY DEF EvalLambda, Form
  <1>2. /\ running /\ Sound(heap, F) /\ Kept(F, ctx.curr_env) /\ KeptSeq(F, ctx.K)
        /\ \A n \in Nat : Kept(F, nth(ctx.curr_exp, n))
    BY <1>1, EvalFinds
  <1>3. PICK cpy : cpy = env_copy_shallow(heap, ctx.curr_env) OBVIOUS
  <1>4. PICK end : end = cons_result(cpy.h, cpy.v, NIL) OBVIOUS
  <1>5. PICK b, p : b = nth(ctx.curr_exp, 2) /\ p = nth(ctx.curr_exp, 1) OBVIOUS
  <1>6. PICK body : body = cons_result(end.h, b, end.v) OBVIOUS
  <1>7. PICK params : params = cons_result(body.h, p, body.v) OBVIOUS
  <1>8. PICK closure : closure = cons_result(params.h, sym("closure"), params.v) OBVIOUS
  <1>9. Kept(F, b) /\ Kept(F, p) /\ Kept(F, NIL) /\ Kept(F, sym("closure")) BY <1>2, <1>5, KeptSym
  <1>10. Leaves(cpy, F) BY <1>2, <1>3, CopyLeaves
  <1>11. Leaves(end, F) BY <1>4, <1>9, <1>10, ConsOn
  <1>12. Leaves(body, F) BY <1>6, <1>9, <1>11, ConsOn
  <1>13. Leaves(params, F) BY <1>7, <1>9, <1>12, ConsOn
  <1>14. Leaves(closure, F) BY <1>8, <1>9, <1>13, ConsOn
  <1>15. heap' = closure.h /\ (Return(closure.v, ctx.K) \/ Stay)
    BY <1>3, <1>4, <1>5, <1>6, <1>7, <1>8, Zenon DEF EvalLambda
  <1>16. PICK E : E \subseteq F /\ StepKeeps(E) /\ Kept(E, closure.v)
    BY <1>1, <1>2, <1>14, <1>15, LeavesStep
  <1>17. KeptSeq(E, ctx.K) BY <1>2, <1>16, KeptSeqMore
  <1> QED BY <1>15, <1>16, <1>17, ReturnKeeps, StayKeeps

LEMMA PreallocateLeaves ==
  ASSUME NEW h, NEW F, Sound(h, F), NEW binds, Kept(F, binds), NEW env, Kept(F, env)
  PROVE  Leaves(preallocate(h, binds, env), F)
  <1>1. PICK as : as = elements(h, binds) OBVIOUS
  <1>2. KeptSeq(F, as) BY <1>1, ElementsKept
  <1>3. PICK n : n = Len(as) OBVIOUS
  <1>4. n \in Nat /\ \A k \in 1 .. n : Kept(F, as[k]) BY <1>2, <1>3 DEF KeptSeq
  <1>5. PICK keys : keys = [k \in 1 .. n |-> car(h, as[k])] OBVIOUS
  <1>6. PICK nils : nils = [k \in 1 .. n |-> NIL] OBVIOUS
  <1>7. IsSeq(keys) /\ Len(keys) = n BY <1>4, <1>5, MadeSeq
  <1>8. IsSeq(nils) /\ Len(nils) = n BY <1>4, <1>6, MadeSeq
  <1>9. \A k \in 1 .. n : Kept(F, car(h, as[k])) BY <1>4, CarKept
  <1>10. KeptSeq(F, keys) BY <1>4, <1>5, <1>7, <1>9 DEF KeptSeq
  <1>11. KeptSeq(F, nils) BY <1>4, <1>6, <1>8, KeptSym DEF KeptSeq
  <1>12. Leaves(bind_each(h, keys, nils, env), F) BY <1>7, <1>8, <1>10, <1>11, BindEachLeaves
  <1>13. preallocate(h, binds, env) = bind_each(h, keys, nils, env)
    BY <1>1, <1>3, <1>5, <1>6 DEF preallocate
  <1> QED BY <1>12, <1>13

LEMMA EvalLetKeeps ==
  ASSUME NEW F, AllKept(F), EvalLet
  PROVE  Safe'
  <1>1. Eval /\ UNCHANGED env_global BY DEF EvalLet, Form
  <1>2. /\ running /\ Sound(heap, F) /\ Kept(F, ctx.curr_env) /\ KeptSeq(F, ctx.K)
        /\ \A n \in Nat : Kept(F, nth(ctx.curr_exp, n))
    BY <1>1, EvalFinds
  <1>3. PICK binds, e : binds = nth(ctx.curr_exp, 1) /\ e = nth(ctx.curr_exp, 2) OBVIOUS
  <1>4. PICK new_env : new_env = preallocate(heap, binds, ctx.curr_env) OBVIOUS
  <1>5. PICK bind0 : bind0 = nth(binds, 0) OBVIOUS
  <1>6. PICK rest, key, val : rest = cdr(heap, binds) /\ key = car(heap, bind0) /\ val = nth(bind0, 1)
    OBVIOUS
  <1>7. Kept(F, binds) /\ Kept(F, e) BY <1>2, <1>3
  <1>8. Kept(F, bind0) /\ Kept(F, rest)
    <2>1. 0 \in Nat OBVIOUS
    <2> QED BY <1>2, <1>5, <1>6, <1>7, <2>1, NthKept, CarKept
  <1>9. Kept(F, key) /\ Kept(F, val)
    <2>1. 1 \in Nat OBVIOUS
    <2> QED BY <1>2, <1>6, <1>8, <2>1, NthKept, CarKept
  <1>10. Leaves(new_env, F) BY <1>2, <1>4, <1>7, PreallocateLeaves
  <1>11. PICK vals : vals = <<e, rest, new_env.v, key, BIND_TO_KEY_REST>> OBVIOUS
  <1>12. \/ Go(e, ctx.curr_env, ctx.K) /\ UNCHANGED heap
         \/ heap' = new_env.h /\ Stay
         \/ heap' = new_env.h /\ FOF(ctx.K, vals, Go(val, new_env.v, ctx.K \o vals))
    BY <1>3, <1>4, <1>5, <1>6, <1>11 DEF EvalLet, PushGo
  <1>13. CASE Go(e, ctx.curr_env, ctx.K) /\ UNCHANGED heap
    <2>1. StepKeeps(F) BY <1>1, <1>2, <1>13, Unmoved
    <2> QED BY <1>2, <1>7, <1>13, <2>1, GoKeeps
  <1>14. ASSUME heap' = new_env.h,
                Stay \/ FOF(ctx.K, vals, Go(val, new_env.v, ctx.K \o vals))
         PROVE  Safe'
    <2>1. PICK E : E \subseteq F /\ StepKeeps(E) /\ Kept(E, new_env.v)
      BY <1>1, <1>2, <1>10, <1>14, LeavesStep
    <2>2. KeptSeq(E, ctx.K) /\ Kept(E, e) /\ Kept(E, rest) /\ Kept(E, key) /\ Kept(E, val)
      BY <1>2, <1>7, <1>8, <1>9, <2>1, KeptSeqMore, KeptMore
    <2>3. KeptSeq(E, vals) BY <1>11, <2>1, <2>2, PlainKept, FiveKept
    <2>4. CASE Stay BY <2>1, <2>4, StayKeeps
    <2>5. CASE FOF(ctx.K, vals, Go(val, new_env.v, ctx.K \o vals))
      BY <2>1, <2>2, <2>3, <2>5, FofKeeps
    <2> QED BY <1>14, <2>4, <2>5
  <1> QED BY <1>12, <1>13, <1>14

(***************************************************************************)
(* apply_continuation                                                      *)
(***************************************************************************)
LEMMA ContDoneKeeps ==
  ASSUME NEW F, AllKept(F), AllReady, ~ ctx.done, ContDone
  PROVE  Safe'
  <1>0. Cont(DONE) /\ UNCHANGED <<heap, env_global>> BY DEF ContDone
  <1>1. Apply /\ Top(0) = DONE /\ UNCHANGED <<heap, env_global>> BY <1>0, Dispatched DEF Tags
  <1>2. /\ running /\ Sound(heap, F) /\ CtxKept(F, ctx) /\ Kept(F, ctx.program) /\ Kept(F, ctx.r)
        /\ KeptSeq(F, ctx.K) /\ Len(ctx.K) \in Nat /\ Len(ctx.K) > 0
    BY <1>1, ApplyFinds
  <1>3. StepKeeps(F) BY <1>1, <1>2, Unmoved
  <1>4. PICK k : k = Drop(1) OBVIOUS
  <1>5. KeptSeq(F, k)
    <2>1. Len(ctx.K) - 1 \in 0 .. Len(ctx.K) BY <1>2
    <2> QED BY <1>2, <1>4, <2>1, CutKept DEF Drop
  <1>6. CASE type_of(ctx.program) # "CONS"
    <2>1. PICK c : c = [ctx EXCEPT !.K = k, !.done = TRUE, !.app_cont = FALSE] OBVIOUS
    <2>2. c.r = ctx.r BY <1>2, <2>1 DEF CtxKept
    <2>3. finish_ctx(c) BY <1>4, <1>6, <2>1 DEF ContDone
    <2> QED BY <1>2, <1>3, <2>2, <2>3, FinishKeeps
  <1>7. CASE type_of(ctx.program) = "CONS"
    <2>1. PICK l, e, p : l = k \o <<DONE>> /\ e = car(heap, ctx.program) /\ p = cdr(heap, ctx.program)
      OBVIOUS
    <2>2. KeptSeq(F, l)
      <3>1. KeptSeq(F, <<DONE>>) BY PlainKept, OneKept
      <3> QED BY <1>5, <2>1, <3>1, JoinKept
    <2>3. Kept(F, e) /\ Kept(F, p) BY <1>2, <2>1, CarKept
    <2>4. /\ ctx' = [ctx EXCEPT !.K = l, !.curr_exp = e, !.program = p, !.r = NIL, !.app_cont = FALSE]
          /\ UNCHANGED <<running, waiting>>
      BY <1>4, <1>7, <2>1 DEF ContDone
    <2>5. CtxKept(F, ctx') BY <1>2, <2>2, <2>3, <2>4, KeptSym DEF CtxKept
    <2> QED BY <1>3, <2>4, <2>5, CtxKeeps
  <1> QED BY <1>6, <1>7

LEMMA ContSetGlobalEnvKeeps ==
  ASSUME NEW F, AllKept(F), AllReady, ~ ctx.done, ContSetGlobalEnv
  PROVE  Safe'
  <1>0. Cont(SET_GLOBAL_ENV) BY DEF ContSetGlobalEnv
  <1>1. Apply /\ Top(0) = SET_GLOBAL_ENV BY <1>0, Dispatched DEF Tags
  <1>2. /\ running /\ Sound(heap, F) /\ Kept(F, env_global) /\ Kept(F, ctx.r)
        /\ CtxKept(F, ctx)
    BY <1>1, ApplyFinds
  <1>3. PICK key, k : key = Top(1) /\ k = Drop(2) OBVIOUS
  <1>4. Kept(F, key) /\ KeptSeq(F, k) BY <1>1, <1>3, Popped2
  <1>5. PICK new_env : new_env = env_set(heap, env_global, key, ctx.r) OBVIOUS
  <1>6. Leaves(new_env, F) BY <1>2, <1>4, <1>5, EnvSetLeaves
  <1>7. PICK E : E \subseteq F /\ Sound(new_env.h, E) /\ Kept(E, new_env.v) BY <1>6 DEF Leaves
  <1>8. heap' = new_env.h BY <1>3, <1>5 DEF ContSetGlobalEnv
  <1>9. Kept(E, env_global) /\ Kept(E, key) /\ KeptSeq(E, k) /\ Kept(E, ctx.r)
    BY <1>2, <1>4, <1>7, KeptMore, KeptSeqMore
  <1>10. CASE new_env.v = MERROR
    <2>1. PICK again, l : again = <<key, SET_GLOBAL_ENV>> /\ l = k \o again OBVIOUS
    <2>2. KeptSeq(E, again) BY <1>9, <2>1, PlainKept, TwoKept
    <2>3. KeptSeq(E, l) BY <1>9, <2>1, <2>2, JoinKept
    <2>4. /\ ctx' = [ctx EXCEPT !.r = ctx.r, !.K = Drop(2) \o <<Top(1), SET_GLOBAL_ENV>>,
                                !.app_cont = ~ ctx.done]
          /\ UNCHANGED <<running, waiting, env_global>>
      BY <1>3, <1>5, <1>10 DEF ContSetGlobalEnv, MERROR, FATAL_ERROR, sym
    <2>5. ctx' = [ctx EXCEPT !.r = ctx.r, !.K = l, !.app_cont = TRUE]
      <3>1. Drop(2) \o <<Top(1), SET_GLOBAL_ENV>> = l BY <1>3, <2>1, Zenon
      <3> QED BY <2>4, <3>1
    <2>6. Return(ctx.r, l) BY <2>4, <2>5 DEF Return
    <2>7. StepKeeps(E) BY <1>2, <1>7, <1>8, <1>9, <2>4, Moved
    <2> QED BY <1>9, <2>3, <2>6, <2>7, ReturnKeeps
  <1>11. CASE new_env.v # MERROR /\ new_env.v = FATAL_ERROR
    <2>1. PICK c : c = [ctx EXCEPT !.r = FATAL_ERROR, !.K = k, !.app_cont = TRUE] OBVIOUS
    <2>2. c.r = FATAL_ERROR BY <1>2, <2>1 DEF CtxKept
    <2>3. finish_ctx(c) /\ UNCHANGED env_global
      BY <1>3, <1>5, <1>11, <2>1 DEF ContSetGlobalEnv
    <2>4. StepKeeps(E) BY <1>2, <1>7, <1>8, <1>9, <2>3, Moved
    <2> QED BY <2>2, <2>3, <2>4, PlainKept, FinishKeeps
  <1>12. CASE new_env.v # MERROR /\ new_env.v # FATAL_ERROR
    <2>1. /\ ctx' = [ctx EXCEPT !.r = key, !.K = k, !.app_cont = TRUE]
          /\ UNCHANGED <<running, waiting>> /\ env_global' = new_env.v
      BY <1>3, <1>5, <1>12 DEF ContSetGlobalEnv
    <2>2. Return(key, k) BY <2>1 DEF Return
    <2>3. StepKeeps(E) BY <1>2, <1>7, <1>8, <1>9, <2>1, Moved
    <2> QED BY <1>9, <2>2, <2>3, ReturnKeeps
  <1> QED BY <1>10, <1>11, <1>12

LEMMA ContPrognRestKeeps ==
  ASSUME NEW F, AllKept(F), AllReady, ~ ctx.done, ContPrognRest
  PROVE  Safe'
  <1>0. Cont(PROGN_REST) /\ UNCHANGED <<heap, env_global>> BY DEF ContPrognRest
  <1>1. Apply /\ Top(0) = PROGN_REST /\ UNCHANGED <<heap, env_global>> BY <1>0, Dispatched DEF Tags
  <1>2. /\ running /\ Sound(heap, F) /\ Kept(F, ctx.r) /\ Kept(F, ctx.curr_env)
        /\ ctx.stack_size \in StackSizes
    BY <1>1, ApplyFinds
  <1>3. StepKeeps(F) BY <1>1, <1>2, Unmoved
  <1>4. PICK rest, env, k : rest = Top(1) /\ env = Top(2) /\ k = Drop(3) OBVIOUS
  <1>5. Kept(F, rest) /\ Kept(F, env) /\ KeptSeq(F, k) BY <1>1, <1>4, Popped3
  <1>6. PICK e, more : e = car(heap, rest) /\ more = cdr(heap, rest) OBVIOUS
  <1>7. Kept(F, e) /\ Kept(F, more) BY <1>2, <1>5, <1>6, CarKept
  <1>8. PICK again : again = <<env, more, PROGN_REST>> OBVIOUS
  <1>9. KeptSeq(F, again) BY <1>5, <1>7, <1>8, PlainKept, ThreeKept
  <1>10. \/ Return(ctx.r, k) \/ error_ctx(rest, k) \/ Go(e, ctx.curr_env, k)
         \/ FATAL_ON_FAIL(k, again, Go(e, env, k \o again))
    BY <1>4, <1>6, <1>8 DEF ContPrognRest
  <1>11. CASE Return(ctx.r, k) BY <1>2, <1>3, <1>5, <1>11, ReturnKeeps
  <1>12. CASE error_ctx(rest, k) BY <1>3, <1>5, <1>12, ErrorKeeps
  <1>13. CASE Go(e, ctx.curr_env, k) BY <1>2, <1>3, <1>5, <1>7, <1>13, GoKeeps
  <1>14. CASE FATAL_ON_FAIL(k, again, Go(e, env, k \o again))
    BY <1>2, <1>3, <1>5, <1>7, <1>9, <1>14, FatalKeeps
  <1> QED BY <1>10, <1>11, <1>12, <1>13, <1>14

LEMMA ShortCircuitKeeps ==
  ASSUME NEW F, StepKeeps(F), Sound(heap, F), ctx.stack_size \in StackSizes,
         NEW tag \in {AND, OR}, NEW decided, NEW value, Kept(F, value), NEW rest, Kept(F, rest),
         NEW env, Kept(F, env), NEW k, KeptSeq(F, k),
         ShortCircuit(tag, decided, value, rest, env, k)
  PROVE  Safe'
  <1>1. PICK e, more : e = car(heap, rest) /\ more = cdr(heap, rest) OBVIOUS
  <1>2. Kept(F, e) /\ Kept(F, more) BY <1>1, CarKept
  <1>3. PICK again : again = <<env, more, tag>> OBVIOUS
  <1>4. Kept(F, tag) BY PlainKept
  <1>5. KeptSeq(F, again) BY <1>2, <1>3, <1>4, ThreeKept
  <1>6. Return(value, k) \/ FATAL_ON_FAIL(k, again, Go(e, env, k \o again))
    BY <1>1, <1>3 DEF ShortCircuit
  <1>7. CASE Return(value, k) BY <1>7, ReturnKeeps
  <1>8. CASE FATAL_ON_FAIL(k, again, Go(e, env, k \o again)) BY <1>2, <1>5, <1>8, FatalKeeps
  <1> QED BY <1>6, <1>7, <1>8

LEMMA JunctionKeeps ==
  ASSUME NEW F, AllKept(F), AllReady, ~ ctx.done, ContAnd \/ ContOr
  PROVE  Safe'
  <1>0. (Cont(AND) \/ Cont(OR)) /\ UNCHANGED <<heap, env_global>> BY DEF ContAnd, ContOr
  <1>1. Apply /\ Top(0) \in {AND, OR} /\ UNCHANGED <<heap, env_global>>
    BY <1>0, Dispatched DEF Tags
  <1>2. running /\ Sound(heap, F) /\ Kept(F, ctx.r) /\ ctx.stack_size \in StackSizes
    BY <1>1, ApplyFinds
  <1>3. StepKeeps(F) BY <1>1, <1>2, Unmoved
  <1>4. PICK rest, env, k : rest = Top(1) /\ env = Top(2) /\ k = Drop(3) OBVIOUS
  <1>5. Kept(F, rest) /\ Kept(F, env) /\ KeptSeq(F, k) BY <1>1, <1>4, Popped3
  <1>7. \/ ShortCircuit(AND, ctx.r = NIL, ctx.r, rest, env, k)
        \/ ShortCircuit(OR, ctx.r # NIL, ctx.r, rest, env, k)
    BY <1>4 DEF ContAnd, ContOr
  <1>8. CASE ShortCircuit(AND, ctx.r = NIL, ctx.r, rest, env, k)
    <2>1. PICK y \in BOOLEAN : y <=> (ctx.r = NIL) OBVIOUS
    <2>2. ShortCircuit(AND, y, ctx.r, rest, env, k) BY <1>8, <2>1 DEF ShortCircuit
    <2> QED BY <1>2, <1>3, <1>5, <2>2, ShortCircuitKeeps
  <1>9. CASE ShortCircuit(OR, ctx.r # NIL, ctx.r, rest, env, k)
    <2>1. PICK y \in BOOLEAN : y <=> (ctx.r # NIL) OBVIOUS
    <2>2. ShortCircuit(OR, y, ctx.r, rest, env, k) BY <1>9, <2>1 DEF ShortCircuit
    <2> QED BY <1>2, <1>3, <1>5, <2>2, ShortCircuitKeeps
  <1> QED BY <1>7, <1>8, <1>9

LEMMA ContIfKeeps ==
  ASSUME NEW F, AllKept(F), AllReady, ~ ctx.done, ContIf
  PROVE  Safe'
  <1>0. Cont(IF_) /\ UNCHANGED <<heap, env_global>> BY DEF ContIf
  <1>1. Apply /\ Top(0) = IF_ /\ UNCHANGED <<heap, env_global>> BY <1>0, Dispatched DEF Tags
  <1>2. running /\ Kept(F, ctx.curr_env) BY <1>1, ApplyFinds
  <1>3. StepKeeps(F) BY <1>1, <1>2, Unmoved
  <1>4. PICK a, b, k : a = Top(1) /\ b = Top(2) /\ k = Drop(3) OBVIOUS
  <1>5. Kept(F, a) /\ Kept(F, b) /\ KeptSeq(F, k) BY <1>1, <1>4, Popped3
  <1>6. Go(a, ctx.curr_env, k) \/ Go(b, ctx.curr_env, k) BY <1>4 DEF ContIf
  <1> QED BY <1>2, <1>3, <1>5, <1>6, GoKeeps

LEMMA ContUnknownKeeps ==
  ASSUME NEW F, AllKept(F), ContUnknown
  PROVE  Safe'
  <1>1. running /\ UNCHANGED <<heap, env_global>> BY DEF ContUnknown, Apply
  <1>2. StepKeeps(F) BY <1>1, Unmoved
  <1>3. error_ctx(EERROR, Drop(1)) BY DEF ContUnknown
  <1> QED BY <1>2, <1>3, PlainKept, ErrorKeeps

\* Going to sleep.
LEMMA SleepKeeps ==
  ASSUME NEW E, StepKeeps(E), NEW cid, NEW k, KeptSeq(E, k), Sleep(cid, k)
  PROVE  Safe'
  <1>1. PICK wait : wait = <<enc_u(cid), WAIT>> OBVIOUS
  <1>2. KeptSeq(E, wait) BY <1>1, PlainKept, TwoKept
  <1>3. PICK l : l = k \o wait OBVIOUS
  <1>4. KeptSeq(E, l) BY <1>2, <1>3, JoinKept
  <1>5. FOF(k, wait, yield_ctx([ctx EXCEPT !.K = l], 50000)) BY <1>1, <1>3 DEF Sleep
  <1>6. CASE yield_ctx([ctx EXCEPT !.K = l], 50000) BY <1>4, <1>6, YieldKeeps
  <1>7. CASE finish_ctx([ctx EXCEPT !.r = FATAL_ERROR, !.done = TRUE, !.K = Pushed(k, wait)])
    BY <1>7, FailKeeps
  <1> QED BY <1>5, <1>6, <1>7 DEF FOF

LEMMA ContWaitKeeps ==
  ASSUME NEW F, AllKept(F), AllReady, ~ ctx.done, ContWait
  PROVE  Safe'
  <1>0. Cont(WAIT) /\ UNCHANGED <<heap, env_global>> BY DEF ContWait
  <1>1. Apply /\ Top(0) = WAIT /\ UNCHANGED <<heap, env_global>> BY <1>0, Dispatched DEF Tags
  <1>2. running /\ CtxKept(F, ctx) BY <1>1, ApplyFinds
  <1>3. StepKeeps(F) BY <1>1, <1>2, Unmoved
  <1>4. PICK cid, k : cid = dec_u(Top(1)) % 2^16 /\ k = Drop(2) OBVIOUS
  <1>5. KeptSeq(F, k) BY <1>1, <1>4, Popped2
  <1>6. PICK found : found = {j \in DOMAIN ctx_done : ctx_done[j].id = cid} OBVIOUS
  <1>7. \/ Sleep(cid, k)
        \/ /\ found # {}
           /\ ctx' = [ctx EXCEPT !.r = ctx_done[Min(found)].r, !.K = k]
           /\ ctx_done' = RemoveAt(ctx_done, Min(found))
           /\ UNCHANGED <<running, ctx_queue>>
    BY <1>4, <1>6 DEF ContWait
  <1>8. CASE Sleep(cid, k) BY <1>3, <1>5, <1>8, SleepKeeps
  <1>9. ASSUME found # {}, ctx' = [ctx EXCEPT !.r = ctx_done[Min(found)].r, !.K = k],
               ctx_done' = RemoveAt(ctx_done, Min(found)), UNCHANGED <<running, ctx_queue>>
        PROVE  Safe'
    <2>1. PICK d : d = ctx_done OBVIOUS
    <2>2. IsSeq(d) /\ \A j \in 1 .. Len(d) : Kept(F, d[j].r) BY <2>1 DEF AllKept, ResultsKept
    <2>3. DOMAIN d = 1 .. Len(d) BY <2>2 DEF IsSeq
    <2>4. PICK n : n = Min(found) OBVIOUS
    <2>5. n \in DOMAIN d
      <3>1. found \subseteq Nat
        <4>1. Len(d) \in Nat BY <2>2 DEF IsSeq
        <4> QED BY <1>6, <2>1, <2>3, <4>1
      <3>2. \E x \in found : \A y \in found : x <= y BY <1>9, <3>1, LeastNat
      <3>3. n \in found BY <2>4, <3>2 DEF Min
      <3> QED BY <1>6, <2>1, <3>3
    <2>6. PICK v : v = d[n].r OBVIOUS
    <2>7. Kept(F, v) BY <2>2, <2>3, <2>5, <2>6
    <2>8. ctx' = [ctx EXCEPT !.r = v, !.K = k] BY <1>9, <2>1, <2>4, <2>6
    <2>9. CtxKept(F, ctx') BY <1>2, <1>5, <2>7, <2>8, KeptIn DEF CtxKept
    <2>10. PICK s : s = RemoveAt(d, n) OBVIOUS
    <2>11. IsSeq(s) /\ \A j \in 1 .. Len(s) : \E i \in 1 .. Len(d) : s[j] = d[i]
      BY <2>2, <2>5, <2>10, Removed
    <2>12. ResultsKept(F, s) BY <2>2, <2>11 DEF ResultsKept
    <2>13. ctx_done' = s BY <1>9, <2>1, <2>4, <2>10
    <2>14. AllKept(F)' BY <1>1, <1>2, <1>9, <2>9, <2>12, <2>13 DEF AllKept
    <2> QED BY <2>14 DEF Safe
  <1> QED BY <1>7, <1>8, <1>9

\* A context that is spawned.
LEMMA CreateKeeps ==
  ASSUME NEW E, QueueKept(E, ctx_queue), NEW program, NEW env, Kept(E, env),
         Kept(E, car(heap, program)), Kept(E, cdr(heap, program)), create_ctx(program, env)
  PROVE  QueueKept(E, ctx_queue')
  <1>1. ASSUME NEW garbage \in Garbage, NEW c,
               c = new_ctx(heap, next_ctx_id % 2^16, program, env, EVAL_CPS_DEFAULT_STACK_SIZE,
                           garbage),
               ctx_queue' = Append(ctx_queue, c)
        PROVE  QueueKept(E, ctx_queue')
    <2>1. PICK id, e, p : id = next_ctx_id % 2^16 /\ e = car(heap, program) /\ p = cdr(heap, program)
      OBVIOUS
    <2>2. c = [id |-> id, program |-> p, curr_exp |-> e, curr_env |-> env,
               r |-> garbage, app_cont |-> FALSE, done |-> FALSE, asleep |-> FALSE, K |-> <<DONE>>,
               stack_size |-> EVAL_CPS_DEFAULT_STACK_SIZE]
      BY <1>1, <2>1, Zenon DEF new_ctx
    <2>3. Kept(E, e) /\ Kept(E, p) BY <2>1
    <2>4. KeptSeq(E, <<DONE>>) BY PlainKept, OneKept
    <2>5. InHeap(garbage) BY GarbageAssumption
    <2>6. CtxKept(E, c) BY <2>2, <2>3, <2>4, <2>5 DEF CtxKept
    <2> QED BY <1>1, <2>6, AppendKept
  <1>2. \/ UNCHANGED ctx_queue
        \/ \E garbage \in Garbage :
             ctx_queue' = Append(ctx_queue, new_ctx(heap, next_ctx_id % 2^16, program, env,
                                                    EVAL_CPS_DEFAULT_STACK_SIZE, garbage))
    BY Zenon DEF create_ctx
  <1>3. CASE UNCHANGED ctx_queue BY <1>3
  <1> QED BY <1>1, <1>2, <1>3, Zenon

LEMMA ContSpawnAllKeeps ==
  ASSUME NEW F, AllKept(F), AllReady, ~ ctx.done, ContSpawnAll
  PROVE  Safe'
  <1>0. Cont(SPAWN_ALL) /\ UNCHANGED env_global BY DEF ContSpawnAll
  <1>1. Apply /\ Top(0) = SPAWN_ALL /\ UNCHANGED env_global BY <1>0, Dispatched DEF Tags
  <1>2. running /\ Sound(heap, F) /\ Kept(F, ctx.r) BY <1>1, ApplyFinds
  <1>3. PICK rest, env, k : rest = Top(1) /\ env = Top(2) /\ k = Drop(3) OBVIOUS
  <1>4. Kept(F, rest) /\ Kept(F, env) /\ KeptSeq(F, k) BY <1>1, <1>3, Popped3
  <1>5. PICK cid : cid = enc_i(next_ctx_id) OBVIOUS
  <1>6. PICK cid_list : cid_list = cons_result(heap, cid, ctx.r) OBVIOUS
  <1>7. Leaves(cid_list, F) BY <1>2, <1>5, <1>6, PlainKept, ConsLeaves
  <1>8. PICK prg, more : prg = car(heap, rest) /\ more = cdr(heap, rest) OBVIOUS
  <1>9. PICK again, l : again = <<env, more, SPAWN_ALL>> /\ l = k \o again OBVIOUS
  <1>10. Kept(F, prg) /\ Kept(F, more) BY <1>2, <1>4, <1>8, CarKept
  <1>11. Kept(F, car(heap, prg)) /\ Kept(F, cdr(heap, prg)) BY <1>2, <1>10, CarKept
  <1>12. KeptSeq(F, again) BY <1>4, <1>9, <1>10, PlainKept, ThreeKept
  <1>13. KeptSeq(F, l) BY <1>4, <1>9, <1>12, JoinKept
  <1>14. \/ Return(ctx.r, k) /\ UNCHANGED heap
         \/ Stay /\ UNCHANGED heap
         \/ /\ heap' = cid_list.h /\ create_ctx(prg, env)
            /\ ctx' = [ctx EXCEPT !.r = cid_list.v, !.K = l]
            /\ UNCHANGED <<running, ctx_done>>
    BY <1>3, <1>5, <1>6, <1>8, <1>9 DEF ContSpawnAll
  <1>15. CASE UNCHANGED heap /\ (Return(ctx.r, k) \/ Stay)
    <2>1. StepKeeps(F) BY <1>1, <1>2, <1>15, Unmoved
    <2> QED BY <1>2, <1>4, <1>15, <2>1, ReturnKeeps, StayKeeps
  <1>16. ASSUME heap' = cid_list.h, create_ctx(prg, env),
                ctx' = [ctx EXCEPT !.r = cid_list.v, !.K = l], UNCHANGED <<running, ctx_done>>
         PROVE  Safe'
    <2>1. PICK E : E \subseteq F /\ StepKeeps(E) /\ Kept(E, cid_list.v)
      BY <1>1, <1>2, <1>7, <1>16, LeavesStep
    <2>2. /\ Kept(E, env) /\ Kept(E, car(heap, prg)) /\ Kept(E, cdr(heap, prg)) /\ KeptSeq(E, l)
      BY <1>4, <1>11, <1>13, <2>1, KeptMore, KeptSeqMore
    <2>3. QueueKept(E, ctx_queue') BY <1>16, <2>1, <2>2, CreateKeeps DEF StepKeeps
    <2>4. PICK v : v = cid_list.v OBVIOUS
    <2>5. Kept(E, v) BY <2>1, <2>4
    <2>6. CtxKept(E, ctx')
      <3>1. CtxKept(E, ctx) BY <2>1 DEF StepKeeps
      <3>2. ctx' = [ctx EXCEPT !.r = v, !.K = l] BY <1>16, <2>4
      <3> QED BY <2>2, <2>5, <3>1, <3>2, KeptIn DEF CtxKept
    <2>7. AllKept(E)' BY <1>16, <2>1, <2>3, <2>6 DEF StepKeeps, AllKept
    <2> QED BY <2>7 DEF Safe
  <1> QED BY <1>14, <1>15, <1>16

(***************************************************************************)
(* Applications                                                            *)
(***************************************************************************)
LEMMA TryAgainKeeps ==
  ASSUME NEW E, StepKeeps(E), Kept(E, Fun), TryAgain
  PROVE  Safe'
  <1>1. CtxKept(E, ctx) BY DEF StepKeeps
  <1>2. PICK v : v = Fun OBVIOUS
  <1>3. Kept(E, v) BY <1>2
  <1>4. ctx' = [ctx EXCEPT !.r = v] /\ UNCHANGED <<running, waiting>> BY <1>2 DEF TryAgain
  <1>5. CtxKept(E, ctx') BY <1>1, <1>3, <1>4, KeptIn DEF CtxKept
  <1> QED BY <1>4, <1>5, CtxKeeps

LEMMA ApplyClosureKeeps ==
  ASSUME NEW F, AllKept(F), AllReady, ~ ctx.done, ApplyClosure
  PROVE  Safe'
  <1>0. Cont(APPLICATION) /\ UNCHANGED env_global BY DEF ApplyClosure
  <1>1. Apply /\ Top(0) = APPLICATION /\ UNCHANGED env_global BY <1>0, Dispatched DEF Tags
  <1>2. running /\ Sound(heap, F) BY <1>1, ApplyFinds
  <1>3. PICK k, l : k = Drop(Count + 3) /\ l = Drop(2) OBVIOUS
  <1>4. Kept(F, Fun) /\ KeptSeq(F, k) /\ KeptSeq(F, Args) BY <1>1, <1>3, PoppedApplication
  <1>5. PICK params, body, env : params = nth(Fun, 1) /\ body = nth(Fun, 2) /\ env = nth(Fun, 3)
    OBVIOUS
  <1>6. Kept(F, params) /\ Kept(F, body) /\ Kept(F, env)
    <2>1. 1 \in Nat /\ 2 \in Nat /\ 3 \in Nat OBVIOUS
    <2> QED BY <1>2, <1>4, <1>5, <2>1, NthKept
  <1>7. PICK args : args = list_onto(heap, Args, NIL) OBVIOUS
  <1>8. Leaves(args, F) BY <1>2, <1>4, <1>7, KeptSym, OntoLeaves
  <1>9. PICK local_env : local_env = env_build_params_args(args.h, params, args.v, env) OBVIOUS
  <1>10. Leaves(local_env, F)
    <2>1. PICK E : E \subseteq F /\ Sound(args.h, E) /\ Kept(E, args.v) BY <1>8 DEF Leaves
    <2>2. Kept(E, params) /\ Kept(E, env) BY <1>6, <2>1, KeptMore
    <2>3. Leaves(local_env, E) BY <1>9, <2>1, <2>2, BuildLeaves
    <2> QED BY <2>1, <2>3, LeavesMore
  <1>11. \/ heap' = args.h /\ (TryAgain \/ error_ctx(EERROR, l))
         \/ heap' = local_env.h /\ (TryAgain \/ Go(body, local_env.v, k))
    BY <1>3, <1>5, <1>7, <1>9 DEF ApplyClosure
  <1>12. CASE heap' = args.h /\ (TryAgain \/ error_ctx(EERROR, l))
    <2>1. PICK E : E \subseteq F /\ StepKeeps(E) BY <1>1, <1>2, <1>8, <1>12, LeavesStep
    <2>2. Kept(E, Fun) /\ Kept(E, EERROR) BY <1>4, <2>1, KeptMore, PlainKept
    <2> QED BY <1>12, <2>1, <2>2, TryAgainKeeps, ErrorKeeps
  <1>13. CASE heap' = local_env.h /\ (TryAgain \/ Go(body, local_env.v, k))
    <2>1. PICK E : E \subseteq F /\ StepKeeps(E) /\ Kept(E, local_env.v)
      BY <1>1, <1>2, <1>10, <1>13, LeavesStep
    <2>2. Kept(E, Fun) /\ Kept(E, body) /\ KeptSeq(E, k) BY <1>4, <1>6, <2>1, KeptMore, KeptSeqMore
    <2> QED BY <1>13, <2>1, <2>2, TryAgainKeeps, GoKeeps
  <1> QED BY <1>11, <1>12, <1>13

LEMMA ApplyFundamentalKeeps ==
  ASSUME NEW F, AllKept(F), AllReady, ~ ctx.done, ApplyFundamental
  PROVE  Safe'
  <1>0. Cont(APPLICATION) /\ UNCHANGED env_global BY DEF ApplyFundamental
  <1>1. Apply /\ Top(0) = APPLICATION /\ UNCHANGED env_global BY <1>0, Dispatched DEF Tags
  <1>2. running /\ Sound(heap, F) BY <1>1, ApplyFinds
  <1>3. PICK k, l : k = Drop(Count + 3) /\ l = Drop(2) OBVIOUS
  <1>4. PICK args, nargs, op : args = ArgWords /\ nargs = Count /\ op = Fun[2] OBVIOUS
  <1>5. /\ Kept(F, Fun) /\ KeptSeq(F, k) /\ KeptSeq(F, args) /\ nargs \in Nat
        /\ Len(args) = nargs + 2
    BY <1>1, <1>3, <1>4, PoppedApplication
  <1>6. ArgsKept(F, op, args, nargs)
    <2>1. ArgsRead(op) \in 0 .. 2 BY DEF ArgsRead
    <2>2. nargs <= Len(args) /\ ArgsRead(op) <= Len(args) BY <1>5, <2>1
    <2> QED BY <1>5, <2>2 DEF ArgsKept, KeptSeq
  <1>7. PICK res : res = fundamental_exec(heap, args, nargs, op) OBVIOUS
  <1>8. Leaves(res, F) BY <1>2, <1>6, <1>7, FundamentalLeaves
  <1>9. heap' = res.h /\ (error_ctx(res.v, l) \/ TryAgain \/ Return(res.v, k))
    BY <1>3, <1>4, <1>7 DEF ApplyFundamental
  <1>10. PICK E : E \subseteq F /\ StepKeeps(E) /\ Kept(E, res.v)
    BY <1>1, <1>2, <1>8, <1>9, LeavesStep
  <1>11. Kept(E, Fun) /\ KeptSeq(E, k) BY <1>5, <1>10, KeptMore, KeptSeqMore
  <1> QED BY <1>9, <1>10, <1>11, ErrorKeeps, TryAgainKeeps, ReturnKeeps

LEMMA ApplyRestKeeps ==
  ASSUME NEW F, AllKept(F), AllReady, ~ ctx.done,
         ApplyEval \/ ApplyYield \/ ApplyWait \/ ApplyExtension
  PROVE  Safe'
  <1>0. Cont(APPLICATION) /\ UNCHANGED <<heap, env_global>> BY DEF ApplyEval, ApplyYield, ApplyWait, ApplyExtension
  <1>1. Apply /\ Top(0) = APPLICATION /\ UNCHANGED <<heap, env_global>> BY <1>0, Dispatched DEF Tags
  <1>2. running /\ Kept(F, ctx.curr_env) BY <1>1, ApplyFinds
  <1>3. StepKeeps(F) BY <1>1, <1>2, Unmoved
  <1>4. PICK k, l : k = Drop(Count + 3) /\ l = Drop(2) OBVIOUS
  <1>5. Kept(F, Fun) /\ Kept(F, Arg1) /\ KeptSeq(F, k) BY <1>1, <1>4, PoppedApplication
  <1>6. \/ Go(Arg1, ctx.curr_env, k)
        \/ \E us : yield_ctx([ctx EXCEPT !.K = k], us)
        \/ error_ctx(EERROR, l)
        \/ \E cid : Sleep(cid, k)
        \/ TryAgain
        \/ Return(T, k) \/ Return(NIL, k)
    <2>1. CASE ApplyEval BY <1>4, <2>1 DEF ApplyEval
    <2>2. CASE ApplyYield BY <1>4, <2>2 DEF ApplyYield
    <2>3. CASE ApplyWait BY <1>4, <2>3, Zenon DEF ApplyWait
    <2>4. CASE ApplyExtension BY <1>4, <2>4 DEF ApplyExtension, ext_fun
    <2> QED BY <2>1, <2>2, <2>3, <2>4
  <1>7. CASE Go(Arg1, ctx.curr_env, k) BY <1>2, <1>3, <1>5, <1>7, GoKeeps
  <1>8. CASE \E us : yield_ctx([ctx EXCEPT !.K = k], us) BY <1>3, <1>5, <1>8, YieldKeeps
  <1>9. CASE error_ctx(EERROR, l) BY <1>3, <1>9, PlainKept, ErrorKeeps
  <1>10. CASE \E cid : Sleep(cid, k) BY <1>3, <1>5, <1>10, SleepKeeps
  <1>11. CASE TryAgain BY <1>3, <1>5, <1>11, TryAgainKeeps
  <1>12. CASE Return(T, k) \/ Return(NIL, k) BY <1>3, <1>5, <1>12, PlainKept, ReturnKeeps
  <1> QED BY <1>6, <1>7, <1>8, <1>9, <1>10, <1>11, <1>12

LEMMA ContBindToKeyRestKeeps ==
  ASSUME NEW F, AllKept(F), AllReady, ~ ctx.done, ContBindToKeyRest
  PROVE  Safe'
  <1>0. Cont(BIND_TO_KEY_REST) /\ UNCHANGED env_global BY DEF ContBindToKeyRest
  <1>1. Apply /\ Top(0) = BIND_TO_KEY_REST /\ UNCHANGED env_global BY <1>0, Dispatched DEF Tags
  <1>2. /\ running /\ Sound(heap, F) /\ Kept(F, env_global) /\ Kept(F, ctx.r)
        /\ ctx.stack_size \in StackSizes
    BY <1>1, ApplyFinds
  <1>3. PICK key, env, rest, e : key = Top(1) /\ env = Top(2) /\ rest = Top(3) /\ e = Top(4) OBVIOUS
  <1>4. PICK k, l : k = Drop(4) /\ l = Drop(5) OBVIOUS
  <1>5. /\ Kept(F, key) /\ Kept(F, env) /\ Kept(F, rest) /\ Kept(F, e)
        /\ KeptSeq(F, k) /\ KeptSeq(F, l)
    BY <1>1, <1>3, <1>4, PoppedLet
  <1>6. PICK bind, more : bind = car(heap, rest) /\ more = cdr(heap, rest) OBVIOUS
  <1>7. PICK next, val : next = car(heap, bind) /\ val = nth(bind, 1) OBVIOUS
  <1>8. Kept(F, bind) /\ Kept(F, more) BY <1>2, <1>5, <1>6, CarKept
  <1>9. Kept(F, next) /\ Kept(F, val)
    <2>1. 1 \in Nat OBVIOUS
    <2> QED BY <1>2, <1>7, <1>8, <2>1, CarKept, NthKept
  <1>10. PICK again : again = <<more, env, next, BIND_TO_KEY_REST>> OBVIOUS
  <1>11. KeptSeq(F, again) BY <1>5, <1>8, <1>9, <1>10, PlainKept, FourKept
  <1>12. /\ heap' = env_modify_binding(heap, env, key, ctx.r)
         /\ FATAL_ON_FAIL(k, again, Go(val, env, k \o again)) \/ Go(e, env, l)
    BY <1>3, <1>4, <1>6, <1>7, <1>10 DEF ContBindToKeyRest
  <1>13. Sound(heap', F) BY <1>2, <1>5, <1>12, ModifySound
  <1>14. StepKeeps(F) BY <1>1, <1>2, <1>13, Moved
  <1>15. CASE FATAL_ON_FAIL(k, again, Go(val, env, k \o again))
    BY <1>2, <1>5, <1>9, <1>11, <1>14, <1>15, FatalKeeps
  <1>16. CASE Go(e, env, l) BY <1>5, <1>14, <1>16, GoKeeps
  <1> QED BY <1>12, <1>15, <1>16

LEMMA ContApplicationArgsKeeps ==
  ASSUME NEW F, AllKept(F), AllReady, ~ ctx.done, ContApplicationArgs
  PROVE  Safe'
  <1>0. Cont(APPLICATION_ARGS) /\ UNCHANGED <<heap, env_global>> BY DEF ContApplicationArgs
  <1>1. Apply /\ Top(0) = APPLICATION_ARGS /\ UNCHANGED <<heap, env_global>> BY <1>0, Dispatched DEF Tags
  <1>2. running /\ Sound(heap, F) /\ Kept(F, ctx.r) /\ ctx.stack_size \in StackSizes
    BY <1>1, ApplyFinds
  <1>3. StepKeeps(F) BY <1>1, <1>2, Unmoved
  <1>4. PICK rest, count, env, k : rest = Top(1) /\ count = Top(2) /\ env = Top(3) /\ k = Drop(4)
    OBVIOUS
  <1>5. Kept(F, rest) /\ Kept(F, count) /\ Kept(F, env) /\ KeptSeq(F, k) BY <1>1, <1>4, PoppedArgs
  <1>6. PICK e, tl, n : e = car(heap, rest) /\ tl = cdr(heap, rest) /\ n = enc_u(dec_u(count) + 1)
    OBVIOUS
  <1>7. Kept(F, e) /\ Kept(F, tl) /\ Kept(F, n) BY <1>2, <1>5, <1>6, CarKept, PlainKept
  <1>8. PICK last, l : last = <<ctx.r, count, APPLICATION>> /\ l = k \o last OBVIOUS
  <1>9. PICK more : more = <<ctx.r, env, n, tl, APPLICATION_ARGS>> OBVIOUS
  <1>10. KeptSeq(F, last) BY <1>2, <1>5, <1>8, PlainKept, ThreeKept
  <1>11. KeptSeq(F, more) BY <1>2, <1>5, <1>7, <1>9, PlainKept, FiveKept
  <1>12. KeptSeq(F, l) BY <1>5, <1>8, <1>10, JoinKept
  <1>13. \/ ShortCircuit(AND, FALSE, T, rest, env, k)
         \/ ShortCircuit(OR, FALSE, NIL, rest, env, k)
         \/ FATAL_ON_FAIL(k, last, Return(ctx.r, l))
         \/ FATAL_ON_FAIL(k, more, Go(e, env, k \o more))
    BY <1>4, <1>6, <1>8, <1>9 DEF ContApplicationArgs
  <1>14. CASE ShortCircuit(AND, FALSE, T, rest, env, k)
    BY <1>2, <1>3, <1>5, <1>14, PlainKept, ShortCircuitKeeps
  <1>15. CASE ShortCircuit(OR, FALSE, NIL, rest, env, k)
    BY <1>2, <1>3, <1>5, <1>15, PlainKept, ShortCircuitKeeps
  <1>16. CASE FATAL_ON_FAIL(k, last, Return(ctx.r, l))
    <2>1. CASE Return(ctx.r, l) BY <1>2, <1>3, <1>12, <2>1, ReturnKeeps
    <2>2. CASE ~ Fits(k, last) BY <1>2, <1>3, <1>5, <1>10, <1>16, <2>2, GivenUpKeeps DEF FATAL_ON_FAIL
    <2> QED BY <1>16, <2>1, <2>2 DEF FATAL_ON_FAIL
  <1>17. CASE FATAL_ON_FAIL(k, more, Go(e, env, k \o more))
    BY <1>2, <1>3, <1>5, <1>7, <1>11, <1>17, FatalKeeps
  <1> QED BY <1>13, <1>14, <1>15, <1>16, <1>17

(***************************************************************************)
(* Every step                                                              *)
(***************************************************************************)
LEMMA NextSafe ==
  ASSUME Safe, AllReady, running => ~ ctx.done, Next
  PROVE  Safe'
  <1>1. PICK F : AllKept(F) BY DEF Safe
  <1>2. CASE Dequeue BY <1>1, <1>2, DequeueKeeps
  <1>3. CASE Collect BY <1>1, <1>3, CollectKeeps
  <1>4. CASE OutOfMemory BY <1>1, <1>4, OutOfMemoryKeeps
  <1>5. CASE EvalSymbol \/ EvalSelf \/ EvalQuote BY <1>1, <1>5, EvalAtomKeeps
  <1>6. CASE EvalDefine BY <1>1, <1>6, EvalDefineKeeps
  <1>7. CASE EvalProgn BY <1>1, <1>7, EvalPrognKeeps
  <1>8. CASE EvalSpawn BY <1>1, <1>8, EvalSpawnKeeps
  <1>9. CASE EvalLambda BY <1>1, <1>9, EvalLambdaKeeps
  <1>10. CASE EvalIf BY <1>1, <1>10, EvalIfKeeps
  <1>11. CASE EvalLet BY <1>1, <1>11, EvalLetKeeps
  <1>12. CASE EvalApplication BY <1>1, <1>12, EvalApplicationKeeps
  <1>13. ASSUME Apply PROVE ~ ctx.done BY <1>13 DEF Apply
  <1>14. CASE ContDone BY <1>1, <1>13, <1>14, ContDoneKeeps DEF ContDone, Cont
  <1>15. CASE ContSetGlobalEnv
    BY <1>1, <1>13, <1>15, ContSetGlobalEnvKeeps DEF ContSetGlobalEnv, Cont
  <1>16. CASE ContPrognRest BY <1>1, <1>13, <1>16, ContPrognRestKeeps DEF ContPrognRest, Cont
  <1>17. CASE ContSpawnAll BY <1>1, <1>13, <1>17, ContSpawnAllKeeps DEF ContSpawnAll, Cont
  <1>18. CASE ContWait BY <1>1, <1>13, <1>18, ContWaitKeeps DEF ContWait, Cont
  <1>19. CASE ApplyClosure BY <1>1, <1>13, <1>19, ApplyClosureKeeps DEF ApplyClosure, Cont
  <1>20. CASE ApplyFundamental
    BY <1>1, <1>13, <1>20, ApplyFundamentalKeeps DEF ApplyFundamental, Cont
  <1>21. CASE ApplyEval \/ ApplyYield \/ ApplyWait \/ ApplyExtension
    <2>1. Apply BY <1>21 DEF ApplyEval, ApplyYield, ApplyWait, ApplyExtension, Cont
    <2> QED BY <1>1, <1>13, <1>21, <2>1, ApplyRestKeeps
  <1>22. CASE ContAnd \/ ContOr
    <2>1. Apply BY <1>22 DEF ContAnd, ContOr, Cont
    <2> QED BY <1>1, <1>13, <1>22, <2>1, JunctionKeeps
  <1>23. CASE ContApplicationArgs
    BY <1>1, <1>13, <1>23, ContApplicationArgsKeeps DEF ContApplicationArgs, Cont
  <1>24. CASE ContBindToKeyRest
    BY <1>1, <1>13, <1>24, ContBindToKeyRestKeeps DEF ContBindToKeyRest, Cont
  <1>25. CASE ContIf BY <1>1, <1>13, <1>25, ContIfKeeps DEF ContIf, Cont
  <1>26. CASE ContUnknown BY <1>1, <1>26, ContUnknownKeeps
  <1>27. CASE Ended BY <1>1, <1>27 DEF Ended, vars, AllKept, Safe
  <1> QED
    BY <1>2, <1>3, <1>4, <1>5, <1>6, <1>7, <1>8, <1>9, <1>10, <1>11, <1>12, <1>14, <1>15, <1>16,
       <1>17, <1>18, <1>19, <1>20, <1>21, <1>22, <1>23, <1>24, <1>25, <1>26, <1>27 DEF Next

\* What the reader leaves behind.
LEMMA LoadedSafe ==
  ASSUME Loaded
  PROVE  \E F : Sound(heap, F) /\ Kept(F, env_global) /\ Kept(F, promise.program)
  <1>1. PICK im \in Images : /\ promise = [field \in DOMAIN im \ {"heap", "env"} |-> im[field]]
                             /\ heap = im.heap /\ env_global = im.env
    BY DEF Loaded
  <1>2. PICK fl : fl = Reverse(spine(im.heap, im.heap.freelist)) OBVIOUS
  <1>3. /\ FreeListIs(im.heap, fl) /\ SoundHeap(im.heap, Range(fl))
        /\ "program" \in DOMAIN im /\ Kept(Range(fl), im.program) /\ Kept(Range(fl), im.env)
    BY <1>2, ImageAssumption
  <1>4. Range(fl) = Listed(fl)
    <2>1. fl \in Seq(Cell) BY <1>3 DEF FreeListIs
    <2>2. DOMAIN fl = 1 .. Len(fl) BY <2>1
    <2> QED BY <2>2 DEF Range, Listed
  <1>5. promise.program = im.program BY <1>1, <1>3
  <1>6. Sound(heap, Range(fl)) BY <1>1, <1>3, <1>4 DEF Sound
  <1> QED BY <1>1, <1>3, <1>5, <1>6

LEMMA InitSafe ==
  ASSUME Init
  PROVE  Safe
  <1>1. PICK F : Sound(heap, F) /\ Kept(F, env_global) /\ Kept(F, promise.program)
    BY LoadedSafe DEF Init
  <1>2. PICK garbage \in Garbage \cup {NIL} :
          ctx = new_ctx(heap, 1, promise.program, NIL, promise.stack_size, garbage)
    BY DEF Init
  <1>3. InHeap(garbage) BY GarbageAssumption, KeptSym
  <1>4. PICK e, p : e = car(heap, promise.program) /\ p = cdr(heap, promise.program) OBVIOUS
  <1>5. Kept(F, e) /\ Kept(F, p) BY <1>1, <1>4, CarKept
  <1>6. ctx = [id |-> 1, program |-> p, curr_exp |-> e, curr_env |-> NIL,
               r |-> garbage, app_cont |-> FALSE, done |-> FALSE, asleep |-> FALSE, K |-> <<DONE>>,
               stack_size |-> promise.stack_size]
    BY <1>2, <1>4 DEF new_ctx
  <1>7. KeptSeq(F, <<DONE>>) /\ Kept(F, NIL) BY PlainKept, OneKept
  <1>8. CtxKept(F, ctx) BY <1>3, <1>5, <1>6, <1>7 DEF CtxKept
  <1>9. QueueKept(F, ctx_queue)
    <2>1. ctx_queue = <<>> \/ ctx_queue = <<ctx>> BY DEF Init
    <2>2. <<>> \in Seq({ctx}) /\ <<ctx>> \in Seq({ctx}) OBVIOUS
    <2>3. IsSeq(ctx_queue)
      <3>1. ctx_queue \in Seq({ctx}) BY <2>1, <2>2
      <3> QED BY <3>1, SeqIn
    <2>4. \A k \in 1 .. Len(ctx_queue) : ctx_queue[k] = ctx BY <2>1
    <2> QED BY <1>8, <2>3, <2>4 DEF QueueKept
  <1>10. ResultsKept(F, ctx_done)
    <2>1. ctx_done = <<>> BY DEF Init
    <2>2. <<>> \in Seq({ctx}) /\ Len(<<>>) = 0 OBVIOUS
    <2>3. IsSeq(ctx_done) /\ Len(ctx_done) = 0 BY <2>1, <2>2, SeqIn
    <2> QED BY <2>3 DEF ResultsKept
  <1>11. running = FALSE BY DEF Init
  <1>12. AllKept(F) BY <1>1, <1>8, <1>9, <1>10, <1>11 DEF AllKept
  <1> QED BY <1>12 DEF Safe

LEMMA SafeSays ==
  ASSUME Safe
  PROVE  NothingInUseRecovered
  <1>1. PICK F : AllKept(F) BY DEF Safe
  <1>2. DOMAIN ctx_queue = 1 .. Len(ctx_queue) /\ DOMAIN ctx_done = 1 .. Len(ctx_done)
    BY <1>1 DEF AllKept, QueueKept, ResultsKept, IsSeq
  <1>3. \A c \in Range(ctx_done) : Kept(F, c.r) BY <1>1, <1>2 DEF AllKept, ResultsKept, Range
  <1>4. \A c \in Alive : CtxKept(F, c) BY <1>1, <1>2 DEF AllKept, QueueKept, Alive, Range
  <1>5. ASSUME NEW c \in Alive,
               NEW v \in {c.curr_env, c.program} \cup Range(c.K)
                         \cup {IF c.app_cont THEN c.r ELSE c.curr_exp}
        PROVE  Kept(F, v)
    <2>1. /\ Kept(F, c.curr_env) /\ Kept(F, c.curr_exp) /\ Kept(F, c.program) /\ KeptSeq(F, c.K)
          /\ (c.app_cont => Kept(F, c.r))
      BY <1>4, <1>5 DEF CtxKept
    <2>2. PICK k : k = c.K OBVIOUS
    <2>3. KeptSeq(F, k) BY <2>1, <2>2
    <2>4. DOMAIN k = 1 .. Len(k) BY <2>3 DEF KeptSeq, IsSeq
    <2>5. \A w \in Range(k) : Kept(F, w) BY <2>3, <2>4 DEF KeptSeq, Range
    <2> QED BY <1>5, <2>1, <2>2, <2>5
  <1>6. \A v \in InUse : Kept(F, v)
    <2>1. Kept(F, env_global) BY <1>1 DEF AllKept
    <2>2. PICK U : U = UNION {{c.curr_env, c.program} \cup Range(c.K)
                              \cup {IF c.app_cont THEN c.r ELSE c.curr_exp} : c \in Alive}
      OBVIOUS
    <2>3. \A v \in U : Kept(F, v) BY <1>5, <2>2
    <2>4. PICK D : D = {c.r : c \in Range(ctx_done)} OBVIOUS
    <2>5. \A v \in D : Kept(F, v) BY <1>3, <2>4
    <2>6. InUse = {env_global} \cup D \cup U BY <2>2, <2>4 DEF InUse
    <2> QED BY <2>1, <2>3, <2>5, <2>6
  <1>7. Sound(heap, F) BY <1>1 DEF AllKept
  <1> QED BY <1>6, <1>7, KeptReach DEF NothingInUseRecovered

(***************************************************************************)
(* The CPS evaluator                                                       *)
(***************************************************************************)
\* No argument has been taken for an operator, and no context goes on after a push
\* that failed: FATAL_ON_FAIL marks a context as done and leaves it ctx_running, and
\* from then on it pops what it has not pushed, past the bottom of its stack too.
Sturdy == ~ misread /\ \A c \in Alive : ~ c.done

LEMMA SturdyStep ==
  ASSUME AllReady, Safe, Sturdy, Sturdy', [Next]_vars
  PROVE  AllReady' /\ Safe'
  <1>1. ~ misread' BY DEF Sturdy
  <1>2. running => ~ ctx.done BY DEF Sturdy, Alive
  <1>3. CASE Next BY <1>1, <1>2, <1>3, NextReady, NextSafe
  <1>4. CASE UNCHANGED vars
    <2>1. AllReady' BY <1>4, StayReady DEF vars
    <2>2. PICK F : AllKept(F) BY DEF Safe
    <2>3. AllKept(F)' BY <1>4, <2>2 DEF vars, AllKept
    <2> QED BY <2>1, <2>3 DEF Safe
  <1> QED BY <1>3, <1>4

\* Whatever the program and its size, the heap, the garbage that malloc returns, the
\* size of the stacks and the order in which the contexts take turns, no collection
\* recovers a cell that is still in use: whenever a step of eval_cps.c fails for want
\* of a cell, everything that it or a context that runs, sleeps or has finished will
\* need is in one of the fields that gc marks (eval_cps.c:717-765), and what a
\* half-done step has left behind is garbage that leads to no free cell; as long as
\* no context goes on after a push that failed or a misread argument (Sturdy).
THEOREM InUseSafe == Spec /\ []Sturdy => []NothingInUseRecovered
  <1> DEFINE Inv == AllReady /\ Safe
  <1>1. Init => Inv BY InitReady, InitSafe
  <1>2. Inv /\ Sturdy /\ Sturdy' /\ [Next]_vars => Inv' BY SturdyStep
  <1>3. Inv => NothingInUseRecovered BY SafeSays
  <1> HIDE DEF Inv
  <1> QED BY <1>1, <1>2, <1>3, PTL DEF Spec

(***************************************************************************)
(* The registers of ec_eval.c                                              *)
(***************************************************************************)
\* unev holds what the program before has left in it until it is set: gc marks it
\* like everything else, and no handler reads it before it has set it.
RegsKept(F, r) ==
  /\ {"cont", "env", "unev", "prg", "exp", "argl", "val", "fun", "S"} \subseteq DOMAIN r
  /\ Kept(F, r.env) /\ Kept(F, r.prg) /\ Kept(F, r.exp) /\ Kept(F, r.argl) /\ Kept(F, r.val)
  /\ Kept(F, r.fun) /\ KeptSeq(F, r.S) /\ InHeap(r.unev)

\* The free cells of h are F, and neither the environment nor a register leads to one.
Holds(h, F, r) == Sound(h, F) /\ Kept(F, env_global) /\ RegsKept(F, r)

\* What the registers lead to is in use, though garbage may lead to free cells: the
\* bindings that eval_let makes are lost when it has to collect after the first one,
\* and it goes on to bind in front of them.
Spared(h, r) ==
  \E F, X : Apart(h, F, X) /\ Cells(rm_roots(r)) \subseteq X /\ \A v \in rm_roots(r) : InHeap(v)

\* The inductive invariant, together with AllUpright.
EcSafe ==
  ~ done /\ ~ adrift => (\E F : Holds(heap, F, rm)) \/ (Continues(CONT_ERROR) /\ Spared(heap, rm))

LEMMA RegsKeptMore ==
  ASSUME NEW F, NEW E, E \subseteq F, NEW r, RegsKept(F, r)
  PROVE  RegsKept(E, r)
  BY KeptMore, KeptSeqMore DEF RegsKept

\* A collection, with the registers r.
LEMMA EcCollect ==
  ASSUME NEW h, NEW F, NEW r, Holds(h, F, r)
  PROVE  \E E : Holds(gc(h, rm_roots(r)), E, r) /\ (Kept(F, r.unev) => Kept(E, r.unev))
  <1>1. Sound(h, F) /\ Kept(F, env_global) /\ RegsKept(F, r) BY DEF Holds
  <1>2. PICK k : k = r.S OBVIOUS
  <1>3. KeptSeq(F, k) BY <1>1, <1>2 DEF RegsKept
  <1>4. DOMAIN k = 1 .. Len(k) /\ IsSeq(k) /\ Len(k) \in Nat BY <1>3 DEF KeptSeq, IsSeq
  <1>5. \A v \in Range(k) : Kept(F, v) BY <1>3, <1>4 DEF KeptSeq, Range
  <1>6. \A v \in rm_roots(r) : v = r.unev \/ Kept(F, v)
    BY <1>1, <1>2, <1>5 DEF rm_roots, RegsKept
  <1>7. \A v \in rm_roots(r) : InHeap(v) BY <1>1, <1>6, KeptIn DEF RegsKept
  <1>8. PICK E : /\ Sound(gc(h, rm_roots(r)), E)
                 /\ \A v \in rm_roots(r) : Kept(F, v) => Kept(E, v)
    BY <1>1, <1>7, GcKeeps
  <1>9. \A j \in 1 .. Len(k) : k[j] \in rm_roots(r)
    <2>1. \A j \in 1 .. Len(k) : k[j] \in Range(k) BY <1>4 DEF Range
    <2> QED BY <1>2, <2>1 DEF rm_roots
  <1>10. KeptSeq(E, k) BY <1>3, <1>8, <1>9 DEF KeptSeq
  <1>11. {env_global, r.env, r.unev, r.prg, r.exp, r.argl, r.val, r.fun} \subseteq rm_roots(r)
    BY DEF rm_roots
  <1>12. RegsKept(E, r)
    <2>1. Kept(E, r.env) /\ Kept(E, r.prg) /\ Kept(E, r.exp) /\ Kept(E, r.argl) /\ Kept(E, r.val)
          /\ Kept(E, r.fun)
      BY <1>1, <1>8, <1>11 DEF RegsKept
    <2> QED BY <1>1, <1>2, <1>10, <2>1 DEF RegsKept
  <1>13. Kept(E, env_global) /\ (Kept(F, r.unev) => Kept(E, r.unev)) BY <1>1, <1>8, <1>11
  <1> QED BY <1>8, <1>12, <1>13 DEF Holds

LEMMA Took ==
  ASSUME NEW h, NEW F, NEW r, Holds(h, F, r), NEW res, Leaves(res, F)
  PROVE  \E E : Holds(res.h, E, r) /\ Kept(E, res.v) /\ (Kept(F, r.unev) => Kept(E, r.unev))
                /\ E \subseteq F
  <1>1. PICK E : E \subseteq F /\ Sound(res.h, E) /\ Kept(E, res.v) BY DEF Leaves
  <1>2. RegsKept(E, r) /\ Kept(E, env_global) BY <1>1, RegsKeptMore, KeptMore DEF Holds
  <1>3. Kept(F, r.unev) => Kept(E, r.unev) BY <1>1, KeptMore
  <1> QED BY <1>1, <1>2, <1>3 DEF Holds

\* allocate: the operation, or a collection and the operation once more.
LEMMA Allocates ==
  ASSUME NEW h, NEW F, NEW r, Holds(h, F, r), NEW first, Leaves(first, F), NEW second,
         \A E : Holds(gc(first.h, rm_roots(r)), E, r) /\ (Kept(F, r.unev) => Kept(E, r.unev))
                  => Leaves(second, E),
         NEW res, res = IF first.v = MERROR THEN second ELSE first
  PROVE  \E E : Holds(res.h, E, r) /\ Kept(E, res.v) /\ (Kept(F, r.unev) => Kept(E, r.unev))
  <1>1. PICK D : Holds(first.h, D, r) /\ Kept(D, first.v) /\ (Kept(F, r.unev) => Kept(D, r.unev))
    BY Took
  <1>2. CASE res = first BY <1>1, <1>2
  <1>3. CASE res = second
    <2>1. PICK E : /\ Holds(gc(first.h, rm_roots(r)), E, r)
                   /\ (Kept(D, r.unev) => Kept(E, r.unev))
      BY <1>1, EcCollect
    <2>2. Leaves(second, E) BY <1>1, <2>1
    <2>3. \E G : Holds(second.h, G, r) /\ Kept(G, second.v) /\ (Kept(E, r.unev) => Kept(G, r.unev))
      BY <2>1, <2>2, Took
    <2> QED BY <1>1, <1>3, <2>1, <2>3
  <1> QED BY <1>2, <1>3

(***************************************************************************)
(* Ways for a handler to end                                               *)
(***************************************************************************)
LEMMA EndsSafe ==
  ASSUME NEW F, NEW r, Holds(heap', F, r), UNCHANGED env_global, rm' = r
  PROVE  EcSafe'
  BY DEF EcSafe, Holds

LEMMA ErrorSafe ==
  ASSUME NEW F, NEW r, Holds(heap', F, r), UNCHANGED env_global, NEW s, Error(r, sym(s))
  PROVE  EcSafe'
  <1>1. PICK q : q = [r EXCEPT !.cont = CONT_ERROR, !.val = sym(s)] OBVIOUS
  <1>2. rm' = q BY <1>1 DEF Error, Continue
  <1>3. Kept(F, sym(s)) BY KeptSym
  <1>4. RegsKept(F, q) BY <1>1, <1>3 DEF Holds, RegsKept
  <1>5. Holds(heap', F, q) BY <1>4 DEF Holds
  <1> QED BY <1>2, <1>5, EndsSafe

LEMMA OutOfCellsSafe ==
  ASSUME NEW F, NEW r, Holds(heap', F, r), UNCHANGED env_global, OutOfCells(r)
  PROVE  EcSafe'
  BY ErrorSafe DEF OutOfCells, MERROR

(***************************************************************************)
(* What a handler finds                                                    *)
(***************************************************************************)
\* A continuation is a number.
LEMMA TagKept ==
  ASSUME NEW S, NEW c, NEW n, Backed(S, c, n), NEW F
  PROVE  Kept(F, c)
  <1>1. PICK E : Stands(S, E) /\ <<c, n>> \in E BY DEF Backed
  <1>2. StandsIn(S, E, c, n) BY <1>1 DEF Stands
  <1>3. \E m : c = enc_u(m)
    BY <1>2 DEF StandsIn, FrameIs, CONT_DONE, CONT_DEFINE, CONT_SETUP_NO_ARG_APPLY, CONT_EVAL_ARGS,
       CONT_ACCUMULATE_ARG, CONT_ACCUMULATE_LAST_ARG, CONT_BRANCH, CONT_BIND_VAR, CONT_END_LET,
       CONT_SEQUENCE, CONT_AND, CONT_OR
  <1> QED BY <1>3, PlainKept

LEMMA EcPushKept ==
  ASSUME NEW F, NEW S, KeptSeq(F, S), NEW vals, KeptSeq(F, vals), promise.stack_size \in StackSizes
  PROVE  KeptSeq(F, push(S, vals))
  <1>1. PICK J, m : J = S \o vals /\ m = promise.stack_size OBVIOUS
  <1>2. KeptSeq(F, J) BY <1>1, JoinKept
  <1>3. Len(J) = Len(S) + Len(vals) /\ Len(J) \in Nat
    <2>1. IsSeq(S) /\ IsSeq(vals) BY DEF KeptSeq
    <2> QED BY <1>1, <2>1, JoinSeq
  <1>4. m \in Nat BY <1>1 DEF StackSizes
  <1>5. PICK k : k = IF Len(J) < m THEN Len(J) ELSE m OBVIOUS
  <1>6. k \in 0 .. Len(J) BY <1>3, <1>4, <1>5
  <1>7. push(S, vals) = SubSeq(J, 1, k) BY <1>1, <1>3, <1>5 DEF push
  <1> QED BY <1>2, <1>6, <1>7, CutKept

LEMMA PeekKept ==
  ASSUME NEW F, KeptSeq(F, rm.S), NEW z, z \in 1 .. Len(rm.S)
  PROVE  (\A n \in 0 .. z - 1 : Kept(F, peek(n))) /\ (\A n \in 0 .. z : KeptSeq(F, pop(n)))
  <1>1. PICK S, l : S = rm.S /\ l = Len(S) OBVIOUS
  <1>2. KeptSeq(F, S) /\ l \in Nat /\ z \in 1 .. l BY <1>1 DEF KeptSeq
  <1>3. ASSUME NEW n \in 0 .. z - 1 PROVE Kept(F, peek(n))
    <2>1. l - n \in 1 .. l BY <1>2
    <2>2. Kept(F, S[l - n]) BY <1>1, <1>2, <2>1 DEF KeptSeq
    <2> QED BY <1>1, <2>2 DEF peek
  <1>4. ASSUME NEW n \in 0 .. z PROVE KeptSeq(F, pop(n))
    <2>1. l - n \in 0 .. l BY <1>2
    <2>2. PICK m : m = l - n OBVIOUS
    <2>3. m \in 0 .. Len(S) BY <1>1, <2>1, <2>2
    <2>4. KeptSeq(F, SubSeq(S, 1, m)) BY <1>2, <2>3, CutKept
    <2> QED BY <1>1, <2>2, <2>4 DEF pop
  <1> QED BY <1>3, <1>4

\* The frame of the continuation.
LEMMA FramePopped ==
  ASSUME NEW F, Holds(heap, F, rm), AllUpright, ~ adrift, NEW c, Continues(c),
         NEW z, NEW x, FrameIs(c, z, x)
  PROVE  /\ (\A n \in 0 .. z - 1 : Kept(F, peek(n))) /\ (\A n \in 0 .. z : KeptSeq(F, pop(n)))
         /\ promise.stack_size \in StackSizes
  <1>1. Backed(rm.S, c, Len(rm.S)) /\ promise.stack_size \in StackSizes
    BY FoundByFrame DEF Balanced
  <1>2. z \in 1 .. Len(rm.S) BY <1>1, FrameOff
  <1>3. KeptSeq(F, rm.S) BY DEF Holds, RegsKept
  <1> QED BY <1>1, <1>2, <1>3, PeekKept

LEMMA ApplyPopped ==
  ASSUME NEW F, Holds(heap, F, rm), AllUpright, ~ adrift, Applies
  PROVE  KeptSeq(F, pop(1)) /\ promise.stack_size \in StackSizes
  <1>1. PICK b : b = peek(0) OBVIOUS
  <1>2. Len(rm.S) \in Nat /\ Bears(rm.S, b, Len(rm.S) - 1) BY <1>1, FoundByApply
  <1>3. Len(rm.S) - 1 \in Nat BY <1>2, BackedIn DEF Bears
  <1>4. 1 \in 1 .. Len(rm.S) BY <1>2, <1>3
  <1>5. KeptSeq(F, rm.S) BY DEF Holds, RegsKept
  <1>6. KeptSeq(F, pop(1)) BY <1>4, <1>5, PeekKept
  <1> QED BY <1>6 DEF AllUpright

\* The continuation that an expression is evaluated for.
LEMMA EvalCont ==
  ASSUME NEW F, AllUpright, ~ adrift, Evaluates
  PROVE  Kept(F, rm.cont) /\ promise.stack_size \in StackSizes
  BY FoundByEval, TagKept DEF Balanced

(***************************************************************************)
(* EVAL_DISPATCH                                                           *)
(***************************************************************************)
LEMMA ValueSafe ==
  ASSUME NEW F, Holds(heap, F, rm), UNCHANGED <<heap, env_global>>, NEW v, Kept(F, v),
         Continue([rm EXCEPT !.val = v])
  PROVE  EcSafe'
  <1>1. PICK q : q = [rm EXCEPT !.val = v] OBVIOUS
  <1>2. rm' = q BY <1>1 DEF Continue
  <1>3. RegsKept(F, q) BY <1>1 DEF Holds, RegsKept
  <1>4. Holds(heap', F, q) BY <1>3 DEF Holds
  <1> QED BY <1>2, <1>4, EndsSafe

LEMMA EvalValueSafe ==
  ASSUME NEW F, Holds(heap, F, rm), eval_self_evaluating \/ eval_variable \/ eval_quoted
  PROVE  EcSafe'
  <1>1. Sound(heap, F) /\ Kept(F, env_global) /\ Kept(F, rm.exp) /\ Kept(F, rm.env)
    BY DEF Holds, RegsKept
  <1>2. UNCHANGED <<heap, env_global>> BY DEF eval_self_evaluating, eval_variable, eval_quoted
  <1>3. CASE eval_self_evaluating BY <1>1, <1>2, <1>3, ValueSafe DEF eval_self_evaluating
  <1>4. CASE eval_quoted
    <2>1. Kept(F, nth(rm.exp, 1)) BY <1>1, NthKept
    <2> QED BY <1>2, <1>4, <2>1, ValueSafe DEF eval_quoted
  <1>5. CASE eval_variable
    <2>1. PICK local : local = IF extensions_lookup(rm.exp) THEN rm.exp
                               ELSE env_lookup(heap, rm.exp, rm.env)
      OBVIOUS
    <2>2. PICK val : val = IF local = NOT_FOUND THEN env_lookup(heap, rm.exp, env_global) ELSE local
      OBVIOUS
    <2>3. Kept(F, val) BY <1>1, <2>1, <2>2, LookupKept
    <2>4. IF val = NOT_FOUND THEN Error(rm, val) ELSE Continue([rm EXCEPT !.val = val])
      BY <1>5, <2>1, <2>2 DEF eval_variable
    <2>5. CASE val = NOT_FOUND
      <3>1. Error(rm, sym("not_found")) BY <2>4, <2>5 DEF NOT_FOUND
      <3>2. Holds(heap', F, rm) BY <1>2
      <3> QED BY <1>2, <3>1, <3>2, ErrorSafe
    <2>6. CASE val # NOT_FOUND BY <1>2, <2>3, <2>4, <2>6, ValueSafe
    <2> QED BY <2>5, <2>6
  <1> QED BY <1>3, <1>4, <1>5

\* A frame is pushed, and a part of the expression evaluated.
LEMMA PushSafe ==
  ASSUME NEW F, Holds(heap, F, rm), promise.stack_size \in StackSizes, UNCHANGED <<heap, env_global>>,
         NEW u, Kept(F, u), NEW e, Kept(F, e), NEW vals, KeptSeq(F, vals), NEW c,
         NEW q, q = [rm EXCEPT !.unev = u, !.exp = e, !.S = push(rm.S, vals), !.cont = c], rm' = q
  PROVE  EcSafe'
  <1>1. PICK L : L = push(rm.S, vals) OBVIOUS
  <1>2. KeptSeq(F, rm.S) BY DEF Holds, RegsKept
  <1>3. KeptSeq(F, L) BY <1>1, <1>2, EcPushKept
  <1>4. q = [rm EXCEPT !.unev = u, !.exp = e, !.S = L, !.cont = c] BY <1>1
  <1>5. InHeap(u) BY KeptIn
  <1>6. RegsKept(F, q) BY <1>3, <1>4, <1>5 DEF Holds, RegsKept
  <1>7. Holds(heap', F, q) BY <1>6 DEF Holds
  <1> QED BY <1>7, EndsSafe

LEMMA EvalPushSafe ==
  ASSUME NEW F, Holds(heap, F, rm), AllUpright, ~ adrift,
         eval_define \/ eval_application \/ eval_if \/ eval_and \/ eval_or
  PROVE  EcSafe'
  <1>1. Evaluates /\ UNCHANGED <<heap, env_global>>
    BY DEF eval_define, eval_application, eval_if, eval_and, eval_or, eval_junction, Kind
  <1>2. PICK k : k = rm.cont OBVIOUS
  <1>3. Kept(F, k) /\ promise.stack_size \in StackSizes BY <1>1, <1>2, EvalCont
  <1>4. Sound(heap, F) /\ Kept(F, rm.exp) /\ Kept(F, rm.env) BY DEF Holds, RegsKept
  <1>5. CASE eval_define
    <2>1. PICK key, e, vals : /\ key = nth(rm.exp, 1) /\ e = nth(rm.exp, 2) /\ vals = <<key, k>>
      OBVIOUS
    <2>2. Kept(F, key) /\ Kept(F, e) BY <1>4, <2>1, NthKept
    <2>3. KeptSeq(F, vals) BY <1>3, <2>1, <2>2, TwoKept
    <2>4. PICK q : q = [rm EXCEPT !.unev = key, !.exp = e, !.S = push(rm.S, vals), !.cont = CONT_DEFINE]
      OBVIOUS
    <2>5. rm' = q BY <1>2, <1>5, <2>1, <2>4 DEF eval_define, Dispatch
    <2> QED BY <1>1, <1>3, <2>2, <2>3, <2>4, <2>5, PushSafe
  <1>6. ASSUME NEW u, Kept(F, u), NEW e, Kept(F, e), NEW c,
               \/ rm' = [rm EXCEPT !.unev = u, !.exp = e, !.S = push(rm.S, <<k, rm.env, u>>), !.cont = c]
               \/ rm' = [rm EXCEPT !.unev = u, !.S = push(rm.S, <<k, rm.env, u>>), !.exp = e, !.cont = c]
        PROVE  EcSafe'
    <2>1. PICK vals, L : vals = <<k, rm.env, u>> /\ L = push(rm.S, vals) OBVIOUS
    <2>2. KeptSeq(F, vals) BY <1>3, <1>4, <1>6, <2>1, ThreeKept
    <2>3. PICK q : q = [rm EXCEPT !.unev = u, !.exp = e, !.S = L, !.cont = c] OBVIOUS
    <2>4. q = [rm EXCEPT !.unev = u, !.S = L, !.exp = e, !.cont = c] BY <2>3
    <2>5. rm' = q BY <1>6, <2>1, <2>3, <2>4
    <2>6. q = [rm EXCEPT !.unev = u, !.exp = e, !.S = push(rm.S, vals), !.cont = c] BY <2>1, <2>3
    <2> QED BY <1>1, <1>3, <1>6, <2>2, <2>5, <2>6, PushSafe
  <1>7. CASE eval_application
    <2>1. Kept(F, cdr(heap, rm.exp)) /\ Kept(F, car(heap, rm.exp)) BY <1>4, CarKept
    <2> QED BY <1>2, <1>6, <1>7, <2>1 DEF eval_application, Dispatch
  <1>8. Kept(F, nthcdr(rm.exp, 2)) /\ Kept(F, nth(rm.exp, 1)) BY <1>4, NthKept
  <1>9. CASE eval_if BY <1>2, <1>6, <1>8, <1>9 DEF eval_if, Dispatch
  <1>10. CASE eval_and \/ eval_or
    <2>1. PICK s, c : eval_junction(s, c) BY <1>10 DEF eval_and, eval_or
    <2>2. PICK u, e : u = nthcdr(rm.exp, 2) /\ e = nth(rm.exp, 1) OBVIOUS
    <2>3. rm' = [rm EXCEPT !.unev = u, !.S = push(rm.S, <<k, rm.env, u>>), !.exp = e, !.cont = c]
      BY <1>2, <2>1, <2>2 DEF eval_junction, Dispatch
    <2> QED BY <1>6, <1>8, <2>2, <2>3
  <1> QED BY <1>5, <1>7, <1>9, <1>10

LEMMA EvalNoArgsSafe ==
  ASSUME NEW F, Holds(heap, F, rm), AllUpright, ~ adrift, eval_no_args
  PROVE  EcSafe'
  <1>1. Evaluates /\ UNCHANGED <<heap, env_global>> BY DEF eval_no_args
  <1>2. PICK e, vals, L, q :
          /\ e = car(heap, rm.exp) /\ vals = <<rm.cont>> /\ L = push(rm.S, vals)
          /\ q = [rm EXCEPT !.exp = e, !.S = L, !.cont = CONT_SETUP_NO_ARG_APPLY]
    OBVIOUS
  <1>3. rm' = q BY <1>2 DEF eval_no_args, Dispatch
  <1>4. Kept(F, rm.cont) /\ promise.stack_size \in StackSizes BY <1>1, EvalCont
  <1>5. Sound(heap, F) /\ Kept(F, rm.exp) /\ KeptSeq(F, rm.S) BY DEF Holds, RegsKept
  <1>6. Kept(F, e) /\ KeptSeq(F, vals) BY <1>2, <1>4, <1>5, CarKept, OneKept
  <1>7. KeptSeq(F, L) BY <1>2, <1>4, <1>5, <1>6, EcPushKept
  <1>8. RegsKept(F, q) BY <1>2, <1>6, <1>7 DEF Holds, RegsKept
  <1>9. Holds(heap', F, q) BY <1>1, <1>8 DEF Holds
  <1> QED BY <1>1, <1>3, <1>9, EndsSafe

\* A value has been made, perhaps after a collection.
LEMMA EvalLambdaSafe ==
  ASSUME NEW F, Holds(heap, F, rm), eval_lambda
  PROVE  EcSafe'
  <1> DEFINE env_end(h) == cons_result(h, rm.env, NIL)
             body(h) == cons_result(env_end(h).h, caddr(h, rm.exp), env_end(h).v)
             params(h) == cons_result(body(h).h, cadr(h, rm.exp), body(h).v)
             make(h) == cons_result(params(h).h, sym("closure"), params(h).v)
  <1>1. UNCHANGED env_global BY DEF eval_lambda
  <1>2. PICK first : first = make(heap) OBVIOUS
  <1>3. PICK second : second = make(gc(first.h, rm_roots(rm))) OBVIOUS
  <1>4. PICK closure : closure = IF first.v = MERROR THEN second ELSE first OBVIOUS
  <1>5. /\ heap' = closure.h
        /\ IF closure.v = MERROR THEN OutOfCells(rm) ELSE Continue([rm EXCEPT !.val = closure.v])
    <2>1. closure = allocate(make, heap, rm) BY <1>2, <1>3, <1>4 DEF allocate
    <2>2. /\ heap' = allocate(make, heap, rm).h
          /\ IF allocate(make, heap, rm).v = MERROR THEN OutOfCells(rm)
             ELSE Continue([rm EXCEPT !.val = allocate(make, heap, rm).v])
      BY Zenon DEF eval_lambda
    <2> QED BY <2>1, <2>2, Zenon
  <1>6. ASSUME NEW h, NEW E, Holds(h, E, rm) PROVE Leaves(make(h), E)
    <2>1. Sound(h, E) /\ Kept(E, rm.env) /\ Kept(E, rm.exp) /\ Kept(E, NIL) /\ Kept(E, sym("closure"))
      BY <1>6, KeptSym DEF Holds, RegsKept
    <2>2. PICK b, p : b = caddr(h, rm.exp) /\ p = cadr(h, rm.exp) OBVIOUS
    <2>3. Kept(E, b) /\ Kept(E, p) BY <2>1, <2>2, CarKept DEF caddr, cadr
    <2>4. PICK r1 : r1 = env_end(h) OBVIOUS
    <2>5. Leaves(r1, E) BY <2>1, <2>4, ConsLeaves
    <2>6. PICK r2 : r2 = cons_result(r1.h, b, r1.v) OBVIOUS
    <2>7. Leaves(r2, E)
      <3>1. PICK D : D \subseteq E /\ Sound(r1.h, D) /\ Kept(D, r1.v) BY <2>5 DEF Leaves
      <3>2. Kept(D, b) BY <2>3, <3>1, KeptMore
      <3>3. Leaves(r2, D) BY <2>6, <3>1, <3>2, ConsLeaves
      <3> QED BY <3>1, <3>3, LeavesMore
    <2>8. PICK r3 : r3 = cons_result(r2.h, p, r2.v) OBVIOUS
    <2>9. Leaves(r3, E)
      <3>1. PICK D : D \subseteq E /\ Sound(r2.h, D) /\ Kept(D, r2.v) BY <2>7 DEF Leaves
      <3>2. Kept(D, p) BY <2>3, <3>1, KeptMore
      <3>3. Leaves(r3, D) BY <2>8, <3>1, <3>2, ConsLeaves
      <3> QED BY <3>1, <3>3, LeavesMore
    <2>10. PICK r4 : r4 = cons_result(r3.h, sym("closure"), r3.v) OBVIOUS
    <2>11. Leaves(r4, E)
      <3>1. PICK D : D \subseteq E /\ Sound(r3.h, D) /\ Kept(D, r3.v) BY <2>9 DEF Leaves
      <3>2. Kept(D, sym("closure")) BY KeptSym
      <3>3. Leaves(r4, D) BY <2>10, <3>1, <3>2, ConsLeaves
      <3> QED BY <3>1, <3>3, LeavesMore
    <2>12. r4 = make(h) BY <2>2, <2>4, <2>6, <2>8, <2>10
    <2> QED BY <2>11, <2>12
  <1> HIDE DEF env_end, body, params, make
  <1>7. Leaves(first, F) BY <1>2, <1>6
  <1>8. \A E : Holds(gc(first.h, rm_roots(rm)), E, rm) => Leaves(second, E) BY <1>3, <1>6
  <1>9. PICK E : Holds(closure.h, E, rm) /\ Kept(E, closure.v)
    BY <1>4, <1>7, <1>8, Allocates
  <1>10. Holds(heap', E, rm) BY <1>5, <1>9
  <1>11. CASE closure.v = MERROR BY <1>1, <1>5, <1>10, <1>11, OutOfCellsSafe
  <1>12. CASE closure.v # MERROR
    <2>1. PICK v, q : v = closure.v /\ q = [rm EXCEPT !.val = v] OBVIOUS
    <2>2. rm' = q BY <1>5, <1>12, <2>1 DEF Continue
    <2>3. RegsKept(E, q) BY <1>9, <2>1 DEF Holds, RegsKept
    <2>4. Holds(heap', E, q) BY <1>10, <2>3 DEF Holds
    <2> QED BY <1>1, <2>2, <2>4, EndsSafe
  <1> QED BY <1>11, <1>12

\* The rest of a progn, whose environment is on top of the stack of r.
LEMMA SequenceSafe ==
  ASSUME NEW F, NEW r, Holds(heap, F, r), Kept(F, r.unev), UNCHANGED <<heap, env_global>>,
         promise.stack_size \in StackSizes, Len(r.S) >= 2, eval_sequence(r)
  PROVE  EcSafe'
  <1>1. Sound(heap, F) /\ KeptSeq(F, r.S) /\ RegsKept(F, r) BY DEF Holds, RegsKept
  <1>2. PICK S, n : S = r.S /\ n = Len(S) OBVIOUS
  <1>3. KeptSeq(F, S) /\ n \in Nat /\ n >= 2 BY <1>1, <1>2 DEF KeptSeq
  <1>4. PICK J, env, e, u : /\ J = SubSeq(S, 1, n - 1) /\ env = S[n] /\ u = r.unev
                            /\ e = car(heap, u)
    OBVIOUS
  <1>5. KeptSeq(F, J) /\ Len(J) = n - 1
    <2>1. PICK m : m = n - 1 OBVIOUS
    <2>2. m \in 0 .. Len(S) BY <1>2, <1>3, <2>1
    <2>3. KeptSeq(F, SubSeq(S, 1, m)) BY <1>3, <2>2, CutKept
    <2>4. IsSeq(S) BY <1>3 DEF KeptSeq
    <2>5. Len(SubSeq(S, 1, m)) = m BY <2>2, <2>4, CutSeq
    <2> QED BY <1>4, <2>1, <2>3, <2>5
  <1>6. Kept(F, env) /\ Kept(F, u) /\ Kept(F, e)
    <2>1. n \in 1 .. Len(S) BY <1>2, <1>3
    <2>2. Kept(F, S[n]) BY <1>3, <2>1 DEF KeptSeq
    <2> QED BY <1>1, <1>4, <2>2, CarKept
  <1>7. PICK q : q = [r EXCEPT !.exp = e, !.env = env] OBVIOUS
  <1>8. RegsKept(F, q) /\ q.env = env BY <1>1, <1>6, <1>7 DEF RegsKept
  <1>9. PICK L, two, M : /\ L = SubSeq(J, 1, Len(J) - 1) /\ two = <<env, u>> /\ M = push(J, two)
    OBVIOUS
  <1>10. KeptSeq(F, L)
    <2>1. PICK m : m = Len(J) - 1 OBVIOUS
    <2>2. m \in 0 .. Len(J) BY <1>3, <1>5, <2>1
    <2>3. KeptSeq(F, SubSeq(J, 1, m)) BY <1>5, <2>2, CutKept
    <2> QED BY <1>9, <2>1, <2>3
  <1>11. KeptSeq(F, M)
    <2>1. KeptSeq(F, two) BY <1>6, <1>9, TwoKept
    <2> QED BY <1>5, <1>9, <2>1, EcPushKept
  <1>12. \/ rm' = [q EXCEPT !.cont = J[Len(J)], !.S = L]
         \/ rm' = [q EXCEPT !.S = M, !.cont = CONT_SEQUENCE]
    BY <1>2, <1>4, <1>7, <1>8, <1>9 DEF eval_sequence, Dispatch
  <1>13. ASSUME NEW p, NEW c, NEW N, KeptSeq(F, N), rm' = p,
                p = [q EXCEPT !.cont = c, !.S = N] \/ p = [q EXCEPT !.S = N, !.cont = c]
         PROVE  EcSafe'
    <2>1. RegsKept(F, p) BY <1>8, <1>13 DEF RegsKept
    <2>2. Holds(heap', F, p) BY <2>1 DEF Holds
    <2> QED BY <1>13, <2>2, EndsSafe
  <1> QED BY <1>10, <1>11, <1>12, <1>13

LEMMA EvalPrognSafe ==
  ASSUME NEW F, Holds(heap, F, rm), AllUpright, ~ adrift, EcRoom, eval_progn
  PROVE  EcSafe'
  <1>1. Evaluates /\ UNCHANGED <<heap, env_global>> BY DEF eval_progn, Kind
  <1>2. PICK vals, L, u, r : /\ vals = <<rm.cont, rm.env>> /\ L = push(rm.S, vals)
                             /\ u = cdr(heap, rm.exp) /\ r = [rm EXCEPT !.S = L, !.unev = u]
    OBVIOUS
  <1>3. eval_sequence(r) BY <1>2 DEF eval_progn
  <1>4. Kept(F, rm.cont) /\ promise.stack_size \in StackSizes BY <1>1, EvalCont
  <1>5. Sound(heap, F) /\ Kept(F, rm.exp) /\ Kept(F, rm.env) /\ KeptSeq(F, rm.S)
    BY DEF Holds, RegsKept
  <1>6. Kept(F, u) /\ KeptSeq(F, vals) BY <1>2, <1>4, <1>5, CarKept, TwoKept
  <1>7. KeptSeq(F, L) BY <1>2, <1>4, <1>5, <1>6, EcPushKept
  <1>8. RegsKept(F, r) /\ r.unev = u /\ r.S = L
    <2>1. InHeap(u) BY <1>6, KeptIn
    <2> QED BY <1>2, <1>7, <2>1 DEF Holds, RegsKept
  <1>9. Holds(heap, F, r) BY <1>8 DEF Holds
  <1>10. Len(L) >= 2
    <2>1. IsSeq(rm.S) /\ Len(rm.S) \in Nat BY <1>5 DEF KeptSeq
    <2>2. IsSeq(vals) /\ Len(vals) = 2 BY <1>2, Tuples
    <2>3. PICK S : S = rm.S OBVIOUS
    <2>4. IsSeq(S) /\ L = push(S, vals) BY <1>2, <2>1, <2>3
    <2>5. Len(rm.S) + 2 <= promise.stack_size BY <1>4, <2>1, RoomFor
    <2>6. Len(S) + Len(vals) <= promise.stack_size BY <2>2, <2>3, <2>5
    <2>7. Len(L) = Len(S) + Len(vals)
      <3>1. promise.stack_size \in StackSizes BY <1>4
      <3>2. IsSeq(vals) BY <2>2
      <3> QED BY <2>4, <2>6, <3>1, <3>2, PushFits, Zenon
    <2> QED BY <2>1, <2>2, <2>3, <2>7
  <1>11. Kept(F, r.unev) /\ Len(r.S) >= 2 BY <1>6, <1>8, <1>10
  <1> QED BY <1>1, <1>3, <1>4, <1>9, <1>11, SequenceSafe

LEMMA ContSequenceSafe ==
  ASSUME NEW F, Holds(heap, F, rm), AllUpright, ~ adrift, cont_sequence
  PROVE  EcSafe'
  <1>1. Continues(CONT_SEQUENCE) /\ UNCHANGED <<heap, env_global>> BY DEF cont_sequence
  <1>2. FrameIs(CONT_SEQUENCE, 3, 1) BY DEF FrameIs
  <1>3. PICK L, u, r : L = pop(1) /\ u = cdr(heap, peek(0)) /\ r = [rm EXCEPT !.unev = u, !.S = L]
    OBVIOUS
  <1>4. eval_sequence(r) BY <1>3 DEF cont_sequence
  <1>5. Kept(F, peek(0)) /\ KeptSeq(F, L) /\ promise.stack_size \in StackSizes
    BY <1>1, <1>2, <1>3, FramePopped
  <1>6. Kept(F, u)
    <2>1. Sound(heap, F) BY DEF Holds
    <2> QED BY <1>3, <1>5, <2>1, CarKept
  <1>7. RegsKept(F, r) /\ r.unev = u /\ r.S = L
    <2>1. InHeap(u) BY <1>6, KeptIn
    <2> QED BY <1>3, <1>5, <2>1 DEF Holds, RegsKept
  <1>8. Holds(heap, F, r) BY <1>7 DEF Holds
  <1>9. Len(L) >= 2
    <2>1. PICK b, n : b = peek(3 - 1) /\ n = Len(rm.S) - 3 OBVIOUS
    <2>2. n \in Nat /\ Len(L) = n + 3 - 1
      <3>1. 1 \in 1 .. (3 - 1) OBVIOUS
      <3> QED BY <1>1, <1>2, <1>3, <2>1, <3>1, PopBears
    <2> QED BY <2>2
  <1>10. Kept(F, r.unev) /\ Len(r.S) >= 2 BY <1>6, <1>7, <1>9
  <1> QED BY <1>1, <1>4, <1>5, <1>8, <1>10, SequenceSafe

LEMMA NoneKept == ASSUME NEW F PROVE KeptSeq(F, <<>>)
  <1>1. <<>> \in Seq({}) /\ Len(<<>>) = 0 OBVIOUS
  <1>2. IsSeq(<<>>) BY <1>1, SeqIn, Zenon
  <1> QED BY <1>1, <1>2 DEF KeptSeq

(***************************************************************************)
(* EVAL_CONTINUATION: handlers that allocate nothing                       *)
(***************************************************************************)
LEMMA ContDoneSafe ==
  ASSUME NEW F, Holds(heap, F, rm), cont_done \/ cont_error
  PROVE  EcSafe'
  <1>1. CASE done' BY <1>1 DEF EcSafe
  <1>2. CASE cont_error BY <1>1, <1>2 DEF cont_error
  <1>3. CASE cont_done /\ ~ done'
    <2>1. UNCHANGED <<heap, env_global>> BY <1>3 DEF cont_done
    <2>2. Sound(heap, F) /\ Kept(F, rm.prg) BY DEF Holds, RegsKept
    <2>3. PICK e, p, none : e = car(heap, rm.prg) /\ p = cdr(heap, rm.prg) /\ none = <<>> OBVIOUS
    <2>4. PICK q : q = [rm EXCEPT !.exp = e, !.prg = p, !.env = NIL, !.argl = NIL, !.val = NIL,
                                  !.fun = NIL, !.S = none]
      OBVIOUS
    <2>5. rm' = q BY <1>3, <2>3, <2>4 DEF cont_done, Dispatch
    <2>6. Kept(F, e) /\ Kept(F, p) BY <2>2, <2>3, CarKept
    <2>7. KeptSeq(F, none) /\ Kept(F, NIL) BY <2>3, NoneKept, KeptSym
    <2>8. RegsKept(F, q) BY <2>4, <2>6, <2>7 DEF Holds, RegsKept
    <2>9. Holds(heap', F, q) BY <2>1, <2>8 DEF Holds
    <2> QED BY <2>1, <2>5, <2>9, EndsSafe
  <1> QED BY <1>1, <1>2, <1>3

LEMMA ContSetupNoArgApplySafe ==
  ASSUME NEW F, Holds(heap, F, rm), cont_setup_no_arg_apply
  PROVE  EcSafe'
  <1>1. UNCHANGED <<heap, env_global>> BY DEF cont_setup_no_arg_apply
  <1>2. PICK v, q : v = rm.val /\ q = [rm EXCEPT !.fun = v, !.argl = NIL] OBVIOUS
  <1>3. rm' = q BY <1>2 DEF cont_setup_no_arg_apply
  <1>4. Kept(F, v) /\ Kept(F, NIL) BY <1>2, KeptSym DEF Holds, RegsKept
  <1>5. RegsKept(F, q) BY <1>2, <1>4 DEF Holds, RegsKept
  <1>6. Holds(heap', F, q) BY <1>1, <1>5 DEF Holds
  <1> QED BY <1>1, <1>3, <1>6, EndsSafe

LEMMA ContBranchSafe ==
  ASSUME NEW F, Holds(heap, F, rm), AllUpright, ~ adrift, cont_branch
  PROVE  EcSafe'
  <1>1. Continues(CONT_BRANCH) /\ UNCHANGED <<heap, env_global>> BY DEF cont_branch
  <1>2. FrameIs(CONT_BRANCH, 3, 1) BY FrameSizes
  <1>3. Kept(F, peek(0)) /\ Kept(F, peek(1)) /\ KeptSeq(F, pop(3)) BY <1>1, <1>2, FramePopped
  <1>4. PICK i : i \in Nat /\ i = IF rm.val = NIL THEN 1 ELSE 0 OBVIOUS
  <1>5. PICK u, env, k, L, e : /\ u = peek(0) /\ env = peek(1) /\ k = peek(2) /\ L = pop(3)
                               /\ e = nth(u, i)
    OBVIOUS
  <1>6. Sound(heap, F) BY DEF Holds
  <1>7. Kept(F, u) /\ Kept(F, env) /\ KeptSeq(F, L) BY <1>3, <1>5
  <1>8. Kept(F, e) BY <1>4, <1>5, <1>6, <1>7, NthKept
  <1>9. InHeap(u) BY <1>7, KeptIn
  <1>10. PICK q : q = [rm EXCEPT !.unev = u, !.env = env, !.cont = k, !.S = L, !.exp = e] OBVIOUS
  <1>11. rm' = q BY <1>4, <1>5, <1>10 DEF cont_branch, Dispatch
  <1>12. RegsKept(F, q) BY <1>7, <1>8, <1>9, <1>10 DEF Holds, RegsKept
  <1>13. Holds(heap', F, q) BY <1>1, <1>12 DEF Holds
  <1> QED BY <1>1, <1>11, <1>13, EndsSafe

LEMMA ContEndLetSafe ==
  ASSUME NEW F, Holds(heap, F, rm), AllUpright, ~ adrift, cont_end_let
  PROVE  EcSafe'
  <1>1. Continues(CONT_END_LET) /\ UNCHANGED <<heap, env_global>> BY DEF cont_end_let
  <1>2. FrameIs(CONT_END_LET, 2, 1) BY FrameSizes
  <1>3. Kept(F, peek(0)) /\ KeptSeq(F, pop(2)) BY <1>1, <1>2, FramePopped
  <1>4. PICK env, k, L : env = peek(0) /\ k = peek(1) /\ L = pop(2) OBVIOUS
  <1>5. PICK q : q = [rm EXCEPT !.env = env, !.cont = k, !.S = L] OBVIOUS
  <1>6. rm' = q BY <1>4, <1>5 DEF cont_end_let, Continue
  <1>7. RegsKept(F, q) BY <1>3, <1>4, <1>5 DEF Holds, RegsKept
  <1>8. Holds(heap', F, q) BY <1>1, <1>7 DEF Holds
  <1> QED BY <1>1, <1>6, <1>8, EndsSafe

LEMMA JunctionsSafe ==
  ASSUME NEW F, Holds(heap, F, rm), AllUpright, ~ adrift, cont_and \/ cont_or
  PROVE  EcSafe'
  <1>1. PICK c : FrameIs(c, 3, 1) /\ \E d : cont_junction(c, d)
    BY FrameSizes DEF cont_and, cont_or
  <1>2. Continues(c) /\ UNCHANGED <<heap, env_global>> BY <1>1 DEF cont_junction
  <1>3. /\ Kept(F, peek(0)) /\ Kept(F, peek(1)) /\ KeptSeq(F, pop(2)) /\ KeptSeq(F, pop(3))
        /\ promise.stack_size \in StackSizes
    BY <1>1, <1>2, FramePopped
  <1>4. PICK a, env, k, J, K : a = peek(0) /\ env = peek(1) /\ k = peek(2) /\ J = pop(2) /\ K = pop(3)
    OBVIOUS
  <1>5. PICK e, u : e = car(heap, a) /\ u = cdr(heap, a) OBVIOUS
  <1>6. Kept(F, a) /\ Kept(F, env) /\ KeptSeq(F, J) /\ KeptSeq(F, K) BY <1>3, <1>4
  <1>7. Kept(F, e) /\ Kept(F, u)
    <2>1. Sound(heap, F) BY DEF Holds
    <2> QED BY <1>5, <1>6, <2>1, CarKept
  <1>8. PICK two, L : two = <<env, u>> /\ L = push(J, two) OBVIOUS
  <1>9. KeptSeq(F, L)
    <2>1. KeptSeq(F, two) BY <1>6, <1>7, <1>8, TwoKept
    <2> QED BY <1>3, <1>6, <1>8, <2>1, EcPushKept
  <1>10. PICK r : r = [rm EXCEPT !.unev = a, !.env = env] OBVIOUS
  <1>11. RegsKept(F, r) /\ InHeap(u)
    <2>1. InHeap(a) /\ InHeap(u) BY <1>6, <1>7, KeptIn
    <2> QED BY <1>6, <1>10, <2>1 DEF Holds, RegsKept
  <1>12. PICK p, q : /\ p = [r EXCEPT !.cont = k, !.S = K]
                     /\ q = [r EXCEPT !.exp = e, !.unev = u, !.S = L]
    OBVIOUS
  <1>13. rm' = p \/ rm' = q
    BY <1>1, <1>4, <1>5, <1>8, <1>10, <1>12 DEF cont_junction, Continue, Dispatch
  <1>14. RegsKept(F, p) BY <1>6, <1>11, <1>12 DEF RegsKept
  <1>15. RegsKept(F, q) BY <1>7, <1>9, <1>11, <1>12 DEF RegsKept
  <1>16. Holds(heap', F, p) /\ Holds(heap', F, q) BY <1>2, <1>14, <1>15 DEF Holds
  <1> QED BY <1>2, <1>13, <1>16, EndsSafe

\* The next binding of a let, or its body, which is on top of the stack of r.
LEMMA LetLoopSafe ==
  ASSUME NEW F, NEW h, NEW r, Holds(h, F, r), Kept(F, r.unev), heap' = h, UNCHANGED env_global,
         promise.stack_size \in StackSizes, Len(r.S) >= 1, eval_let_loop(h, r)
  PROVE  EcSafe'
  <1>1. Sound(h, F) /\ RegsKept(F, r) BY DEF Holds
  <1>2. PICK S, n, u, env : S = r.S /\ n = Len(S) /\ u = r.unev /\ env = r.env OBVIOUS
  <1>3. KeptSeq(F, S) /\ Kept(F, u) /\ Kept(F, env) BY <1>1, <1>2 DEF RegsKept
  <1>4. n \in Nat /\ n >= 1 BY <1>2, <1>3 DEF KeptSeq
  <1>5. PICK a, J, e, two, L : /\ a = S[n] /\ J = SubSeq(S, 1, n - 1)
                               /\ e = car(h, cdr(h, car(h, u)))
                               /\ two = <<env, u>> /\ L = push(S, two)
    OBVIOUS
  <1>6. Kept(F, a)
    <2>1. n \in 1 .. Len(S) BY <1>2, <1>4
    <2> QED BY <1>3, <1>5, <2>1 DEF KeptSeq
  <1>7. KeptSeq(F, J)
    <2>1. PICK m : m = n - 1 OBVIOUS
    <2>2. m \in 0 .. Len(S) BY <1>2, <1>4, <2>1
    <2>3. KeptSeq(F, SubSeq(S, 1, m)) BY <1>3, <2>2, CutKept
    <2> QED BY <1>5, <2>1, <2>3
  <1>8. Kept(F, e)
    <2>1. Kept(F, car(h, u)) BY <1>1, <1>3, CarKept
    <2>2. Kept(F, cdr(h, car(h, u))) BY <1>1, <2>1, CarKept
    <2> QED BY <1>1, <1>5, <2>2, CarKept
  <1>9. KeptSeq(F, L)
    <2>1. KeptSeq(F, two) BY <1>3, <1>5, TwoKept
    <2> QED BY <1>3, <1>5, <2>1, EcPushKept
  <1>10. PICK p, q : /\ p = [r EXCEPT !.exp = a, !.S = J, !.cont = CONT_END_LET]
                     /\ q = [r EXCEPT !.exp = e, !.S = L, !.cont = CONT_BIND_VAR]
    OBVIOUS
  <1>11. rm' = p \/ rm' = q BY <1>2, <1>5, <1>10 DEF eval_let_loop, Dispatch
  <1>12. RegsKept(F, p) BY <1>1, <1>6, <1>7, <1>10 DEF RegsKept
  <1>13. RegsKept(F, q) BY <1>1, <1>8, <1>9, <1>10 DEF RegsKept
  <1>14. Holds(heap', F, p) /\ Holds(heap', F, q) BY <1>12, <1>13 DEF Holds
  <1> QED BY <1>11, <1>14, EndsSafe

LEMMA ContBindVarSafe ==
  ASSUME NEW F, Holds(heap, F, rm), AllUpright, ~ adrift, cont_bind_var
  PROVE  EcSafe'
  <1>1. Continues(CONT_BIND_VAR) /\ UNCHANGED env_global BY DEF cont_bind_var
  <1>2. FrameIs(CONT_BIND_VAR, 5, 1) BY FrameSizes
  <1>3. /\ Kept(F, peek(0)) /\ Kept(F, peek(1)) /\ KeptSeq(F, pop(2))
        /\ promise.stack_size \in StackSizes
    BY <1>1, <1>2, FramePopped
  <1>4. PICK a, env, L, key, v, h : /\ a = peek(0) /\ env = peek(1) /\ L = pop(2) /\ v = rm.val
                                    /\ key = nth(nth(a, 0), 0) /\ h = heap'
    OBVIOUS
  <1>5. Kept(F, a) /\ Kept(F, env) /\ Kept(F, v) /\ KeptSeq(F, L)
    BY <1>3, <1>4 DEF Holds, RegsKept
  <1>6. h = env_modify_binding(heap, env, key, v) BY <1>4 DEF cont_bind_var
  <1>7. Sound(h, F)
    <2>1. Sound(heap, F) BY DEF Holds
    <2> QED BY <1>5, <1>6, <2>1, ModifySound
  <1>8. PICK u : u = cdr(h, a) OBVIOUS
  <1>9. Kept(F, u) /\ InHeap(u)
    <2>1. Kept(F, u) BY <1>5, <1>7, <1>8, CarKept
    <2> QED BY <2>1, KeptIn
  <1>10. PICK r : r = [rm EXCEPT !.unev = u, !.env = env, !.S = L] OBVIOUS
  <1>11. eval_let_loop(h, r) BY <1>4, <1>8, <1>10 DEF cont_bind_var
  <1>12. RegsKept(F, r) /\ r.unev = u /\ r.S = L
    BY <1>5, <1>9, <1>10 DEF Holds, RegsKept
  <1>13. Holds(h, F, r) BY <1>7, <1>12 DEF Holds
  <1>14. Len(r.S) >= 1
    <2>1. PICK b, n : b = peek(5 - 1) /\ n = Len(rm.S) - 5 OBVIOUS
    <2>2. n \in Nat /\ Len(L) = n + 5 - 2
      <3>1. 2 \in 1 .. (5 - 1) OBVIOUS
      <3> QED BY <1>1, <1>2, <1>4, <2>1, <3>1, PopBears
    <2> QED BY <1>12, <2>2
  <1>15. Kept(F, r.unev) /\ heap' = h BY <1>4, <1>9, <1>12
  <1> QED BY <1>1, <1>3, <1>11, <1>13, <1>14, <1>15, LetLoopSafe

\* The next argument.
LEMMA ArgLoopSafe ==
  ASSUME NEW F, NEW h, NEW r, Holds(h, F, r), Kept(F, r.unev), heap' = h, UNCHANGED env_global,
         promise.stack_size \in StackSizes, eval_arg_loop(h, r)
  PROVE  EcSafe'
  <1>1. Sound(h, F) /\ RegsKept(F, r) BY DEF Holds
  <1>2. PICK S, u, env, argl : S = r.S /\ u = r.unev /\ env = r.env /\ argl = r.argl OBVIOUS
  <1>3. KeptSeq(F, S) /\ Kept(F, u) /\ Kept(F, env) /\ Kept(F, argl) BY <1>1, <1>2 DEF RegsKept
  <1>4. PICK one, J, e, two, L : /\ one = <<argl>> /\ J = push(S, one) /\ e = car(h, u)
                                 /\ two = <<env, u>> /\ L = push(J, two)
    OBVIOUS
  <1>5. KeptSeq(F, J)
    <2>1. KeptSeq(F, one) BY <1>3, <1>4, OneKept
    <2> QED BY <1>3, <1>4, <2>1, EcPushKept
  <1>6. KeptSeq(F, L)
    <2>1. KeptSeq(F, two) BY <1>3, <1>4, TwoKept
    <2> QED BY <1>4, <1>5, <2>1, EcPushKept
  <1>7. Kept(F, e) BY <1>1, <1>3, <1>4, CarKept
  <1>8. PICK q : q = [r EXCEPT !.exp = e] OBVIOUS
  <1>9. RegsKept(F, q) BY <1>1, <1>7, <1>8 DEF RegsKept
  <1>10. PICK x, y : /\ x = [q EXCEPT !.S = J, !.cont = CONT_ACCUMULATE_LAST_ARG]
                     /\ y = [q EXCEPT !.S = L, !.cont = CONT_ACCUMULATE_ARG]
    OBVIOUS
  <1>11. rm' = x \/ rm' = y BY <1>2, <1>4, <1>8, <1>10 DEF eval_arg_loop, Dispatch
  <1>12. RegsKept(F, x) BY <1>5, <1>9, <1>10 DEF RegsKept
  <1>13. RegsKept(F, y) BY <1>6, <1>9, <1>10 DEF RegsKept
  <1>14. Holds(heap', F, x) /\ Holds(heap', F, y) BY <1>12, <1>13 DEF Holds
  <1> QED BY <1>11, <1>14, EndsSafe

LEMMA ContEvalArgsSafe ==
  ASSUME NEW F, Holds(heap, F, rm), AllUpright, ~ adrift, cont_eval_args
  PROVE  EcSafe'
  <1>1. Continues(CONT_EVAL_ARGS) /\ UNCHANGED <<heap, env_global>> BY DEF cont_eval_args
  <1>2. FrameIs(CONT_EVAL_ARGS, 3, 1) BY FrameSizes
  <1>3. /\ Kept(F, peek(0)) /\ Kept(F, peek(1)) /\ KeptSeq(F, pop(2))
        /\ promise.stack_size \in StackSizes
    BY <1>1, <1>2, FramePopped
  <1>4. PICK u, env, J, v, one, L : /\ u = peek(0) /\ env = peek(1) /\ J = pop(2) /\ v = rm.val
                                    /\ one = <<v>> /\ L = push(J, one)
    OBVIOUS
  <1>5. Kept(F, u) /\ Kept(F, env) /\ Kept(F, v) /\ KeptSeq(F, J) /\ InHeap(u)
    <2>1. Kept(F, u) BY <1>3, <1>4
    <2> QED BY <1>3, <1>4, <2>1, KeptIn DEF Holds, RegsKept
  <1>6. KeptSeq(F, L)
    <2>1. KeptSeq(F, one) BY <1>4, <1>5, OneKept
    <2> QED BY <1>3, <1>4, <1>5, <2>1, EcPushKept
  <1>7. PICK r : r = [rm EXCEPT !.unev = u, !.env = env, !.fun = v, !.S = L, !.argl = NIL] OBVIOUS
  <1>8. eval_arg_loop(heap, r) BY <1>4, <1>7 DEF cont_eval_args
  <1>9. Kept(F, NIL) BY KeptSym
  <1>10. RegsKept(F, r) /\ r.unev = u BY <1>5, <1>6, <1>7, <1>9 DEF Holds, RegsKept
  <1>11. Holds(heap, F, r) BY <1>10 DEF Holds
  <1>12. Kept(F, r.unev) BY <1>5, <1>10
  <1> QED BY <1>1, <1>3, <1>8, <1>11, <1>12, ArgLoopSafe

(***************************************************************************)
(* EVAL_CONTINUATION: handlers that allocate                               *)
(***************************************************************************)
LEMMA ContAccumulateArgSafe ==
  ASSUME NEW F, Holds(heap, F, rm), AllUpright, ~ adrift, cont_accumulate_arg
  PROVE  EcSafe'
  <1>1. Continues(CONT_ACCUMULATE_ARG) /\ UNCHANGED env_global BY DEF cont_accumulate_arg
  <1>2. FrameIs(CONT_ACCUMULATE_ARG, 5, 1) BY FrameSizes
  <1>3. /\ Kept(F, peek(0)) /\ Kept(F, peek(1)) /\ Kept(F, peek(2)) /\ KeptSeq(F, pop(3))
        /\ promise.stack_size \in StackSizes
    BY <1>1, <1>2, FramePopped
  <1>4. PICK u, env, a, L : u = peek(0) /\ env = peek(1) /\ a = peek(2) /\ L = pop(3) OBVIOUS
  <1>5. PICK r : r = [rm EXCEPT !.unev = u, !.env = env, !.argl = a, !.S = L] OBVIOUS
  <1>6. Kept(F, u) /\ Kept(F, env) /\ Kept(F, a) /\ KeptSeq(F, L) /\ InHeap(u)
    <2>1. Kept(F, u) BY <1>3, <1>4
    <2> QED BY <1>3, <1>4, <2>1, KeptIn
  <1>7. RegsKept(F, r) /\ r.unev = u BY <1>5, <1>6 DEF Holds, RegsKept
  <1>8. Holds(heap, F, r) BY <1>7 DEF Holds
  <1> DEFINE add(h) == cons_result(h, r.val, r.argl)
  <1>9. PICK first : first = add(heap) OBVIOUS
  <1>10. PICK second : second = add(gc(first.h, rm_roots(r))) OBVIOUS
  <1>11. PICK argl : argl = IF first.v = MERROR THEN second ELSE first OBVIOUS
  <1>12. PICK v, h, d : v = argl.v /\ h = argl.h /\ d = cdr(h, u) OBVIOUS
  <1>13. PICK q : q = [r EXCEPT !.argl = v, !.unev = d] OBVIOUS
  <1>14. heap' = h /\ (OutOfCells(r) \/ eval_arg_loop(h, q))
    BY <1>4, <1>5, <1>7, <1>9, <1>10, <1>11, <1>12, <1>13 DEF cont_accumulate_arg, allocate
  <1>15. ASSUME NEW g, NEW E, Holds(g, E, r) PROVE Leaves(add(g), E)
    <2>1. Sound(g, E) /\ Kept(E, r.val) /\ Kept(E, r.argl) BY <1>15 DEF Holds, RegsKept
    <2> QED BY <2>1, ConsLeaves
  <1> HIDE DEF add
  <1>16. Leaves(first, F) BY <1>8, <1>9, <1>15
  <1>17. \A E : Holds(gc(first.h, rm_roots(r)), E, r) => Leaves(second, E) BY <1>10, <1>15
  <1>18. PICK E : Holds(argl.h, E, r) /\ Kept(E, argl.v) /\ (Kept(F, r.unev) => Kept(E, r.unev))
    BY <1>8, <1>11, <1>16, <1>17, Allocates
  <1>19. Holds(h, E, r) /\ Kept(E, v) /\ Kept(E, u) BY <1>6, <1>7, <1>12, <1>18
  <1>20. CASE OutOfCells(r) BY <1>1, <1>14, <1>19, <1>20, OutOfCellsSafe
  <1>21. CASE eval_arg_loop(h, q)
    <2>1. Kept(E, d) /\ InHeap(d)
      <3>1. Sound(h, E) BY <1>19 DEF Holds
      <3>2. Kept(E, d) BY <1>12, <1>19, <3>1, CarKept
      <3> QED BY <3>2, KeptIn
    <2>2. RegsKept(E, q) /\ q.unev = d BY <1>13, <1>19, <2>1 DEF Holds, RegsKept
    <2>3. Holds(h, E, q) BY <1>19, <2>2 DEF Holds
    <2>4. Kept(E, q.unev) /\ heap' = h BY <1>14, <2>1, <2>2
    <2> QED BY <1>1, <1>3, <1>21, <2>3, <2>4, ArgLoopSafe
  <1> QED BY <1>14, <1>20, <1>21

\* What is under the topmost value of the stack without it.
LEMMA NextPopped ==
  ASSUME NEW F, IsSeq(rm.S), Len(rm.S) \in Nat, Len(rm.S) >= 2, KeptSeq(F, pop(1))
  PROVE  Kept(F, peek(1)) /\ KeptSeq(F, pop(2))
  <1>1. PICK S, n, J, K : S = rm.S /\ n = Len(S) /\ J = SubSeq(S, 1, n - 1) /\ K = SubSeq(S, 1, n - 2)
    OBVIOUS
  <1>2. IsSeq(S) /\ n \in Nat /\ n >= 2 BY <1>1
  <1>3. KeptSeq(F, J) BY <1>1 DEF pop
  <1>4. PICK i, j : i = n - 1 /\ j = n - 2 OBVIOUS
  <1>5. i \in 0 .. Len(S) /\ j \in 0 .. Len(S) BY <1>1, <1>2, <1>4
  <1>6. Len(J) = i /\ \A k \in 1 .. i : J[k] = S[k]
    <2>1. J = SubSeq(S, 1, i) /\ i \in 0 .. Len(S) /\ IsSeq(S) BY <1>1, <1>2, <1>4, <1>5
    <2>2. Len(SubSeq(S, 1, i)) = i /\ \A k \in 1 .. i : SubSeq(S, 1, i)[k] = S[k]
      BY <2>1, CutSeq, Zenon
    <2> QED BY <2>1, <2>2, Zenon
  <1>7. IsSeq(K) /\ Len(K) = j /\ \A k \in 1 .. j : K[k] = S[k]
    <2>1. K = SubSeq(S, 1, j) /\ j \in 0 .. Len(S) /\ IsSeq(S) BY <1>1, <1>2, <1>4, <1>5
    <2>2. /\ IsSeq(SubSeq(S, 1, j)) /\ Len(SubSeq(S, 1, j)) = j
          /\ \A k \in 1 .. j : SubSeq(S, 1, j)[k] = S[k]
      BY <2>1, CutSeq, Zenon
    <2> QED BY <2>1, <2>2, Zenon
  <1>8. \A k \in 1 .. i : Kept(F, S[k]) BY <1>3, <1>6 DEF KeptSeq
  <1>9. i \in 1 .. i /\ j \in Nat /\ \A k \in 1 .. j : k \in 1 .. i BY <1>2, <1>4
  <1>10. Kept(F, S[i]) BY <1>8, <1>9
  <1>11. KeptSeq(F, K) BY <1>7, <1>8, <1>9 DEF KeptSeq
  <1> QED BY <1>1, <1>4, <1>10, <1>11 DEF peek, pop

LEMMA ReverseLeaves ==
  ASSUME NEW h, NEW F, Sound(h, F), NEW list, Kept(F, list)
  PROVE  Leaves(reverse(h, list), F)
  <1>1. PICK vals, which : vals = elements(h, list) /\ which = 1 .. length(h, list) OBVIOUS
  <1>2. KeptSeq(F, vals) BY <1>1, ElementsKept
  <1>3. Kept(F, NIL) BY KeptSym
  <1>4. Leaves(push_each(h, vals, which, NIL), F) BY <1>2, <1>3, PushEachLeaves
  <1> QED BY <1>1, <1>4 DEF reverse

LEMMA ContAccumulateLastArgSafe ==
  ASSUME NEW F, Holds(heap, F, rm), AllUpright, ~ adrift, cont_accumulate_last_arg
  PROVE  EcSafe'
  <1> DEFINE regs == [rm EXCEPT !.argl = peek(0), !.S = pop(1)]
             add(h) == cons_result(h, regs.val, regs.argl)
             args == allocate(add, heap, regs)
             turn(h) == reverse(h, args.v)
             turned == allocate(turn, args.h, [regs EXCEPT !.argl = args.v])
  <1>1. Continues(CONT_ACCUMULATE_LAST_ARG) /\ UNCHANGED env_global BY DEF cont_accumulate_last_arg
  <1>2. FrameIs(CONT_ACCUMULATE_LAST_ARG, 3, 1) BY FrameSizes
  <1>3. Kept(F, peek(0)) /\ KeptSeq(F, pop(1)) BY <1>1, <1>2, FramePopped
  <1>4. IsSeq(rm.S) /\ Len(rm.S) \in Nat /\ Len(rm.S) >= 2
    <2>1. Backed(rm.S, CONT_ACCUMULATE_LAST_ARG, Len(rm.S)) BY <1>1, <1>2, FoundByFrame DEF Balanced
    <2>2. 3 \in 1 .. Len(rm.S) /\ IsSeq(rm.S) /\ Len(rm.S) \in Nat BY <1>2, <2>1, FrameOff, BackedIn
    <2> QED BY <2>2
  <1>5. PICK a, J, b, K : a = peek(0) /\ J = pop(1) /\ b = peek(1) /\ K = pop(2) OBVIOUS
  <1>6. \A E : KeptSeq(E, J) => Kept(E, b) /\ KeptSeq(E, K) BY <1>4, <1>5, NextPopped
  <1>7. PICK r : r = regs OBVIOUS
  <1>8. RegsKept(F, r) /\ r.S = J
    <2>1. r = [rm EXCEPT !.argl = a, !.S = J] BY <1>5, <1>7
    <2> QED BY <1>3, <1>5, <2>1 DEF Holds, RegsKept
  <1>9. Holds(heap, F, r) BY <1>8 DEF Holds
  <1>10. PICK first : first = add(heap) OBVIOUS
  <1>11. PICK second : second = add(gc(first.h, rm_roots(r))) OBVIOUS
  <1>12. PICK argl : argl = args OBVIOUS
  <1>13. PICK v, h : v = argl.v /\ h = argl.h OBVIOUS
  <1>14. PICK q : q = [r EXCEPT !.argl = v] OBVIOUS
  <1>15. PICK third : third = turn(h) OBVIOUS
  <1>16. PICK fourth : fourth = turn(gc(third.h, rm_roots(q))) OBVIOUS
  <1>17. PICK rev : rev = turned OBVIOUS
  <1>18. PICK k, w, val, p : /\ k = (IF rev.v = MERROR THEN CONT_DONE ELSE r.cont) /\ w = rev.v
                             /\ val = (IF w = MERROR THEN MERROR ELSE r.val)
                             /\ p = [r EXCEPT !.argl = w, !.fun = b, !.S = K, !.cont = k, !.val = val]
    OBVIOUS
  <1>19. argl = IF first.v = MERROR THEN second ELSE first
    BY <1>7, <1>10, <1>11, <1>12 DEF allocate
  <1>20. rev = IF third.v = MERROR THEN fourth ELSE third
    <2>1. args.h = h /\ [regs EXCEPT !.argl = args.v] = q BY <1>7, <1>12, <1>13, <1>14
    <2>2. turned = allocate(turn, h, q) BY <2>1
    <2>3. rev = allocate(turn, h, q) BY <1>17, <2>2
    <2> HIDE DEF regs, args, turned, turn, add
    <2> QED BY <1>15, <1>16, <2>3 DEF allocate
  <1>21. (heap' = h /\ OutOfCells(r)) \/ (heap' = rev.h /\ rm' = p)
    <2>1. \/ heap' = args.h /\ OutOfCells(regs)
          \/ /\ heap' = turned.h
             /\ rm' = [regs EXCEPT !.argl = turned.v, !.fun = peek(1), !.S = pop(2),
                                  !.cont = IF turned.v = MERROR THEN CONT_DONE ELSE regs.cont,
                                  !.val = IF turned.v = MERROR THEN MERROR ELSE regs.val]
      BY Zenon DEF cont_accumulate_last_arg
    <2> HIDE DEF regs, args, turned
    <2>2. /\ (heap' = args.h /\ OutOfCells(regs)) => (heap' = h /\ OutOfCells(r))
      BY <1>7, <1>12, <1>13
    <2> QED BY <1>5, <1>7, <1>17, <1>18, <2>1, <2>2
  <1>22. ASSUME NEW g, NEW E, Holds(g, E, r) PROVE Leaves(add(g), E)
    <2>1. Sound(g, E) /\ Kept(E, r.val) /\ Kept(E, r.argl) BY <1>22 DEF Holds, RegsKept
    <2>2. Leaves(cons_result(g, r.val, r.argl), E) BY <2>1, ConsLeaves
    <2> QED BY <1>7, <2>2
  <1>23. ASSUME NEW g, NEW E, Holds(g, E, q) PROVE Leaves(turn(g), E)
    <2>1. q.argl = v BY <1>8, <1>14 DEF RegsKept
    <2>2. Sound(g, E) /\ Kept(E, v) BY <1>23, <2>1 DEF Holds, RegsKept
    <2>3. Leaves(reverse(g, v), E) BY <2>2, ReverseLeaves
    <2> QED BY <1>12, <1>13, <2>3
  <1> HIDE DEF regs, add, args, turn, turned
  <1>24. Leaves(first, F) BY <1>9, <1>10, <1>22
  <1>25. \A E : Holds(gc(first.h, rm_roots(r)), E, r) => Leaves(second, E) BY <1>11, <1>22
  <1>26. PICK E : Holds(argl.h, E, r) /\ Kept(E, argl.v) BY <1>9, <1>19, <1>24, <1>25, Allocates
  <1>27. Holds(h, E, r) /\ Kept(E, v) BY <1>13, <1>26
  <1>28. CASE heap' = h /\ OutOfCells(r) BY <1>1, <1>27, <1>28, OutOfCellsSafe
  <1>29. CASE heap' = rev.h /\ rm' = p
    <2>1. RegsKept(E, q) BY <1>14, <1>27 DEF Holds, RegsKept
    <2>2. Holds(h, E, q) BY <1>27, <2>1 DEF Holds
    <2>3. Leaves(third, E) BY <1>15, <1>23, <2>2
    <2>4. \A D : Holds(gc(third.h, rm_roots(q)), D, q) => Leaves(fourth, D) BY <1>16, <1>23
    <2>5. PICK D : Holds(rev.h, D, q) /\ Kept(D, rev.v) BY <1>20, <2>2, <2>3, <2>4, Allocates
    <2>6. Kept(D, w) /\ RegsKept(D, q) BY <1>18, <2>5 DEF Holds
    <2>7. q.S = J /\ q.val = r.val BY <1>8, <1>14 DEF RegsKept
    <2>8. KeptSeq(D, J) /\ Kept(D, r.val) BY <2>6, <2>7 DEF RegsKept
    <2>9. Kept(D, b) /\ KeptSeq(D, K) BY <1>6, <2>8
    <2>10. Kept(D, val) BY <1>18, <2>8, KeptSym DEF MERROR
    <2>11. p = [q EXCEPT !.argl = w, !.fun = b, !.S = K, !.cont = k, !.val = val] BY <1>14, <1>18
    <2>12. RegsKept(D, p) BY <2>6, <2>9, <2>10, <2>11 DEF RegsKept
    <2>13. Holds(heap', D, p) BY <1>29, <2>5, <2>12 DEF Holds
    <2> QED BY <1>1, <1>29, <2>13, EndsSafe
  <1> QED BY <1>21, <1>28, <1>29

LEMMA ContDefineSafe ==
  ASSUME NEW F, Holds(heap, F, rm), AllUpright, ~ adrift, cont_define
  PROVE  EcSafe'
  <1>1. Continues(CONT_DEFINE) BY DEF cont_define
  <1>2. FrameIs(CONT_DEFINE, 2, 2) BY FrameSizes
  <1>3. Kept(F, peek(1)) /\ KeptSeq(F, pop(2)) BY <1>1, <1>2, FramePopped
  <1>4. PICK k, u, L : k = peek(0) /\ u = peek(1) /\ L = pop(2) OBVIOUS
  <1>5. PICK r : r = [rm EXCEPT !.cont = k, !.unev = u, !.S = L] OBVIOUS
  <1>6. Kept(F, u) /\ InHeap(u) /\ KeptSeq(F, L)
    <2>1. Kept(F, u) BY <1>3, <1>4
    <2> QED BY <1>3, <1>4, <2>1, KeptIn
  <1>7. RegsKept(F, r) /\ r.unev = u BY <1>5, <1>6 DEF Holds, RegsKept
  <1>8. Holds(heap, F, r) BY <1>7 DEF Holds
  <1> DEFINE set(h) == env_set(h, env_global, r.unev, r.val)
  <1>9. PICK first : first = set(heap) OBVIOUS
  <1>10. PICK second : second = set(gc(first.h, rm_roots(r))) OBVIOUS
  <1>11. PICK new_env : new_env = IF first.v = MERROR THEN second ELSE first OBVIOUS
  <1>12. PICK q : q = [r EXCEPT !.val = u] OBVIOUS
  <1>13. /\ heap' = new_env.h
         /\ \/ OutOfCells(r) /\ UNCHANGED env_global
            \/ rm' = q /\ env_global' = new_env.v
    BY <1>4, <1>5, <1>7, <1>9, <1>10, <1>11, <1>12 DEF cont_define, allocate, Continue
  <1>14. ASSUME NEW g, NEW E, Holds(g, E, r), Kept(E, r.unev) PROVE Leaves(set(g), E)
    <2>1. Sound(g, E) /\ Kept(E, r.val) /\ Kept(E, env_global) BY <1>14 DEF Holds, RegsKept
    <2> QED BY <1>14, <2>1, EnvSetLeaves
  <1> HIDE DEF set
  <1>15. Kept(F, r.unev) BY <1>6, <1>7
  <1>16. Leaves(first, F) BY <1>8, <1>9, <1>14, <1>15
  <1>17. \A E : /\ Holds(gc(first.h, rm_roots(r)), E, r) /\ (Kept(F, r.unev) => Kept(E, r.unev))
                  => Leaves(second, E)
    BY <1>10, <1>14, <1>15
  <1>18. PICK E : Holds(new_env.h, E, r) /\ Kept(E, new_env.v) /\ (Kept(F, r.unev) => Kept(E, r.unev))
    BY <1>8, <1>11, <1>16, <1>17, Allocates
  <1>19. Holds(heap', E, r) /\ Kept(E, u) BY <1>7, <1>13, <1>15, <1>18
  <1>20. CASE OutOfCells(r) /\ UNCHANGED env_global BY <1>19, <1>20, OutOfCellsSafe
  <1>21. CASE rm' = q /\ env_global' = new_env.v
    <2>1. Sound(heap', E) /\ Kept(E, env_global') BY <1>18, <1>19, <1>21 DEF Holds
    <2>2. RegsKept(E, q) BY <1>12, <1>19 DEF Holds, RegsKept
    <2>3. RegsKept(E, rm') BY <1>21, <2>2
    <2> QED BY <2>1, <2>3 DEF EcSafe, Holds
  <1> QED BY <1>13, <1>20, <1>21

(***************************************************************************)
(* EVAL_APPLY_DISPATCH                                                     *)
(***************************************************************************)
LEMMA ApplyValueSafe ==
  ASSUME NEW F, Holds(heap, F, rm), AllUpright, ~ adrift,
         eval_eval \/ eval_apply_extension \/ eval_apply_unknown
  PROVE  EcSafe'
  <1>1. Applies /\ UNCHANGED <<heap, env_global>>
    BY DEF eval_eval, eval_apply_extension, eval_apply_unknown
  <1>2. PICK k, L : k = peek(0) /\ L = pop(1) OBVIOUS
  <1>3. KeptSeq(F, L) BY <1>1, <1>2, ApplyPopped
  <1>4. Sound(heap, F) /\ Kept(F, rm.argl) /\ RegsKept(F, rm) BY DEF Holds, RegsKept
  <1>5. CASE eval_eval
    <2>1. PICK e, q : e = car(heap, rm.argl) /\ q = [rm EXCEPT !.exp = e, !.cont = k, !.S = L] OBVIOUS
    <2>2. rm' = q BY <1>2, <1>5, <2>1 DEF eval_eval, Dispatch
    <2>3. Kept(F, e) BY <1>4, <2>1, CarKept
    <2>4. RegsKept(F, q) BY <1>3, <1>4, <2>1, <2>3 DEF RegsKept
    <2>5. Holds(heap', F, q) BY <1>1, <2>4 DEF Holds
    <2> QED BY <1>1, <2>2, <2>5, EndsSafe
  <1>6. CASE eval_apply_extension
    <2>1. PICK v, q : /\ v = ext_fun(elements(heap, rm.argl))
                      /\ q = [rm EXCEPT !.val = v, !.cont = k, !.S = L]
      OBVIOUS
    <2>2. rm' = q BY <1>2, <1>6, <2>1 DEF eval_apply_extension, Continue
    <2>3. Kept(F, v) BY <2>1, KeptSym DEF ext_fun, T, NIL
    <2>4. RegsKept(F, q) BY <1>3, <1>4, <2>1, <2>3 DEF RegsKept
    <2>5. Holds(heap', F, q) BY <1>1, <2>4 DEF Holds
    <2> QED BY <1>1, <2>2, <2>5, EndsSafe
  <1>7. CASE eval_apply_unknown
    <2>1. Error(rm, sym("eval_error")) BY <1>7 DEF eval_apply_unknown, EERROR
    <2>2. Holds(heap', F, rm) BY <1>1
    <2> QED BY <1>1, <2>1, <2>2, ErrorSafe
  <1> QED BY <1>5, <1>6, <1>7

\* Whatever is taken off the stack once the heap has changed was a root by then.
LEMMA StillPopped ==
  ASSUME NEW F, Holds(heap, F, rm), AllUpright, ~ adrift, Applies, NEW E, KeptSeq(E, rm.S)
  PROVE  KeptSeq(E, pop(1))
  <1>1. PICK b : b = peek(0) OBVIOUS
  <1>2. Len(rm.S) \in Nat /\ Bears(rm.S, b, Len(rm.S) - 1) BY <1>1, FoundByApply
  <1>3. Len(rm.S) - 1 \in Nat BY <1>2, BackedIn DEF Bears
  <1>4. 1 \in 1 .. Len(rm.S) BY <1>2, <1>3
  <1> QED BY <1>4, PeekKept

LEMMA EvalApplyClosureSafe ==
  ASSUME NEW F, Holds(heap, F, rm), AllUpright, ~ adrift, eval_apply_closure
  PROVE  EcSafe'
  <1> DEFINE bind(h) == env_build_params_args(h, cadr(h, rm.fun), rm.argl, cadddr(h, rm.fun))
  <1>1. Applies /\ UNCHANGED env_global BY DEF eval_apply_closure
  <1>2. PICK first : first = bind(heap) OBVIOUS
  <1>3. PICK second : second = bind(gc(first.h, rm_roots(rm))) OBVIOUS
  <1>4. PICK env : env = IF first.v = MERROR THEN second ELSE first OBVIOUS
  <1>5. PICK h, v, e, k, L : /\ h = env.h /\ v = env.v /\ e = caddr(h, rm.fun) /\ k = peek(0)
                             /\ L = pop(1)
    OBVIOUS
  <1>6. PICK q : q = [rm EXCEPT !.env = v, !.exp = e, !.cont = k, !.S = L] OBVIOUS
  <1>7. heap' = h /\ (OutOfCells(rm) \/ rm' = q)
    BY <1>2, <1>3, <1>4, <1>5, <1>6 DEF eval_apply_closure, allocate, Dispatch
  <1>8. ASSUME NEW g, NEW E, Holds(g, E, rm) PROVE Leaves(bind(g), E)
    <2>1. Sound(g, E) /\ Kept(E, rm.fun) /\ Kept(E, rm.argl) BY <1>8 DEF Holds, RegsKept
    <2>2. Kept(E, cdr(g, rm.fun)) BY <2>1, CarKept
    <2>3. Kept(E, cadr(g, rm.fun)) /\ Kept(E, cdr(g, cdr(g, rm.fun))) BY <2>1, <2>2, CarKept DEF cadr
    <2>4. Kept(E, cdr(g, cdr(g, cdr(g, rm.fun)))) BY <2>1, <2>3, CarKept
    <2>5. Kept(E, cadddr(g, rm.fun)) BY <2>1, <2>4, CarKept DEF cadddr
    <2> QED BY <2>1, <2>3, <2>5, BuildLeaves
  <1> HIDE DEF bind
  <1>9. Leaves(first, F) BY <1>2, <1>8
  <1>10. \A E : Holds(gc(first.h, rm_roots(rm)), E, rm) => Leaves(second, E) BY <1>3, <1>8
  <1>11. PICK E : Holds(env.h, E, rm) /\ Kept(E, env.v) BY <1>4, <1>9, <1>10, Allocates
  <1>12. Holds(h, E, rm) /\ Kept(E, v) BY <1>5, <1>11
  <1>13. CASE OutOfCells(rm) BY <1>1, <1>7, <1>12, <1>13, OutOfCellsSafe
  <1>14. CASE rm' = q
    <2>1. Sound(h, E) /\ Kept(E, rm.fun) /\ KeptSeq(E, rm.S) BY <1>12 DEF Holds, RegsKept
    <2>2. Kept(E, cdr(h, rm.fun)) BY <2>1, CarKept
    <2>3. Kept(E, cdr(h, cdr(h, rm.fun))) BY <2>1, <2>2, CarKept
    <2>4. Kept(E, e) BY <1>5, <2>1, <2>3, CarKept DEF caddr
    <2>5. KeptSeq(E, L) BY <1>1, <1>5, <2>1, StillPopped
    <2>6. RegsKept(E, q) BY <1>6, <1>12, <2>4, <2>5 DEF Holds, RegsKept
    <2>7. Holds(heap', E, q) BY <1>7, <1>12, <2>6 DEF Holds
    <2> QED BY <1>1, <1>14, <2>7, EndsSafe
  <1> QED BY <1>7, <1>13, <1>14

\* What has been pushed is on the stack, on top of what was there.
LEMMA PushedKept ==
  ASSUME NEW S, IsSeq(S), NEW vals, IsSeq(vals), promise.stack_size \in StackSizes,
         Len(S) + Len(vals) <= promise.stack_size, NEW E, KeptSeq(E, push(S, vals))
  PROVE  KeptSeq(E, S) /\ KeptSeq(E, vals)
  <1>1. PICK L : L = push(S, vals) OBVIOUS
  <1>2. /\ IsSeq(L) /\ Len(S) \in Nat /\ Len(vals) \in Nat /\ Len(L) = Len(S) + Len(vals)
        /\ \A j \in 1 .. Len(S) : L[j] = S[j]
        /\ \A j \in 1 .. Len(vals) : L[Len(S) + j] = vals[j]
    BY <1>1, PushFits
  <1>3. \A j \in 1 .. Len(L) : Kept(E, L[j]) BY <1>1 DEF KeptSeq
  <1>4. ASSUME NEW j \in 1 .. Len(S) PROVE Kept(E, S[j])
    <2>1. j \in 1 .. Len(L) BY <1>2
    <2> QED BY <1>2, <1>3, <2>1
  <1>5. ASSUME NEW j \in 1 .. Len(vals) PROVE Kept(E, vals[j])
    <2>1. Len(S) + j \in 1 .. Len(L) BY <1>2
    <2>2. Kept(E, L[Len(S) + j]) BY <1>3, <2>1
    <2> QED BY <1>2, <2>2
  <1> QED BY <1>2, <1>4, <1>5 DEF KeptSeq

\* The arguments, and words above them that are not read.
LEMMA ArgsOnStack ==
  ASSUME NEW E, NEW args, KeptSeq(E, args), NEW above, IsSeq(above), NEW op,
         ArgsRead(op) \in Nat, ~ (Len(args) < ArgsRead(op))
  PROVE  ArgsKept(E, op, args \o above, Len(args))
  <1>1. PICK J, n, m : J = args \o above /\ n = Len(args) /\ m = ArgsRead(op) OBVIOUS
  <1>2. IsSeq(args) BY DEF KeptSeq
  <1>3. /\ IsSeq(J) /\ n \in Nat /\ Len(above) \in Nat /\ Len(J) = n + Len(above)
        /\ \A k \in 1 .. n : J[k] = args[k]
    BY <1>1, <1>2, JoinSeq
  <1>4. m \in Nat /\ m <= n BY <1>1, <1>3
  <1>5. Len(J) \in Nat /\ n <= Len(J) /\ m <= Len(J) BY <1>3, <1>4
  <1>6. ASSUME NEW k \in 1 .. Len(J), k <= n \/ k <= m PROVE Kept(E, J[k])
    <2>1. k \in 1 .. n BY <1>3, <1>4, <1>5, <1>6
    <2>2. Kept(E, args[k]) BY <1>1, <2>1 DEF KeptSeq
    <2> QED BY <1>3, <2>1, <2>2
  <1> QED BY <1>1, <1>3, <1>5, <1>6 DEF ArgsKept

LEMMA EvalApplyFundamentalSafe ==
  ASSUME NEW F, Holds(heap, F, rm), AllUpright, ~ adrift, eval_apply_fundamental
  PROVE  EcSafe'
  <1> SUFFICES ASSUME ~ done', ~ adrift' PROVE EcSafe' BY DEF EcSafe
  <1> DEFINE args == elements(heap, rm.argl)
             regs == [rm EXCEPT !.S = push(rm.S, args)]
  <1>1. Applies /\ UNCHANGED env_global BY DEF eval_apply_fundamental
  <1>2. adrift' = (adrift \/ Len(args) < ArgsRead(rm.fun[2])
                          \/ Len(rm.S) + Len(args) > promise.stack_size)
    BY Zenon DEF eval_apply_fundamental
  <1>3. ~ (Len(args) < ArgsRead(rm.fun[2])) /\ ~ (Len(rm.S) + Len(args) > promise.stack_size)
    BY <1>2, Zenon
  <1>4. PICK above \in IF Len(args) < 2 THEN [1 .. 2 -> Garbage] ELSE {<<NIL, NIL>>} :
          LET exec(h) == fundamental_exec(h, args \o above, Len(args), rm.fun[2])
              val == allocate(exec, heap, regs)
          IN /\ heap' = val.h
             /\ \/ OutOfCells(regs)
                \/ rm' = [rm EXCEPT !.val = val.v, !.cont = peek(0), !.S = pop(1)]
    BY Zenon DEF eval_apply_fundamental, Continue
  <1> DEFINE exec(h) == fundamental_exec(h, args \o above, Len(args), rm.fun[2])
  <1>5. PICK a, S, r, op : a = args /\ S = rm.S /\ r = regs /\ op = rm.fun[2] OBVIOUS
  <1>6. PICK first : first = exec(heap) OBVIOUS
  <1>7. PICK second : second = exec(gc(first.h, rm_roots(r))) OBVIOUS
  <1>8. PICK val : val = IF first.v = MERROR THEN second ELSE first OBVIOUS
  <1>9. PICK h, v, k, L, q : /\ h = val.h /\ v = val.v /\ k = peek(0) /\ L = pop(1)
                             /\ q = [rm EXCEPT !.val = v, !.cont = k, !.S = L]
    OBVIOUS
  <1>10. heap' = h /\ (OutOfCells(r) \/ rm' = q)
    BY <1>4, <1>5, <1>6, <1>7, <1>8, <1>9 DEF allocate
  <1>11. r = [rm EXCEPT !.S = push(S, a)] /\ a = elements(heap, rm.argl) BY <1>5
  <1>12. \A g : exec(g) = fundamental_exec(g, a \o above, Len(a), op) BY <1>5
  <1>13. ~ (Len(a) < ArgsRead(op)) /\ ~ (Len(S) + Len(a) > promise.stack_size) BY <1>3, <1>5
  <1>14. IsSeq(above)
    <2>1. above \in [1 .. 2 -> Garbage] \/ above = <<NIL, NIL>> BY <1>4
    <2>2. CASE above \in [1 .. 2 -> Garbage]
      <3>1. DOMAIN above = 1 .. 2 /\ above = [j \in 1 .. 2 |-> above[j]] BY <2>2
      <3> QED BY <3>1, MadeSeq
    <2>3. CASE above = <<NIL, NIL>> BY <2>3, Tuples
    <2> QED BY <2>1, <2>2, <2>3
  <1> HIDE DEF args, regs, exec
  <1>15. Sound(heap, F) /\ Kept(F, rm.argl) /\ KeptSeq(F, S) BY <1>5 DEF Holds, RegsKept
  <1>16. KeptSeq(F, a) BY <1>11, <1>15, ElementsKept
  <1>17. IsSeq(S) /\ IsSeq(a) /\ Len(S) \in Nat /\ Len(a) \in Nat BY <1>15, <1>16 DEF KeptSeq
  <1>18. promise.stack_size \in StackSizes BY <1>1, ApplyPopped
  <1>19. Len(S) + Len(a) <= promise.stack_size
    <2>1. PICK m : m = promise.stack_size OBVIOUS
    <2>2. m \in Nat BY <1>18, <2>1 DEF StackSizes
    <2>3. Len(S) + Len(a) <= m BY <1>13, <1>17, <2>1, <2>2
    <2> QED BY <2>1, <2>3
  <1>20. PICK J : J = push(S, a) OBVIOUS
  <1>21. KeptSeq(F, J) BY <1>15, <1>16, <1>18, <1>20, EcPushKept
  <1>22. RegsKept(F, r) /\ r.S = J BY <1>11, <1>20, <1>21 DEF Holds, RegsKept
  <1>23. Holds(heap, F, r) BY <1>22 DEF Holds
  <1>24. ASSUME NEW E, RegsKept(E, r) PROVE KeptSeq(E, S) /\ KeptSeq(E, a)
    <2>1. KeptSeq(E, push(S, a)) BY <1>20, <1>22, <1>24 DEF RegsKept
    <2> QED BY <1>17, <1>18, <1>19, <2>1, PushedKept
  <1>25. ArgsRead(op) \in Nat BY DEF ArgsRead
  <1>26. ASSUME NEW g, NEW E, Holds(g, E, r) PROVE Leaves(exec(g), E)
    <2>1. Sound(g, E) /\ KeptSeq(E, a) BY <1>24, <1>26 DEF Holds
    <2>2. ArgsKept(E, op, a \o above, Len(a)) BY <1>13, <1>14, <1>25, <2>1, ArgsOnStack
    <2>3. Leaves(fundamental_exec(g, a \o above, Len(a), op), E) BY <2>1, <2>2, FundamentalLeaves
    <2> QED BY <1>12, <2>3
  <1>27. Leaves(first, F) BY <1>6, <1>23, <1>26
  <1>28. \A E : Holds(gc(first.h, rm_roots(r)), E, r) => Leaves(second, E) BY <1>7, <1>26
  <1>29. PICK E : Holds(val.h, E, r) /\ Kept(E, val.v)
    <2>1. \A E : Holds(gc(first.h, rm_roots(r)), E, r) /\ (Kept(F, r.unev) => Kept(E, r.unev))
                   => Leaves(second, E)
      BY <1>28
    <2>2. Holds(heap, F, r) /\ Leaves(first, F) /\ val = IF first.v = MERROR THEN second ELSE first
      BY <1>8, <1>23, <1>27
    <2>3. \E D : Holds(val.h, D, r) /\ Kept(D, val.v) /\ (Kept(F, r.unev) => Kept(D, r.unev))
      BY <2>1, <2>2, Allocates
    <2> QED BY <2>3
  <1>30. Holds(h, E, r) /\ Kept(E, v) BY <1>9, <1>29
  <1>31. CASE OutOfCells(r) BY <1>1, <1>10, <1>30, <1>31, OutOfCellsSafe
  <1>32. CASE rm' = q
    <2>1. KeptSeq(E, S) /\ RegsKept(E, r) BY <1>24, <1>30 DEF Holds
    <2>2. KeptSeq(E, L) BY <1>1, <1>5, <1>9, <2>1, StillPopped
    <2>3. q = [r EXCEPT !.val = v, !.cont = k, !.S = L] BY <1>9, <1>11
    <2>4. RegsKept(E, q) BY <1>30, <2>1, <2>2, <2>3 DEF RegsKept
    <2>5. Holds(heap', E, q) BY <1>10, <1>30, <2>4 DEF Holds
    <2> QED BY <1>1, <1>32, <2>5, EndsSafe
  <1> QED BY <1>10, <1>31, <1>32

(***************************************************************************)
(* eval_let                                                                *)
(***************************************************************************)
LEMMA HoldsSpared ==
  ASSUME NEW h, NEW F, NEW r, Holds(h, F, r), Kept(F, r.unev)
  PROVE  Spared(h, r)
  <1>1. Sound(h, F) /\ Kept(F, env_global) /\ RegsKept(F, r) BY DEF Holds
  <1>2. PICK k : k = r.S OBVIOUS
  <1>3. KeptSeq(F, k) BY <1>1, <1>2 DEF RegsKept
  <1>4. DOMAIN k = 1 .. Len(k) BY <1>3 DEF KeptSeq, IsSeq
  <1>5. \A v \in Range(k) : Kept(F, v) BY <1>3, <1>4 DEF KeptSeq, Range
  <1>6. \A v \in rm_roots(r) : Kept(F, v) BY <1>1, <1>2, <1>5 DEF rm_roots, RegsKept
  <1>7. \A v \in rm_roots(r) : InHeap(v) BY <1>6, KeptIn
  <1>8. PICK R : R = rm_roots(r) OBVIOUS
  <1>9. Cells(R) \subseteq Cell \ F BY <1>6, <1>8 DEF Cells, Kept
  <1>10. Apart(h, F, Cell \ F) BY <1>1, SoundApart
  <1> QED BY <1>7, <1>8, <1>9, <1>10 DEF Spared

LEMMA ConsSpared ==
  ASSUME NEW h, NEW r, Spared(h, r), NEW a, InHeap(a), NEW d, InHeap(d)
  PROVE  Spared(cons_result(h, a, d).h, r) /\ InHeap(cons_result(h, a, d).v)
  <1>1. PICK F, X : Apart(h, F, X) /\ Cells(rm_roots(r)) \subseteq X /\ \A v \in rm_roots(r) : InHeap(v)
    BY DEF Spared
  <1>2. InHeap(cons_result(h, a, d).v) /\ \E E : Apart(cons_result(h, a, d).h, E, X)
    BY <1>1, ConsApart
  <1> QED BY <1>1, <1>2 DEF Spared

LEMMA CollectSpared ==
  ASSUME NEW h, NEW r, Spared(h, r)
  PROVE  Spared(gc(h, rm_roots(r)), r)
  <1>1. PICK F, X : Apart(h, F, X) /\ Cells(rm_roots(r)) \subseteq X /\ \A v \in rm_roots(r) : InHeap(v)
    BY DEF Spared
  <1>2. \E E, Y : Apart(gc(h, rm_roots(r)), E, Y) /\ Cells(rm_roots(r)) \subseteq Y
    BY <1>1, GcApart
  <1> QED BY <1>1, <1>2 DEF Spared

\* The binding that prebind makes, and the environment that begins with it.
LetBinding(h, curr) == cons_result(h, car(h, car(h, curr)), enc_u(0))
LetEnv(h, v, curr) == cons_result(LetBinding(h, curr).h, LetBinding(h, curr).v, v)

LEMMA LetEnvSpared ==
  ASSUME NEW h, NEW r, Spared(h, r), NEW v, InHeap(v), NEW curr, InHeap(curr)
  PROVE  Spared(LetEnv(h, v, curr).h, r) /\ InHeap(LetEnv(h, v, curr).v)
  <1>1. Within(h) BY WellIn DEF Spared, Apart
  <1>2. PICK key, b : key = car(h, car(h, curr)) /\ b = cons_result(h, key, enc_u(0)) OBVIOUS
  <1>3. InHeap(key)
    <2>1. InHeap(car(h, curr)) BY <1>1, CarIn
    <2> QED BY <1>1, <1>2, <2>1, CarIn
  <1>4. InHeap(enc_u(0)) BY PlainKept, KeptIn
  <1>5. Spared(b.h, r) /\ InHeap(b.v) BY <1>2, <1>3, <1>4, ConsSpared
  <1>6. Spared(cons_result(b.h, b.v, v).h, r) /\ InHeap(cons_result(b.h, b.v, v).v)
    BY <1>5, ConsSpared
  <1> QED BY <1>2, <1>6 DEF LetEnv, LetBinding

LEMMA LetEnvLeaves ==
  ASSUME NEW h, NEW F, Sound(h, F), NEW v, Kept(F, v), NEW curr, Kept(F, curr)
  PROVE  Leaves(LetEnv(h, v, curr), F)
  <1>1. PICK key, b : key = car(h, car(h, curr)) /\ b = cons_result(h, key, enc_u(0)) OBVIOUS
  <1>2. Kept(F, key)
    <2>1. Kept(F, car(h, curr)) BY CarKept
    <2> QED BY <1>1, <2>1, CarKept
  <1>3. Kept(F, enc_u(0)) BY PlainKept
  <1>4. Leaves(b, F) BY <1>1, <1>2, <1>3, ConsLeaves
  <1>5. PICK E : E \subseteq F /\ Sound(b.h, E) /\ Kept(E, b.v) BY <1>4 DEF Leaves
  <1>6. Kept(E, v) BY <1>5, KeptMore
  <1>7. Leaves(cons_result(b.h, b.v, v), E) BY <1>5, <1>6, ConsLeaves
  <1>8. Leaves(cons_result(b.h, b.v, v), F) BY <1>5, <1>7, LeavesMore
  <1> QED BY <1>1, <1>8 DEF LetEnv, LetBinding

\* The bindings of a let, as far as they have been made.
LetWhole(h, r, v, curr) ==
  \E E : Holds(h, E, r) /\ Kept(E, r.unev) /\ Kept(E, v) /\ Kept(E, curr)
LetGoes(s, r) ==
  /\ DOMAIN s = {"h", "v", "curr", "r", "failed", "kept"}
  /\ s.r = r /\ Spared(s.h, r) /\ InHeap(s.v) /\ InHeap(s.curr)
  /\ s.kept => LetWhole(s.h, r, s.v, s.curr)

LEMMA LetEnvWhole ==
  ASSUME NEW h, NEW r, NEW v, NEW curr, LetWhole(h, r, v, curr), NEW e, e = LetEnv(h, v, curr)
  PROVE  LetWhole(e.h, r, e.v, curr)
  <1>1. PICK E : Holds(h, E, r) /\ Kept(E, r.unev) /\ Kept(E, v) /\ Kept(E, curr) BY DEF LetWhole
  <1>2. Leaves(e, E) BY <1>1, LetEnvLeaves DEF Holds
  <1>3. PICK D : Holds(e.h, D, r) /\ Kept(D, e.v) /\ (Kept(E, r.unev) => Kept(D, r.unev)) /\ D \subseteq E
    BY <1>1, <1>2, Took
  <1>4. Kept(D, curr) BY <1>1, <1>3, KeptMore
  <1> QED BY <1>1, <1>3, <1>4 DEF LetWhole

LEMMA LetCollectWhole ==
  ASSUME NEW h, NEW r, NEW v, NEW curr, LetWhole(h, r, v, curr)
  PROVE  LetWhole(gc(h, rm_roots(r)), r, r.env, r.unev)
  <1>1. PICK E : Holds(h, E, r) /\ Kept(E, r.unev) BY DEF LetWhole
  <1>2. PICK D : Holds(gc(h, rm_roots(r)), D, r) /\ (Kept(E, r.unev) => Kept(D, r.unev))
    BY <1>1, EcCollect
  <1>3. Kept(D, r.env) BY <1>2 DEF Holds, RegsKept
  <1> QED BY <1>1, <1>2, <1>3 DEF LetWhole

\* The next binding is there.
LEMMA LetNextWhole ==
  ASSUME NEW h, NEW r, NEW v, NEW curr, LetWhole(h, r, v, curr)
  PROVE  LetWhole(h, r, v, cdr(h, curr))
  <1>1. PICK E : Holds(h, E, r) /\ Kept(E, r.unev) /\ Kept(E, v) /\ Kept(E, curr) BY DEF LetWhole
  <1>2. Kept(E, cdr(h, curr)) BY <1>1, CarKept DEF Holds
  <1> QED BY <1>1, <1>2 DEF LetWhole

LEMMA PrebindGoes ==
  ASSUME NEW s, NEW r, LetGoes(s, r)
  PROVE  LetGoes(prebind(s), r)
  <1>1. CASE s.failed BY <1>1 DEF prebind
  <1>2. CASE ~ s.failed
    <2>1. /\ DOMAIN s = {"h", "v", "curr", "r", "failed", "kept"} /\ s.r = r /\ Spared(s.h, r)
          /\ InHeap(s.v) /\ InHeap(s.curr) /\ (s.kept => LetWhole(s.h, r, s.v, s.curr))
      BY DEF LetGoes
    <2>2. PICK h, v, curr : h = s.h /\ v = s.v /\ curr = s.curr OBVIOUS
    <2>3. PICK e1, g : e1 = LetEnv(h, v, curr) /\ g = gc(e1.h, rm_roots(r)) OBVIOUS
    <2>4. PICK e2 : e2 = LetEnv(g, v, curr) OBVIOUS
    <2> DEFINE short == LetBinding(h, curr).v = MERROR \/ v = MERROR
    <2>5. PICK e : e = IF short THEN e2 ELSE e1 OBVIOUS
    <2> DEFINE add(hp) ==
                 LET binding == cons_result(hp, car(hp, car(hp, s.curr)), enc_u(0))
                     env == cons_result(binding.h, binding.v, s.v)
                 IN [h |-> env.h, binding |-> binding.v, env |-> env.v]
               begun == add(s.h)
               lacks == begun.binding = MERROR \/ s.v = MERROR
               again == add(gc(begun.h, rm_roots(s.r)))
               res == IF lacks THEN again ELSE begun
               kept == /\ s.kept /\ res.env # MERROR
                       /\ lacks => s.v = s.r.env /\ s.curr = s.r.unev
               fails == res.binding = MERROR \/ s.v = MERROR
    <2>6. PICK p : p = prebind(s) OBVIOUS
    <2>7. p = [s EXCEPT !.h = res.h, !.v = res.env, !.curr = cdr(res.h, s.curr),
                        !.failed = fails, !.kept = kept]
      BY <1>2, <2>6, Zenon DEF prebind
    <2>8. \A hp : /\ add(hp).h = LetEnv(hp, s.v, s.curr).h /\ add(hp).env = LetEnv(hp, s.v, s.curr).v
                  /\ add(hp).binding = LetBinding(hp, s.curr).v
      BY DEF LetEnv, LetBinding
    <2> HIDE DEF add
    <2>9. begun.h = e1.h /\ begun.env = e1.v /\ begun.binding = LetBinding(h, curr).v
      BY <2>8, <2>2, <2>3
    <2>10. again.h = e2.h /\ again.env = e2.v BY <2>8, <2>9, <2>1, <2>2, <2>3, <2>4
    <2>11. lacks <=> short BY <2>9, <2>2
    <2>12. res.h = e.h /\ res.env = e.v BY <2>9, <2>10, <2>11, <2>5
    <2>13. kept => s.kept /\ (short => v = r.env /\ curr = r.unev) BY <2>11, <2>1, <2>2
    <2> HIDE DEF res, kept, lacks, again, begun, fails
    <2>14. p = [s EXCEPT !.h = e.h, !.v = e.v, !.curr = cdr(e.h, curr), !.failed = fails, !.kept = kept]
      BY <2>7, <2>12, <2>2
    <2>15. /\ DOMAIN p = DOMAIN s /\ p.r = s.r /\ p.h = e.h /\ p.v = e.v /\ p.curr = cdr(e.h, curr)
           /\ p.kept = kept
      BY <2>14, <2>1
    <2>16. /\ DOMAIN p = DOMAIN s /\ p.r = s.r /\ p.h = e.h /\ p.v = e.v /\ p.curr = cdr(e.h, curr)
           /\ p.kept => s.kept /\ (short => v = r.env /\ curr = r.unev)
      BY <2>13, <2>15, Zenon
    <2> HIDE DEF short
    <2>17. Spared(e1.h, r) /\ InHeap(e1.v) BY <2>1, <2>2, <2>3, LetEnvSpared
    <2>18. Spared(g, r) BY <2>3, <2>17, CollectSpared
    <2>19. Spared(e2.h, r) /\ InHeap(e2.v) BY <2>1, <2>2, <2>4, <2>18, LetEnvSpared
    <2>20. Spared(e.h, r) /\ InHeap(e.v) BY <2>5, <2>17, <2>19
    <2>21. InHeap(cdr(e.h, curr))
      <3>1. Within(e.h) BY <2>20, WellIn DEF Spared, Apart
      <3> QED BY <2>1, <2>2, <3>1, CarIn
    <2>22. ASSUME p.kept PROVE LetWhole(e.h, r, e.v, cdr(e.h, curr))
      <3>1. LetWhole(h, r, v, curr) /\ (short => v = r.env /\ curr = r.unev)
        <4>1. s.kept /\ (short => v = r.env /\ curr = r.unev) BY <2>16, <2>22, Zenon
        <4>2. LetWhole(s.h, r, s.v, s.curr) BY <2>1, <4>1, Zenon
        <4> QED BY <2>2, <4>1, <4>2
      <3>2. LetWhole(e1.h, r, e1.v, curr) BY <2>3, <3>1, LetEnvWhole
      <3>3. CASE ~ short
        <4>1. LetWhole(e.h, r, e.v, curr) BY <2>5, <3>2, <3>3
        <4> QED BY <4>1, LetNextWhole
      <3>4. CASE short
        <4>1. LetWhole(g, r, r.env, r.unev) BY <2>3, <3>2, LetCollectWhole
        <4>2. LetWhole(g, r, v, curr) BY <3>1, <3>4, <4>1
        <4>3. LetWhole(e2.h, r, e2.v, curr) BY <2>4, <4>2, LetEnvWhole
        <4>4. LetWhole(e.h, r, e.v, curr) BY <2>5, <3>4, <4>3
        <4> QED BY <4>4, LetNextWhole
      <3> QED BY <3>3, <3>4
    <2>23. LetGoes(p, r)
      <3>1. p.kept => LetWhole(p.h, r, p.v, p.curr) BY <2>15, <2>22
      <3>2. Spared(p.h, r) /\ InHeap(p.v) /\ InHeap(p.curr) BY <2>15, <2>20, <2>21
      <3> QED BY <2>1, <2>15, <3>1, <3>2 DEF LetGoes
    <2> QED BY <2>6, <2>23
  <1> QED BY <1>1, <1>2

MadeBody(s, f, k) == IF k = 0 THEN s ELSE prebind(f[k - 1])

LEMMA MadeExists ==
  ASSUME NEW s, NEW n \in Nat
  PROVE  \E f : f = [k \in 0 .. n |-> MadeBody(s, f, k)]
  <1> DEFINE S == {m \in 0 .. n : \E f : f = [k \in 0 .. m |-> MadeBody(s, f, k)]}
  <1>1. 0 \in S
    <2>1. PICK f : f = [k \in 0 .. 0 |-> MadeBody(s, <<>>, 0)] OBVIOUS
    <2>2. \A k \in 0 .. 0 : k = 0 OBVIOUS
    <2>3. MadeBody(s, f, 0) = MadeBody(s, <<>>, 0) BY DEF MadeBody
    <2>4. f = [k \in 0 .. 0 |-> MadeBody(s, f, k)] BY <2>1, <2>2, <2>3
    <2> QED BY <2>4
  <1>2. ASSUME NEW m \in 0 .. n - 1, m \in S PROVE m + 1 \in S
    <2>1. PICK f : f = [k \in 0 .. m |-> MadeBody(s, f, k)] BY <1>2
    <2>2. PICK g : g = [k \in 0 .. m + 1 |-> MadeBody(s, f, k)] OBVIOUS
    <2>3. \A k \in 0 .. m : g[k] = f[k] BY <2>1, <2>2
    <2>4. ASSUME NEW k \in 0 .. m + 1 PROVE MadeBody(s, f, k) = MadeBody(s, g, k)
      <3>1. k = 0 \/ g[k - 1] = f[k - 1] BY <2>3
      <3> QED BY <3>1 DEF MadeBody
    <2>5. g = [k \in 0 .. m + 1 |-> MadeBody(s, g, k)] BY <2>2, <2>4
    <2>6. m + 1 \in 0 .. n OBVIOUS
    <2> QED BY <2>5, <2>6
  <1>3. \A m \in 0 .. n : m \in S
    <2> HIDE DEF S
    <2> QED BY <1>1, <1>2, Upto
  <1> QED BY <1>3

LEMMA PrebindEachGoes ==
  ASSUME NEW s, NEW r, LetGoes(s, r), NEW n \in Nat
  PROVE  LetGoes(prebind_each(s, n), r)
  <1>1. PICK f : f = CHOOSE w : w = [k \in 0 .. n |-> MadeBody(s, w, k)] OBVIOUS
  <1>2. f = [k \in 0 .. n |-> MadeBody(s, f, k)] BY <1>1, MadeExists
  <1>3. prebind_each(s, n) = f[n] BY <1>1 DEF prebind_each, MadeBody
  <1> DEFINE S == {m \in 0 .. n : LetGoes(f[m], r)}
  <1>4. 0 \in S
    <2>1. 0 \in 0 .. n OBVIOUS
    <2>2. f[0] = s BY <1>2, <2>1 DEF MadeBody
    <2> QED BY <2>1, <2>2
  <1>5. ASSUME NEW m \in 0 .. n - 1, m \in S PROVE m + 1 \in S
    <2>1. m + 1 \in 0 .. n /\ m + 1 # 0 /\ (m + 1) - 1 = m OBVIOUS
    <2>2. f[m + 1] = prebind(f[m]) BY <1>2, <2>1 DEF MadeBody
    <2>3. LetGoes(f[m], r) BY <1>5
    <2>4. LetGoes(f[m + 1], r) BY <2>2, <2>3, PrebindGoes
    <2> QED BY <2>1, <2>4
  <1>6. \A m \in 0 .. n : m \in S
    <2> HIDE DEF S
    <2> QED BY <1>4, <1>5, Upto
  <1>7. n \in 0 .. n OBVIOUS
  <1>8. n \in S BY <1>6, <1>7
  <1> QED BY <1>3, <1>8

\* eval_let gives up: whatever it has left behind, the registers are in use.
LEMMA ErrorSpared ==
  ASSUME NEW r, Spared(heap', r), {"cont", "val"} \subseteq DOMAIN r, UNCHANGED env_global, ~ done',
         OutOfCells(r)
  PROVE  EcSafe'
  <1>1. PICK F, X : Apart(heap', F, X) /\ Cells(rm_roots(r)) \subseteq X /\ \A v \in rm_roots(r) : InHeap(v)
    BY DEF Spared
  <1>2. PICK q : q = [r EXCEPT !.cont = CONT_ERROR, !.val = MERROR] OBVIOUS
  <1>3. rm' = q /\ es' = "EVAL_CONTINUATION" BY <1>2 DEF OutOfCells, Error, Continue
  <1>4. q.cont = CONT_ERROR BY <1>2
  <1>5. PICK R : R = rm_roots(r) OBVIOUS
  <1>6. PICK Q : Q = {env_global', q.env, q.unev, q.prg, q.exp, q.argl, q.val, q.fun} \cup Range(q.S)
    OBVIOUS
  <1>7. \A v \in Q : v \in R \/ v = MERROR BY <1>2, <1>5, <1>6 DEF rm_roots
  <1>8. InHeap(MERROR) /\ ~ is_ptr(MERROR)
    <2>1. ~ is_ptr(MERROR) BY Pointers DEF MERROR
    <2> QED BY <2>1 DEF InHeap
  <1>9. Cells(Q) \subseteq Cells(R) BY <1>7, <1>8 DEF Cells
  <1>10. \A v \in Q : InHeap(v) BY <1>1, <1>5, <1>7, <1>8
  <1>11. Cells(Q) \subseteq X BY <1>1, <1>5, <1>9
  <1>12. (rm_roots(rm))' = Q BY <1>3, <1>6 DEF rm_roots
  <1>13. Spared(heap, rm)' BY <1>1, <1>10, <1>11, <1>12 DEF Spared
  <1>14. Continues(CONT_ERROR)' BY <1>3, <1>4 DEF Continues
  <1> QED BY <1>13, <1>14 DEF EcSafe

LEMMA EvalLetSafe ==
  ASSUME NEW F, Holds(heap, F, rm), AllUpright, ~ adrift, EcRoom, eval_let
  PROVE  EcSafe'
  <1> SUFFICES ASSUME ~ done', ~ adrift' PROVE EcSafe' BY DEF EcSafe
  <1>1. Evaluates /\ UNCHANGED env_global BY DEF eval_let, Kind
  <1> DEFINE regs == [rm EXCEPT !.S = push(rm.S, <<rm.cont, rm.env, nth(rm.exp, 2)>>),
                                !.unev = nth(rm.exp, 1)]
             begin == [h |-> heap, v |-> rm.env, curr |-> regs.unev, r |-> regs,
                       failed |-> FALSE, kept |-> TRUE]
             made == prebind_each(begin, length(heap, regs.unev))
  <1>2. /\ heap' = made.h
        /\ IF made.failed THEN OutOfCells(regs)
           ELSE /\ eval_let_loop(made.h, [regs EXCEPT !.env = made.v])
                /\ adrift' = (adrift \/ ~ made.kept)
    BY Zenon DEF eval_let
  <1>3. PICK vals, L, list, r : /\ vals = <<rm.cont, rm.env, nth(rm.exp, 2)>>
                                /\ L = push(rm.S, vals) /\ list = nth(rm.exp, 1)
                                /\ r = [rm EXCEPT !.S = L, !.unev = list]
    OBVIOUS
  <1>4. r = regs BY <1>3
  <1>5. PICK s : s = begin OBVIOUS
  <1>6. PICK n, res : n = length(heap, r.unev) /\ res = prebind_each(s, n) OBVIOUS
  <1>7. made = res BY <1>4, <1>5, <1>6
  <1>8. /\ heap' = res.h
        /\ IF res.failed THEN OutOfCells(r)
           ELSE eval_let_loop(res.h, [r EXCEPT !.env = res.v]) /\ adrift' = (adrift \/ ~ res.kept)
    BY <1>2, <1>4, <1>7
  <1>9. s = [h |-> heap, v |-> rm.env, curr |-> r.unev, r |-> r, failed |-> FALSE, kept |-> TRUE]
    BY <1>4, <1>5
  <1> HIDE DEF regs, begin, made
  <1>10. Kept(F, rm.cont) /\ promise.stack_size \in StackSizes BY <1>1, EvalCont
  <1>11. Sound(heap, F) /\ Kept(F, rm.exp) /\ Kept(F, rm.env) /\ KeptSeq(F, rm.S)
    BY DEF Holds, RegsKept
  <1>12. Kept(F, list) /\ Kept(F, nth(rm.exp, 2)) BY <1>3, <1>11, NthKept
  <1>13. KeptSeq(F, vals) BY <1>3, <1>10, <1>11, <1>12, ThreeKept
  <1>14. KeptSeq(F, L) BY <1>3, <1>10, <1>11, <1>13, EcPushKept
  <1>15. RegsKept(F, r) /\ r.unev = list /\ r.S = L
    <2>1. InHeap(list) BY <1>12, KeptIn
    <2> QED BY <1>3, <1>14, <2>1 DEF Holds, RegsKept
  <1>16. Holds(heap, F, r) BY <1>15 DEF Holds
  <1>17. Len(L) >= 1
    <2>1. IsSeq(rm.S) /\ Len(rm.S) \in Nat BY <1>11 DEF KeptSeq
    <2>2. IsSeq(vals) /\ Len(vals) = 3 BY <1>3, Tuples
    <2>3. PICK S : S = rm.S OBVIOUS
    <2>4. IsSeq(S) /\ L = push(S, vals) BY <1>3, <2>1, <2>3
    <2>5. Len(rm.S) + 3 <= promise.stack_size BY <1>10, <2>1, RoomFor
    <2>6. Len(S) + Len(vals) <= promise.stack_size BY <2>2, <2>3, <2>5
    <2>7. Len(L) = Len(S) + Len(vals)
      <3>1. promise.stack_size \in StackSizes BY <1>10
      <3>2. IsSeq(vals) BY <2>2
      <3> QED BY <2>4, <2>6, <3>1, <3>2, PushFits, Zenon
    <2> QED BY <2>1, <2>2, <2>3, <2>7
  <1>18. LetGoes(s, r)
    <2>1. Kept(F, r.unev) /\ InHeap(r.unev) /\ InHeap(rm.env) BY <1>11, <1>12, <1>15, KeptIn
    <2>2. Spared(heap, r) BY <1>16, <2>1, HoldsSpared
    <2>3. LetWhole(heap, r, rm.env, r.unev) BY <1>11, <1>16, <2>1 DEF LetWhole
    <2>4. /\ DOMAIN s = {"h", "v", "curr", "r", "failed", "kept"} /\ s.h = heap /\ s.v = rm.env
          /\ s.curr = r.unev /\ s.r = r
      BY <1>9
    <2> QED BY <2>1, <2>2, <2>3, <2>4 DEF LetGoes
  <1>19. n \in Nat
    <2>1. spine(heap, r.unev) \in Seq(Cell \ F) BY <1>11, <1>12, <1>15, SpineKept
    <2> QED BY <1>6, <2>1 DEF length
  <1>20. LetGoes(res, r) BY <1>6, <1>18, <1>19, PrebindEachGoes
  <1>21. CASE res.failed
    <2>1. Spared(heap', r) /\ OutOfCells(r) BY <1>8, <1>20, <1>21 DEF LetGoes
    <2>2. {"cont", "val"} \subseteq DOMAIN r BY <1>15 DEF RegsKept
    <2> QED BY <1>1, <2>1, <2>2, ErrorSpared
  <1>22. CASE ~ res.failed
    <2>1. PICK q, h : q = [r EXCEPT !.env = res.v] /\ h = res.h OBVIOUS
    <2>2. eval_let_loop(h, q) /\ heap' = h /\ adrift' = (adrift \/ ~ res.kept) BY <1>8, <1>22, <2>1
    <2>3. res.kept BY <2>2
    <2>4. LetWhole(h, r, res.v, res.curr) BY <1>20, <2>1, <2>3 DEF LetGoes
    <2>5. PICK E : Holds(h, E, r) /\ Kept(E, r.unev) /\ Kept(E, res.v) BY <2>4 DEF LetWhole
    <2>6. RegsKept(E, q) /\ q.unev = r.unev /\ q.S = r.S BY <2>1, <2>5 DEF Holds, RegsKept
    <2>7. Holds(h, E, q) /\ Kept(E, q.unev) BY <2>5, <2>6 DEF Holds
    <2>8. Len(q.S) >= 1 BY <1>15, <1>17, <2>6
    <2> QED BY <1>1, <1>10, <2>2, <2>7, <2>8, LetLoopSafe
  <1> QED BY <1>21, <1>22

(***************************************************************************)
(* Every step of ec_eval                                                   *)
(***************************************************************************)
LEMMA EcHoldsSafe ==
  ASSUME NEW F, Holds(heap, F, rm), AllUpright, ~ adrift, EcRoom, EcNext
  PROVE  EcSafe'
  <1>1. CASE eval_self_evaluating \/ eval_variable \/ eval_quoted BY <1>1, EvalValueSafe
  <1>2. CASE eval_define \/ eval_application \/ eval_if \/ eval_and \/ eval_or BY <1>2, EvalPushSafe
  <1>3. CASE eval_lambda BY <1>3, EvalLambdaSafe
  <1>4. CASE eval_no_args BY <1>4, EvalNoArgsSafe
  <1>5. CASE eval_progn BY <1>5, EvalPrognSafe
  <1>6. CASE eval_let BY <1>6, EvalLetSafe
  <1>7. CASE cont_done \/ cont_error BY <1>7, ContDoneSafe
  <1>8. CASE cont_define BY <1>8, ContDefineSafe
  <1>9. CASE cont_setup_no_arg_apply BY <1>9, ContSetupNoArgApplySafe
  <1>10. CASE cont_eval_args BY <1>10, ContEvalArgsSafe
  <1>11. CASE cont_accumulate_arg BY <1>11, ContAccumulateArgSafe
  <1>12. CASE cont_accumulate_last_arg BY <1>12, ContAccumulateLastArgSafe
  <1>13. CASE cont_sequence BY <1>13, ContSequenceSafe
  <1>14. CASE cont_branch BY <1>14, ContBranchSafe
  <1>15. CASE cont_bind_var BY <1>15, ContBindVarSafe
  <1>16. CASE cont_end_let BY <1>16, ContEndLetSafe
  <1>17. CASE cont_and \/ cont_or BY <1>17, JunctionsSafe
  <1>18. CASE eval_eval \/ eval_apply_extension \/ eval_apply_unknown BY <1>18, ApplyValueSafe
  <1>19. CASE eval_apply_fundamental BY <1>19, EvalApplyFundamentalSafe
  <1>20. CASE eval_apply_closure BY <1>20, EvalApplyClosureSafe
  <1> QED
    BY <1>1, <1>2, <1>3, <1>4, <1>5, <1>6, <1>7, <1>8, <1>9, <1>10, <1>11, <1>12, <1>13, <1>14,
       <1>15, <1>16, <1>17, <1>18, <1>19, <1>20 DEF EcNext

\* Nothing but cont_error follows an error.
LEMMA ErrorEnds ==
  ASSUME Continues(CONT_ERROR), EcNext
  PROVE  cont_error
  <1>1. ~ Evaluates /\ ~ Applies BY DEF Continues, Evaluates, Applies
  <1>2. \A c : c # CONT_ERROR => ~ Continues(c) BY DEF Continues
  <1>3. /\ ~ Continues(CONT_DONE) /\ ~ Continues(CONT_DEFINE) /\ ~ Continues(CONT_SETUP_NO_ARG_APPLY)
        /\ ~ Continues(CONT_EVAL_ARGS) /\ ~ Continues(CONT_ACCUMULATE_ARG)
        /\ ~ Continues(CONT_ACCUMULATE_LAST_ARG) /\ ~ Continues(CONT_BRANCH)
        /\ ~ Continues(CONT_BIND_VAR) /\ ~ Continues(CONT_END_LET) /\ ~ Continues(CONT_SEQUENCE)
        /\ ~ Continues(CONT_AND) /\ ~ Continues(CONT_OR)
    <2>1. CONT_DONE # CONT_ERROR BY DEF CONT_DONE, CONT_ERROR, enc_u
    <2>2. FrameIs(CONT_SEQUENCE, 3, 1) BY DEF FrameIs
    <2> QED BY <1>2, <2>1, <2>2, FrameSizes, FrameFacts
  <1>4. ~ eval_self_evaluating /\ ~ eval_variable /\ ~ eval_quoted /\ ~ eval_define /\ ~ eval_lambda
        /\ ~ eval_no_args /\ ~ eval_application /\ ~ eval_progn /\ ~ eval_if /\ ~ eval_let
        /\ ~ eval_and /\ ~ eval_or
    BY <1>1, Zenon DEF eval_self_evaluating, eval_variable, eval_quoted, eval_define, eval_lambda,
       eval_no_args, eval_application, eval_progn, eval_if, eval_let, eval_and, eval_or,
       eval_junction, Kind
  <1>5. ~ cont_done /\ ~ cont_define /\ ~ cont_setup_no_arg_apply /\ ~ cont_eval_args
        /\ ~ cont_accumulate_arg /\ ~ cont_accumulate_last_arg /\ ~ cont_sequence /\ ~ cont_branch
        /\ ~ cont_bind_var /\ ~ cont_end_let /\ ~ cont_and /\ ~ cont_or
    BY <1>3, Zenon DEF cont_done, cont_define, cont_setup_no_arg_apply, cont_eval_args,
       cont_accumulate_arg, cont_accumulate_last_arg, cont_sequence, cont_branch, cont_bind_var,
       cont_end_let, cont_and, cont_or, cont_junction
  <1>6. ~ eval_eval /\ ~ eval_apply_fundamental /\ ~ eval_apply_closure /\ ~ eval_apply_extension
        /\ ~ eval_apply_unknown
    BY <1>1, Zenon DEF eval_eval, eval_apply_fundamental, eval_apply_closure, eval_apply_extension,
       eval_apply_unknown
  <1> QED BY <1>4, <1>5, <1>6 DEF EcNext

LEMMA EcNextGoes ==
  ASSUME EcNext
  PROVE  ~ done /\ (adrift => adrift')
  <1>1. Evaluates \/ Applies \/ (\E c : Continues(c))
    BY Zenon DEF EcNext, eval_self_evaluating, eval_variable, eval_quoted, eval_define, eval_lambda,
       eval_no_args, eval_application, eval_progn, eval_if, eval_let, eval_and, eval_or,
       eval_junction, Kind, cont_done, cont_error, cont_define, cont_setup_no_arg_apply,
       cont_eval_args, cont_accumulate_arg, cont_accumulate_last_arg, cont_sequence, cont_branch,
       cont_bind_var, cont_end_let, cont_and, cont_or, cont_junction, eval_eval,
       eval_apply_fundamental, eval_apply_closure, eval_apply_extension, eval_apply_unknown
  <1>2. ~ done BY <1>1 DEF Evaluates, Applies, Continues
  <1>3. CASE adrift' = adrift BY <1>2, <1>3, Zenon
  <1>4. CASE eval_let BY <1>2, <1>4, Zenon DEF eval_let
  <1>5. CASE cont_accumulate_last_arg BY <1>2, <1>5, Zenon DEF cont_accumulate_last_arg
  <1>6. CASE eval_apply_fundamental
    <2>1. adrift' = (adrift \/ Len(elements(heap, rm.argl)) < ArgsRead(rm.fun[2])
                       \/ Len(rm.S) + Len(elements(heap, rm.argl)) > promise.stack_size)
      BY <1>6, Zenon DEF eval_apply_fundamental
    <2>2. ASSUME adrift PROVE adrift' BY <2>1, <2>2, Zenon
    <2> QED BY <1>2, <2>2
  <1>7. UNCHANGED others_ec => adrift' = adrift BY DEF others_ec
  <1>8. CASE \/ eval_self_evaluating \/ eval_variable \/ eval_quoted \/ eval_define \/ eval_lambda
             \/ eval_no_args \/ eval_application \/ eval_progn \/ eval_if \/ eval_and \/ eval_or
    BY <1>3, <1>7, <1>8, Zenon DEF eval_self_evaluating, eval_variable, eval_quoted, eval_define,
       eval_lambda, eval_no_args, eval_application, eval_progn, eval_if, eval_and, eval_or,
       eval_junction
  <1>9. CASE \/ cont_done \/ cont_error \/ cont_define \/ cont_setup_no_arg_apply \/ cont_eval_args
             \/ cont_accumulate_arg \/ cont_sequence \/ cont_branch \/ cont_bind_var \/ cont_end_let
             \/ cont_and \/ cont_or
    BY <1>3, <1>7, <1>9 DEF cont_done, cont_error, cont_define, cont_setup_no_arg_apply,
       cont_eval_args, cont_accumulate_arg, cont_sequence, cont_branch, cont_bind_var, cont_end_let,
       cont_and, cont_or, cont_junction
  <1>10. CASE eval_eval \/ eval_apply_closure \/ eval_apply_extension \/ eval_apply_unknown
    BY <1>3, <1>7, <1>10 DEF eval_eval, eval_apply_closure, eval_apply_extension, eval_apply_unknown
  <1> QED BY <1>2, <1>4, <1>5, <1>6, <1>8, <1>9, <1>10 DEF EcNext

LEMMA EcNextSafe ==
  ASSUME EcSafe, AllUpright, EcRoom, EcNext
  PROVE  EcSafe'
  <1> SUFFICES ASSUME ~ done', ~ adrift' PROVE EcSafe' BY DEF EcSafe
  <1>1. ~ done /\ ~ adrift BY EcNextGoes
  <1>2. ASSUME NEW F, Holds(heap, F, rm) PROVE EcSafe' BY <1>1, <1>2, EcHoldsSafe
  <1>3. ASSUME Continues(CONT_ERROR) PROVE FALSE
    <2>1. cont_error BY <1>3, ErrorEnds
    <2> QED BY <2>1 DEF cont_error
  <1> QED BY <1>1, <1>2, <1>3 DEF EcSafe

LEMMA EcInitSafe ==
  ASSUME BothInit
  PROVE  EcSafe
  <1>1. PICK F : Sound(heap, F) /\ Kept(F, env_global) /\ Kept(F, promise.program)
    BY LoadedSafe DEF BothInit, Init
  <1>2. PICK garbage \in Garbage \cup {NIL} :
          rm = [cont |-> CONT_DONE, env |-> NIL, unev |-> garbage, prg |-> cdr(heap, promise.program),
                exp |-> car(heap, promise.program), argl |-> NIL, val |-> NIL, fun |-> NIL, S |-> <<>>]
    BY DEF BothInit, EcInit
  <1>3. InHeap(garbage) BY GarbageAssumption, KeptSym
  <1>4. PICK e, p, none : /\ e = car(heap, promise.program) /\ p = cdr(heap, promise.program)
                          /\ none = <<>>
    OBVIOUS
  <1>5. Kept(F, e) /\ Kept(F, p) BY <1>1, <1>4, CarKept
  <1>6. KeptSeq(F, none) /\ Kept(F, NIL) BY <1>4, NoneKept, KeptSym
  <1>7. rm = [cont |-> CONT_DONE, env |-> NIL, unev |-> garbage, prg |-> p, exp |-> e, argl |-> NIL,
              val |-> NIL, fun |-> NIL, S |-> none]
    BY <1>2, <1>4
  <1>8. RegsKept(F, rm) BY <1>3, <1>5, <1>6, <1>7 DEF RegsKept
  <1>9. Holds(heap, F, rm) BY <1>1, <1>8 DEF Holds
  <1> QED BY <1>9 DEF EcSafe

LEMMA EcSafeSays ==
  ASSUME EcSafe, AllUpright
  PROVE  RegistersKept
  <1> SUFFICES ASSUME ~ done, ~ adrift PROVE Reachable(heap, EcInUse) \cap FreeCells(heap) = {}
    BY DEF RegistersKept
  <1>1. es \in {"EVAL_DISPATCH", "EVAL_CONTINUATION", "EVAL_APPLY_DISPATCH"}
    BY DEF AllUpright, Upright
  <1>2. PICK A, B : /\ A = {env_global, rm.env, rm.prg, rm.exp, rm.val, rm.fun, rm.argl}
                    /\ B = Range(rm.S)
    OBVIOUS
  <1>3. EcInUse \subseteq A \cup B BY <1>1, <1>2 DEF EcInUse
  <1>4. CASE \E F : Holds(heap, F, rm)
    <2>1. PICK F : Holds(heap, F, rm) BY <1>4
    <2>2. Sound(heap, F) /\ Kept(F, env_global) /\ RegsKept(F, rm) BY <2>1 DEF Holds
    <2>3. PICK k : k = rm.S OBVIOUS
    <2>4. KeptSeq(F, k) BY <2>2, <2>3 DEF RegsKept
    <2>5. DOMAIN k = 1 .. Len(k) BY <2>4 DEF KeptSeq, IsSeq
    <2>6. \A v \in B : Kept(F, v) BY <1>2, <2>3, <2>4, <2>5 DEF KeptSeq, Range
    <2>7. \A v \in A : Kept(F, v) BY <1>2, <2>2 DEF RegsKept
    <2>8. \A v \in EcInUse : Kept(F, v) BY <1>3, <2>6, <2>7
    <2> QED BY <2>2, <2>8, KeptReach
  <1>5. CASE Spared(heap, rm)
    <2>1. PICK F, X : /\ Apart(heap, F, X) /\ Cells(rm_roots(rm)) \subseteq X
                      /\ \A v \in rm_roots(rm) : InHeap(v)
      BY <1>5 DEF Spared
    <2>2. A \cup B \subseteq rm_roots(rm) BY <1>2 DEF rm_roots
    <2>3. PICK U, R : U = EcInUse /\ R = rm_roots(rm) OBVIOUS
    <2>4. U \subseteq R BY <1>3, <2>2, <2>3
    <2>5. Cells(U) \subseteq X BY <2>1, <2>3, <2>4 DEF Cells
    <2>6. \A v \in U : InHeap(v) BY <2>1, <2>3, <2>4
    <2> QED BY <2>1, <2>3, <2>5, <2>6, ApartReach
  <1> QED BY <1>4, <1>5 DEF EcSafe

(***************************************************************************)
(* Both evaluators                                                         *)
(***************************************************************************)
\* While ec_eval has a program, the other evaluator has no context.
Alone == ~ done => Idle

LEMMA IdleStays ==
  ASSUME Next, Idle
  PROVE  UNCHANGED vars
  <1>1. running = TRUE \/ Dequeue \/ Ended
    <2>1. Eval \/ Apply => running BY DEF Eval, Apply
    <2>2. CASE Collect \/ OutOfMemory BY <2>2 DEF Collect, OutOfMemory, Idle
    <2>3. CASE \/ EvalSymbol \/ EvalSelf \/ EvalQuote \/ EvalDefine \/ EvalProgn \/ EvalSpawn
               \/ EvalLambda \/ EvalIf \/ EvalLet \/ EvalApplication
      BY <2>1, <2>3, Zenon DEF EvalSymbol, EvalSelf, EvalQuote, EvalDefine, EvalProgn, EvalSpawn,
         EvalLambda, EvalIf, EvalLet, EvalApplication, Form, Idle
    <2>4. CASE ContDone \/ ContSetGlobalEnv \/ ContPrognRest \/ ContSpawnAll \/ ContWait
      BY <2>1, <2>4, Zenon DEF ContDone, ContSetGlobalEnv, ContPrognRest, ContSpawnAll, ContWait,
         Cont, Idle
    <2>5. CASE \/ ApplyClosure \/ ApplyEval \/ ApplyYield \/ ApplyWait \/ ApplyFundamental
               \/ ApplyExtension
      BY <2>1, <2>5, Zenon DEF ApplyClosure, ApplyEval, ApplyYield, ApplyWait, ApplyFundamental,
         ApplyExtension, Cont, Idle
    <2>6. CASE ContAnd \/ ContOr \/ ContApplicationArgs \/ ContBindToKeyRest \/ ContIf \/ ContUnknown
      BY <2>1, <2>6, Zenon DEF ContAnd, ContOr, ContApplicationArgs, ContBindToKeyRest, ContIf,
         ContUnknown, Cont, Idle
    <2> QED BY <2>2, <2>3, <2>4, <2>5, <2>6 DEF Next
  <1>2. ~ Dequeue
    <2>1. DOMAIN <<>> = {} OBVIOUS
    <2> QED BY <2>1 DEF Dequeue, Idle
  <1> QED BY <1>1, <1>2 DEF Ended, Idle

LEMMA EcStep ==
  ASSUME AllUpright, EcSafe, Alone, EcRoom, [BothNext]_all_vars
  PROVE  AllUpright' /\ EcSafe' /\ Alone'
  <1>1. CASE UNCHANGED all_vars
    <2>1. UNCHANGED <<heap, env_global, promise, rm, es, done, adrift, running, ctx_queue>>
      BY <1>1 DEF all_vars, vars, ec_only
    <2>2. AllUpright' BY <2>1 DEF AllUpright, Upright
    <2>3. Alone' BY <2>1 DEF Alone, Idle
    <2>4. UNCHANGED <<heap, env_global, rm, es, done, adrift>> BY <2>1
    <2>5. EcSafe' BY <2>4 DEF EcSafe, Holds, Spared, rm_roots, Continues
    <2> QED BY <2>2, <2>3, <2>5
  <1>2. CASE Next /\ UNCHANGED ec_only
    <2>1. UNCHANGED <<promise, rm, es, done, adrift>> BY <1>2, PromiseKept DEF ec_only
    <2>2. AllUpright' BY <2>1 DEF AllUpright, Upright
    <2>3. CASE ~ done
      <3>1. UNCHANGED vars BY <1>2, <2>3, IdleStays DEF Alone
      <3>2. UNCHANGED all_vars BY <1>2, <3>1 DEF all_vars
      <3> QED BY <1>1, <3>2
    <2>4. CASE done
      <3>1. EcSafe' /\ Alone' BY <2>1, <2>4 DEF EcSafe, Alone
      <3> QED BY <2>2, <3>1
    <2> QED BY <2>3, <2>4
  <1>3. CASE EcNext /\ UNCHANGED cps_only
    <2>1. AllUpright' BY <1>3, EcNextUpright
    <2>2. EcSafe' BY <1>3, EcNextSafe
    <2>3. Alone'
      <3>1. ~ done BY <1>3, EcNextGoes
      <3> QED BY <1>3, <3>1 DEF Alone, Idle, cps_only
    <2> QED BY <2>1, <2>2, <2>3
  <1> QED BY <1>1, <1>2, <1>3 DEF BothNext

\* Whatever the program, the heap and what unev and the words above the stack hold,
\* no collection of ec_eval.c recovers a cell that the register machine still needs:
\* in between two handlers everything of that is in one of the registers or on the
\* stack, which gc marks (ec_eval.c:80-98), and a handler that has to collect
\* half-way has put there whatever it goes on with; as long as the stack has room
\* (which ec_eval.c never asks) and no handler goes on with what it did not get.
THEOREM RegistersSafe == BothSpec /\ []EcRoom => []RegistersKept
  <1> DEFINE Inv == AllUpright /\ EcSafe /\ Alone
  <1>1. BothInit => Inv
    <2> SUFFICES ASSUME BothInit PROVE Inv OBVIOUS
    <2>1. AllUpright /\ EcSafe BY EcInitUpright, EcInitSafe
    <2>2. Alone BY DEF BothInit, Init, EcInit, Alone, Idle
    <2> QED BY <2>1, <2>2
  <1>2. Inv /\ EcRoom /\ [BothNext]_all_vars => Inv' BY EcStep
  <1>3. Inv => RegistersKept BY EcSafeSays
  <1> HIDE DEF Inv
  <1> QED BY <1>1, <1>2, <1>3, PTL DEF BothSpec

(***************************************************************************)
(* Types                                                                   *)
(***************************************************************************)
\* The free list is no longer than the heap.
LEMMA FreeListFits ==
  ASSUME NEW h, NEW F, Sound(h, F)
  PROVE  h.num_alloc \in 0 .. heap_size
  <1>1. PICK fl : FreeListIs(h, fl) BY DEF Sound
  <1>2. PICK n : n = Len(fl) OBVIOUS
  <1>3. /\ fl \in Seq(Cell) /\ n \in Nat /\ DOMAIN fl = 1 .. n /\ h.num_alloc = heap_size - n
        /\ \A i, j \in 1 .. n : fl[i] = fl[j] => i = j
    BY <1>1, <1>2 DEF FreeListIs
  <1>4. fl \in [1 .. n -> Cell] BY <1>2, <1>3
  <1>5. fl \in Injection(1 .. n, Cell) BY <1>3, <1>4 DEF Injection, IsInjective
  <1>6. heap_size \in Nat BY HeapSizeAssumption
  <1>7. IsFiniteSet(Cell) /\ Cardinality(Cell) = heap_size BY <1>6, FS_Interval DEF Cell
  <1>8. Cardinality(1 .. n) = n BY <1>3, FS_Interval
  <1>9. Cardinality(1 .. n) <= Cardinality(Cell) BY <1>5, <1>7, FS_Injection
  <1> QED BY <1>3, <1>6, <1>7, <1>8, <1>9

Flags == {perform_gc, last_iteration_gc, env_lost, starved, unborn} \subseteq BOOLEAN

\* A step succeeds, asks for a collection, makes one, or leaves that to the next one.
LEMMA GcFlagsStay ==
  ASSUME Next, {perform_gc, last_iteration_gc} \subseteq BOOLEAN
  PROVE  {perform_gc', last_iteration_gc'} \subseteq BOOLEAN
  <1>1. CASE Succeed \/ Retry BY <1>1 DEF Succeed, Retry
  <1>2. CASE UNCHANGED <<perform_gc, last_iteration_gc>> BY <1>2
  <1>3. CASE Dequeue BY <1>2, <1>3 DEF Dequeue
  <1>4. CASE Collect BY <1>4 DEF Collect
  <1>5. CASE OutOfMemory BY <1>2, <1>5 DEF OutOfMemory
  <1>6. CASE EvalSymbol \/ EvalSelf \/ EvalQuote \/ EvalDefine \/ EvalProgn \/ EvalSpawn
    BY <1>1, <1>6, Zenon DEF EvalSymbol, EvalSelf, EvalQuote, EvalDefine, EvalProgn, EvalSpawn
  <1>7. CASE EvalLambda \/ EvalIf \/ EvalLet \/ EvalApplication
    BY <1>1, <1>7, Zenon DEF EvalLambda, EvalIf, EvalLet, EvalApplication
  <1>8. CASE ContDone \/ ContSetGlobalEnv \/ ContPrognRest \/ ContSpawnAll \/ ContWait
    BY <1>1, <1>8, Zenon DEF ContDone, ContSetGlobalEnv, ContPrognRest, ContSpawnAll, ContWait
  <1>9. CASE ApplyClosure BY <1>1, <1>9 DEF ApplyClosure, TryAgain
  <1>10. CASE ApplyEval \/ ApplyYield \/ ApplyWait
    BY <1>1, <1>10, Zenon DEF ApplyEval, ApplyYield, ApplyWait
  <1>11. CASE ApplyFundamental BY <1>1, <1>11 DEF ApplyFundamental, TryAgain
  <1>12. CASE ApplyExtension BY <1>1, <1>12 DEF ApplyExtension, TryAgain
  <1>13. CASE ContAnd \/ ContOr \/ ContApplicationArgs \/ ContBindToKeyRest \/ ContIf \/ ContUnknown
    BY <1>1, <1>13, Zenon DEF ContAnd, ContOr, ContApplicationArgs, ContBindToKeyRest, ContIf,
       ContUnknown
  <1>14. CASE Ended BY <1>2, <1>14 DEF Ended, vars
  <1> QED BY <1>3, <1>4, <1>5, <1>6, <1>7, <1>8, <1>9, <1>10, <1>11, <1>12, <1>13, <1>14 DEF Next

LEMMA FlagsStay ==
  ASSUME Flags, [Next]_vars
  PROVE  Flags'
  <1>1. CASE UNCHANGED vars BY <1>1 DEF vars, Flags
  <1>2. CASE Next
    <2>1. {perform_gc', last_iteration_gc'} \subseteq BOOLEAN BY <1>2, GcFlagsStay DEF Flags
    <2>2. {env_lost, starved, unborn} \subseteq BOOLEAN BY DEF Flags
    <2>3. CASE UNCHANGED <<env_lost, starved, unborn>> BY <2>1, <2>2, <2>3 DEF Flags
    <2>4. CASE UNCHANGED others BY <2>3, <2>4 DEF others
    <2>5. CASE OutOfMemory BY <2>1, <2>2, <2>5 DEF OutOfMemory, Flags
    <2>6. CASE ContSetGlobalEnv
      <3>1. \/ UNCHANGED env_lost
            \/ \E new_env : env_lost' = (env_lost \/ ~ EnvKept(new_env))
        BY <2>6 DEF ContSetGlobalEnv
      <3>2. ASSUME NEW new_env, env_lost' = (env_lost \/ ~ EnvKept(new_env)) PROVE env_lost' \in BOOLEAN
        BY <3>2
      <3>3. env_lost' \in BOOLEAN BY <2>2, <3>1, <3>2
      <3>4. UNCHANGED <<starved, unborn>> BY <2>6 DEF ContSetGlobalEnv
      <3> QED BY <2>1, <2>2, <3>3, <3>4 DEF Flags
    <2>7. CASE ContSpawnAll
      <3>1. UNCHANGED <<env_lost, starved>> /\ (UNCHANGED unborn \/ unborn' = TRUE)
        BY <2>7 DEF ContSpawnAll, create_ctx
      <3> QED BY <2>1, <2>2, <3>1 DEF Flags
    <2>8. CASE ContApplicationArgs BY <2>3, <2>8 DEF ContApplicationArgs
    <2> QED BY <1>2, <2>4, <2>5, <2>6, <2>7, <2>8, OthersKept
  <1> QED BY <1>1, <1>2

LEMMA TypeOKHolds ==
  ASSUME AllReady, Safe, Flags, Sturdy
  PROVE  TypeOK
  <1>1. PICK F : AllKept(F) BY DEF Safe
  <1>2. Sound(heap, F) BY <1>1 DEF AllKept
  <1>3. DOMAIN heap.car = Cell /\ DOMAIN heap.cdr = Cell /\ heap.mark \in [Cell -> BOOLEAN]
    BY <1>2 DEF Sound, SoundHeap
  <1>4. heap.num_alloc \in 0 .. heap_size BY <1>2, FreeListFits
  <1>5. ASSUME NEW c \in Alive
        PROVE  Len(c.K) <= c.stack_size /\ {c.app_cont, c.done, c.asleep} \subseteq BOOLEAN
    <2>1. DOMAIN ctx_queue = 1 .. Len(ctx_queue) BY DEF AllReady, IsSeq
    <2>2. Ready(c) BY <1>5, <2>1 DEF AllReady, Alive, Range
    <2>3. CtxKept(F, c) BY <1>1, <1>5, <2>1 DEF AllKept, QueueKept, Alive, Range
    <2>4. ~ c.done BY <1>5 DEF Sturdy
    <2>5. Len(c.K) <= c.stack_size BY <2>2, <2>4 DEF Ready
    <2> QED BY <2>3, <2>5 DEF CtxKept
  <1>6. running \in BOOLEAN BY <1>1 DEF AllKept
  <1> QED BY <1>3, <1>4, <1>5, <1>6 DEF TypeOK, Flags

\* Whatever the program, the heap stays a heap: num_alloc, which heap_allocate_cell
\* counts up (heap.c:182) and gc_sweep_phase down (heap.c:349) without a look at its
\* limits, stays within the heap, because it is always the size of the heap less the
\* length of the free list; and no stack of a context that goes on outgrows its size.
THEOREM TypeCorrect == Spec /\ []Sturdy => []TypeOK
  <1> DEFINE Inv == AllReady /\ Safe /\ Flags
  <1>1. Init => Inv
    <2> SUFFICES ASSUME Init PROVE Inv OBVIOUS
    <2>1. Flags BY DEF Init, Loaded, Flags
    <2> QED BY <2>1, InitReady, InitSafe
  <1>2. Inv /\ Sturdy /\ Sturdy' /\ [Next]_vars => Inv' BY SturdyStep, FlagsStay
  <1>3. Inv /\ Sturdy => TypeOK BY TypeOKHolds
  <1> HIDE DEF Inv
  <1> QED BY <1>1, <1>2, <1>3, PTL DEF Spec
=============================================================================
