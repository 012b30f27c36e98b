--------------------------- MODULE EvalCps_proofs ---------------------------
(***************************************************************************)
(* The stack K of eval_cps.c is made of whole continuations, for every     *)
(* program, heap and stack size.  StackOfFrames reads K from its top with  *)
(* a recursive function; the proof keeps instead the set of positions at   *)
(* which a continuation ends, and shows at the end that the function       *)
(* meets nothing else.                                                     *)
(***************************************************************************)
EXTENDS Evaluators, Language_proofs

(***************************************************************************)
(* Tags                                                                    *)
(***************************************************************************)
LEMMA Encoded == \A n \in 0 .. 2^28 - 1 : enc_u(n) = <<"U", n>>
  BY DEF enc_u

LEMMA Distinct ==
  /\ DONE = <<"U", 1>> /\ SET_GLOBAL_ENV = <<"U", 2>> /\ BIND_TO_KEY_REST = <<"U", 3>>
  /\ IF_ = <<"U", 4>> /\ PROGN_REST = <<"U", 5>> /\ APPLICATION = <<"U", 6>>
  /\ APPLICATION_ARGS = <<"U", 7>> /\ AND = <<"U", 8>> /\ OR = <<"U", 9>>
  /\ WAIT = <<"U", 10>> /\ SPAWN_ALL = <<"U", 11>>
  <1>1. \A n \in 1 .. 11 : enc_u(n) = <<"U", n>> BY DEF enc_u
  <1> QED BY <1>1 DEF DONE, SET_GLOBAL_ENV, BIND_TO_KEY_REST, IF_, PROGN_REST, APPLICATION,
         APPLICATION_ARGS, AND, OR, WAIT, SPAWN_ALL

\* The bits of a number above its type are the number.
LEMMA Decoded == \A n \in 0 .. 2^28 - 1 : dec_u(<<"U", n>>) = n
  BY DEF dec_u, is_number, type_of

Tags == {DONE, SET_GLOBAL_ENV, BIND_TO_KEY_REST, IF_, PROGN_REST, APPLICATION,
         APPLICATION_ARGS, AND, OR, WAIT, SPAWN_ALL}

\* No two continuations have the same number.
LEMMA OneTag ==
  ASSUME NEW a \in Tags, NEW b \in Tags, dec_u(a) = dec_u(b)
  PROVE  a = b
  <1>1. \A n \in 1 .. 11 : dec_u(<<"U", n>>) = n BY DEF dec_u, is_number, type_of
  <1>2. \A t \in Tags : \E n \in 1 .. 11 : t = <<"U", n>> BY Distinct DEF Tags
  <1> QED BY <1>1, <1>2

(***************************************************************************)
(* Continuations on a stack                                                *)
(***************************************************************************)
\* The continuation at k has n entries.  The count of an application is a number,
\* which FrameSize takes for granted.
Entries(K, k, n) ==
  \/ K[k] \in {SET_GLOBAL_ENV, WAIT} /\ n = 2
  \/ K[k] \in {PROGN_REST, SPAWN_ALL, AND, OR, IF_} /\ n = 3
  \/ K[k] = BIND_TO_KEY_REST /\ n = 5
  \/ K[k] = APPLICATION /\ \E m \in Nat : K[k - 1] = <<"U", m>> /\ n = 3 + m
  \/ K[k] = APPLICATION_ARGS /\ \E m \in Nat : K[k - 2] = <<"U", m>> /\ n = 4 + m

\* At each position of E a continuation ends; under it there is another one, or it
\* is the DONE at the bottom.
EndsAt(K, E, k) ==
  \/ K[k] = DONE /\ k = 1
  \/ \E n \in 1 .. k - 1 : Entries(K, k, n) /\ k - n \in E

Ends(K, E) == \A k \in E : k \in 1 .. Len(K) /\ EndsAt(K, E, k)

\* K is made of whole continuations up to position k.
WholeTo(K, k) == IsSeq(K) /\ \E E : Ends(K, E) /\ k \in E
Framed(K) == WholeTo(K, Len(K))

LEMMA OneSize ==
  ASSUME NEW K, NEW k, NEW n, Entries(K, k, n)
  PROVE  /\ K[k] # DONE /\ n \in Nat
         /\ \A m : Entries(K, k, m) => m = n
         /\ FrameSize(K, k) = n
  BY Distinct DEF Entries, FrameSize

LEMMA WholeIn ==
  ASSUME NEW K, NEW k, WholeTo(K, k)
  PROVE  Len(K) \in Nat /\ k \in 1 .. Len(K)
  BY DEF WholeTo, Ends, IsSeq

\* What is under the topmost continuation.
LEMMA Under ==
  ASSUME NEW K, NEW k, WholeTo(K, k), NEW n, Entries(K, k, n)
  PROVE  n \in 1 .. k - 1 /\ WholeTo(K, k - n)
  <1>1. PICK E : Ends(K, E) /\ k \in E BY DEF WholeTo
  <1>2. K[k] # DONE /\ \A m : Entries(K, k, m) => m = n BY OneSize
  <1>3. n \in 1 .. k - 1 /\ k - n \in E BY <1>1, <1>2 DEF Ends, EndsAt
  <1> QED BY <1>1, <1>3 DEF WholeTo

\* The bottom.
LEMMA Bottom ==
  ASSUME NEW K, NEW k, WholeTo(K, k), K[k] = DONE
  PROVE  k = 1
  <1>1. \A n : ~ Entries(K, k, n) BY OneSize
  <1> QED BY <1>1 DEF WholeTo, Ends, EndsAt

LEMMA DoneAgain ==
  ASSUME NEW s, IsSeq(s), Len(s) = 0, NEW L, L = s \o <<DONE>>
  PROVE  Framed(L) /\ Len(L) = 1
  <1>1. PICK S : s \in Seq(S) BY DEF IsSeq
  <1>2. PICK U : U = S \cup {DONE} OBVIOUS
  <1>3. s \in Seq(U) /\ <<DONE>> \in Seq(U) BY <1>1, <1>2
  <1>4. L \in Seq(U) /\ Len(L) = 1 /\ L[1] = DONE BY <1>3
  <1>5. Ends(L, {1}) BY <1>4 DEF Ends, EndsAt
  <1> QED BY <1>4, <1>5 DEF Framed, WholeTo, IsSeq

LEMMA DoneAlone == Framed(<<DONE>>) /\ Len(<<DONE>>) = 1
  <1>1. IsSeq(<<DONE>>) /\ Len(<<DONE>>) = 1
    <2>1. <<DONE>> \in Seq({DONE}) OBVIOUS
    <2> QED BY <2>1 DEF IsSeq
  <1>2. Ends(<<DONE>>, {1}) BY DEF Ends, EndsAt
  <1> QED BY <1>1, <1>2 DEF Framed, WholeTo

\* A stack that agrees with K up to position k.
LEMMA Agrees ==
  ASSUME NEW K, NEW k, WholeTo(K, k), NEW L, IsSeq(L), k <= Len(L),
         \A j \in 1 .. k : L[j] = K[j]
  PROVE  WholeTo(L, k)
  <1>1. PICK E : Ends(K, E) /\ k \in E BY DEF WholeTo
  <1>2. k \in Nat /\ Len(L) \in Nat BY WholeIn DEF IsSeq
  <1> DEFINE D == {j \in E : j <= k}
  <1>3. ASSUME NEW j \in D PROVE j \in 1 .. Len(L) /\ EndsAt(L, D, j)
    <2>1. j \in 1 .. k /\ L[j] = K[j]
      <3>1. j \in E /\ j <= k OBVIOUS
      <3>2. j \in 1 .. Len(K) BY <1>1, <3>1, Zenon DEF Ends
      <3>3. j \in 1 .. k BY <1>2, <3>1, <3>2
      <3> QED BY <3>3
    <2>2. CASE K[j] = DONE /\ j = 1 BY <1>2, <2>1, <2>2 DEF EndsAt
    <2>3. ASSUME NEW n \in 1 .. j - 1, Entries(K, j, n), j - n \in E
          PROVE  Entries(L, j, n) /\ j - n \in D
      <3>1. j - n \in D BY <1>2, <2>1, <2>3
      <3>2. j - 1 \in 1 .. k BY <1>2, <2>1, <2>3
      <3>3. K[j] = APPLICATION_ARGS => j - 2 \in 1 .. k
        <4>1. K[j] = APPLICATION_ARGS => n >= 4 BY <2>3, Distinct DEF Entries
        <4> QED BY <1>2, <2>1, <2>3, <4>1
      <3>4. Entries(L, j, n) BY <2>1, <2>3, <3>2, <3>3 DEF Entries
      <3> QED BY <3>1, <3>4
    <2>4. EndsAt(K, E, j) BY <1>1 DEF Ends
    <2>5. EndsAt(L, D, j) BY <2>2, <2>3, <2>4 DEF EndsAt
    <2> QED BY <1>2, <2>1, <2>5
  <1>4. Ends(L, D) BY <1>3 DEF Ends
  <1>5. k \in D BY <1>1, <1>2
  <1> HIDE DEF D
  <1> QED BY <1>4, <1>5 DEF WholeTo

\* One continuation more.
LEMMA OneMore ==
  ASSUME NEW K, NEW k, WholeTo(K, k), NEW j, j \in k + 1 .. Len(K), Entries(K, j, j - k)
  PROVE  WholeTo(K, j)
  <1>1. PICK E : Ends(K, E) /\ k \in E BY DEF WholeTo
  <1>2. k \in Nat /\ k \in 1 .. Len(K) /\ Len(K) \in Nat BY WholeIn
  <1>3. PICK D : D = E \cup {j} OBVIOUS
  <1>4. ASSUME NEW i \in D PROVE i \in 1 .. Len(K) /\ EndsAt(K, D, i)
    <2>1. CASE i \in E BY <1>1, <1>3, <2>1 DEF Ends, EndsAt
    <2>2. CASE i = j
      <3>1. j - k \in 1 .. j - 1 /\ j - (j - k) = k /\ j \in 1 .. Len(K) BY <1>2
      <3>2. k \in D BY <1>1, <1>3
      <3> QED BY <2>2, <3>1, <3>2 DEF EndsAt
    <2> QED BY <1>3, <2>1, <2>2
  <1>5. Ends(K, D) /\ j \in D BY <1>3, <1>4 DEF Ends
  <1> QED BY <1>5 DEF WholeTo

\* The stack cut to what is whole.
LEMMA CutFramed ==
  ASSUME NEW K, NEW k, WholeTo(K, k)
  PROVE  Framed(SubSeq(K, 1, k)) /\ Len(SubSeq(K, 1, k)) = k
  <1>1. k \in 1 .. Len(K) /\ Len(K) \in Nat /\ IsSeq(K) BY WholeIn DEF WholeTo
  <1>2. k \in 0 .. Len(K) BY <1>1
  <1>3. PICK L : L = SubSeq(K, 1, k) OBVIOUS
  <1>4. IsSeq(L) /\ Len(L) = k /\ \A j \in 1 .. k : L[j] = K[j] BY <1>1, <1>2, <1>3, CutSeq
  <1>5. WholeTo(L, k) BY <1>1, <1>4, Agrees
  <1> QED BY <1>3, <1>4, <1>5 DEF Framed

(***************************************************************************)
(* What Whole computes                                                     *)
(***************************************************************************)
\* The body of the recursive function that Whole defines.
WholeBody(K, whole, k) ==
  /\ k > 0
  /\ IF K[k] = DONE THEN k = 1
     ELSE FrameSize(K, k) \in 1 .. k /\ whole[k - FrameSize(K, k)]

Closed(K, E) ==
  \A k \in E : /\ k > 0
               /\ IF K[k] = DONE THEN k = 1
                  ELSE FrameSize(K, k) \in 1 .. k /\ k - FrameSize(K, k) \in E

\* There is such a function: membership in a closed set of positions.
LEMMA WholeExists ==
  ASSUME NEW K, Len(K) \in Nat
  PROVE  \E w : w = [k \in 0 .. Len(K) |-> WholeBody(K, w, k)]
  <1> DEFINE In(k) == \E E : Closed(K, E) /\ k \in E
  <1>1. PICK w : w = [k \in 0 .. Len(K) |-> In(k)] OBVIOUS
  <1>2. ASSUME NEW k \in 0 .. Len(K) PROVE In(k) <=> WholeBody(K, w, k)
    <2>1. FrameSize(K, k) \in 1 .. k => k - FrameSize(K, k) \in 0 .. Len(K) OBVIOUS
    <2>2. FrameSize(K, k) \in 1 .. k => w[k - FrameSize(K, k)] = In(k - FrameSize(K, k))
      BY <1>1, <2>1
    <2>3. ASSUME In(k) PROVE WholeBody(K, w, k)
      <3>1. PICK E : Closed(K, E) /\ k \in E BY <2>3
      <3> QED BY <2>2, <3>1 DEF Closed, WholeBody
    <2>4. ASSUME WholeBody(K, w, k) PROVE In(k)
      <3>1. CASE K[k] = DONE
        <4>1. Closed(K, {k}) BY <2>4, <3>1 DEF Closed, WholeBody
        <4> QED BY <4>1
      <3>2. CASE K[k] # DONE
        <4>1. FrameSize(K, k) \in 1 .. k /\ In(k - FrameSize(K, k))
          BY <2>2, <2>4, <3>2 DEF WholeBody
        <4>2. PICK E : Closed(K, E) /\ k - FrameSize(K, k) \in E BY <4>1
        <4>3. Closed(K, E \cup {k}) BY <2>4, <3>2, <4>1, <4>2 DEF Closed, WholeBody
        <4> QED BY <4>3
      <3> QED BY <3>1, <3>2
    <2> QED BY <2>3, <2>4
  <1> HIDE DEF In
  <1>3. w = [k \in 0 .. Len(K) |-> WholeBody(K, w, k)]
    <2>1. \A k \in 0 .. Len(K) : In(k) = WholeBody(K, w, k) BY <1>2 DEF In, WholeBody
    <2> QED BY <1>1, <2>1
  <1> QED BY <1>3

LEMMA FramedWhole ==
  ASSUME NEW K, Framed(K)
  PROVE  Whole(K)
  <1>1. Len(K) \in Nat /\ Len(K) \in 1 .. Len(K) BY WholeIn DEF Framed
  <1>2. PICK w : w = CHOOSE v : v = [k \in 0 .. Len(K) |-> WholeBody(K, v, k)] OBVIOUS
  <1>3. w = [k \in 0 .. Len(K) |-> WholeBody(K, w, k)] BY <1>1, <1>2, WholeExists
  <1>4. Whole(K) <=> w[Len(K)] BY <1>2 DEF Whole, WholeBody
  <1>5. PICK E : Ends(K, E) /\ Len(K) \in E BY DEF Framed, WholeTo
  <1>6. \A k \in E : k \in 1 .. Len(K) /\ k \in Nat BY <1>1, <1>5 DEF Ends
  <1> DEFINE Bad == {k \in E : ~ WholeBody(K, w, k)}
  <1>7. Bad = {}
    <2> SUFFICES ASSUME Bad # {} PROVE FALSE OBVIOUS
    <2>1. Bad \subseteq Nat BY <1>6
    <2>2. PICK k \in Bad : \A j \in Bad : k <= j BY <2>1, LeastNat
    <2>3. k \in E /\ k \in 1 .. Len(K) /\ EndsAt(K, E, k) BY <1>5, <1>6 DEF Ends
    <2>4. CASE K[k] = DONE /\ k = 1 BY <2>4 DEF WholeBody
    <2>5. ASSUME NEW n \in 1 .. k - 1, Entries(K, k, n), k - n \in E PROVE FALSE
      <3>1. FrameSize(K, k) = n /\ K[k] # DONE BY <2>5, OneSize
      <3>2. k - n \notin Bad BY <2>2, <2>3, <2>5
      <3>3. WholeBody(K, w, k - n) BY <2>5, <3>2
      <3>4. k - n \in 0 .. Len(K) BY <1>1, <2>3, <2>5
      <3>5. w[k - n] BY <1>3, <3>3, <3>4
      <3>6. WholeBody(K, w, k) BY <2>3, <2>5, <3>1, <3>5 DEF WholeBody
      <3> QED BY <3>6
    <2> QED BY <2>3, <2>4, <2>5 DEF EndsAt
  <1>8. WholeBody(K, w, Len(K)) BY <1>5, <1>7
  <1>9. Len(K) \in 0 .. Len(K) BY <1>1
  <1> QED BY <1>3, <1>4, <1>8, <1>9

(***************************************************************************)
(* Contexts                                                                *)
(***************************************************************************)
Ready(c) ==
  /\ {"K", "done", "stack_size"} \subseteq DOMAIN c
  /\ c.stack_size \in StackSizes
  /\ ~ c.done => Framed(c.K) /\ Len(c.K) <= c.stack_size

\* The inductive invariant.
AllReady ==
  /\ IsSeq(ctx_queue) /\ \A k \in 1 .. Len(ctx_queue) : Ready(ctx_queue[k])
  /\ running => Ready(ctx)

LEMMA AllReadySays == AllReady => StackOfFrames
  <1> SUFFICES ASSUME AllReady, NEW c \in Alive, ~ c.done PROVE Whole(c.K) BY DEF StackOfFrames
  <1>1. DOMAIN ctx_queue = 1 .. Len(ctx_queue) BY DEF AllReady, IsSeq
  <1>2. Ready(c) BY <1>1 DEF AllReady, Alive, Range
  <1> QED BY <1>2, FramedWhole DEF Ready

LEMMA NewReady ==
  ASSUME NEW h, NEW id, NEW program, NEW env, NEW size \in StackSizes, NEW garbage
  PROVE  Ready(new_ctx(h, id, program, env, size, garbage))
  <1>1. \A n \in StackSizes : 1 <= n BY DEF StackSizes
  <1> QED BY <1>1, DoneAlone DEF Ready, new_ctx

\* Ways for a step to end.
LEMMA StayReady ==
  ASSUME AllReady, UNCHANGED <<ctx, running, ctx_queue>>
  PROVE  AllReady'
  BY DEF AllReady

LEMMA FinishReady ==
  ASSUME AllReady, NEW c, finish_ctx(c)
  PROVE  AllReady'
  BY DEF AllReady, finish_ctx

\* K as a step leaves it.
KReady(k) == ~ ctx.done => Framed(k) /\ Len(k) <= ctx.stack_size

LEMMA ReturnReady ==
  ASSUME AllReady, running, NEW v, NEW k, KReady(k), Return(v, k)
  PROVE  AllReady'
  <1>1. Ready(ctx') BY DEF AllReady, Return, Ready, KReady
  <1> QED BY <1>1 DEF AllReady, Return, waiting

LEMMA GoReady ==
  ASSUME AllReady, running, NEW e, NEW env, NEW k, KReady(k), Go(e, env, k)
  PROVE  AllReady'
  <1>1. Ready(ctx') BY DEF AllReady, Go, Ready, KReady
  <1> QED BY <1>1 DEF AllReady, Go, waiting

LEMMA AppendReady ==
  ASSUME NEW q, IsSeq(q), \A j \in 1 .. Len(q) : Ready(q[j]), NEW c, Ready(c)
  PROVE  IsSeq(Append(q, c)) /\ \A j \in 1 .. Len(Append(q, c)) : Ready(Append(q, c)[j])
  <1>1. PICK S : q \in Seq(S) BY DEF IsSeq
  <1>2. PICK U : U = S \cup {c} OBVIOUS
  <1>3. q \in Seq(U) /\ c \in U BY <1>1, <1>2
  <1>4. /\ Append(q, c) \in Seq(U) /\ Len(q) \in Nat /\ Len(Append(q, c)) = Len(q) + 1
        /\ \A j \in 1 .. Len(q) : Append(q, c)[j] = q[j]
        /\ Append(q, c)[Len(q) + 1] = c
    BY <1>3
  <1>5. \A j \in 1 .. Len(q) + 1 : j \in 1 .. Len(q) \/ j = Len(q) + 1 BY <1>4
  <1> QED BY <1>4, <1>5 DEF IsSeq

LEMMA YieldReady ==
  ASSUME AllReady, running, NEW k, NEW us, KReady(k), yield_ctx([ctx EXCEPT !.K = k], us)
  PROVE  AllReady'
  <1>1. PICK c : c = [ctx EXCEPT !.K = k] OBVIOUS
  <1>2. PICK y : y = [c EXCEPT !.r = T, !.app_cont = TRUE, !.asleep = (us # 0)] OBVIOUS
  <1>3. Ready(c) BY <1>1 DEF AllReady, Ready, KReady
  <1>4. Ready(y) BY <1>2, <1>3 DEF Ready
  <1>5. ctx_queue' = Append(ctx_queue, y) /\ ~ running' BY <1>1, <1>2 DEF yield_ctx
  <1>6. IsSeq(ctx_queue') /\ \A j \in 1 .. Len(ctx_queue') : Ready(ctx_queue'[j])
    BY <1>4, <1>5, AppendReady DEF AllReady
  <1> QED BY <1>5, <1>6 DEF AllReady

\* K as a push of vals on k leaves it, if there is room.
Pushes(k, vals) == ~ ctx.done => IsSeq(k) /\ IsSeq(vals) /\ Framed(k \o vals)

LEMMA FitsReady ==
  ASSUME NEW k, NEW vals, Pushes(k, vals), Fits(k, vals)
  PROVE  KReady(k \o vals)
  <1>1. ~ ctx.done => Len(k \o vals) = Len(k) + Len(vals) BY JoinSeq DEF Pushes
  <1> QED BY <1>1 DEF Pushes, Fits, KReady

LEMMA FofGoReady ==
  ASSUME AllReady, running, NEW k, NEW vals, NEW e, NEW env, Pushes(k, vals),
         FOF(k, vals, Go(e, env, k \o vals))
  PROVE  AllReady'
  <1>1. CASE Fits(k, vals)
    <2>1. Go(e, env, k \o vals) BY <1>1 DEF FOF
    <2> QED BY <1>1, <2>1, FitsReady, GoReady
  <1>2. CASE ~ Fits(k, vals)
    <2>1. finish_ctx([ctx EXCEPT !.r = FATAL_ERROR, !.done = TRUE, !.K = Pushed(k, vals)])
      BY <1>2 DEF FOF
    <2> QED BY <2>1, FinishReady
  <1> QED BY <1>1, <1>2

\* FATAL_ON_FAIL when the push fails.
LEMMA GivenUpReady ==
  ASSUME AllReady, running, NEW k,
         ctx' = [ctx EXCEPT !.r = FATAL_ERROR, !.done = TRUE, !.K = k, !.app_cont = FALSE],
         UNCHANGED <<running, waiting>>
  PROVE  AllReady'
  <1>1. Ready(ctx') BY DEF AllReady, Ready
  <1> QED BY <1>1 DEF AllReady, waiting

LEMMA FatalGoReady ==
  ASSUME AllReady, running, NEW k, NEW vals, NEW e, NEW env, Pushes(k, vals),
         FATAL_ON_FAIL(k, vals, Go(e, env, k \o vals))
  PROVE  AllReady'
  <1>1. CASE Fits(k, vals)
    <2>1. Go(e, env, k \o vals) BY <1>1 DEF FATAL_ON_FAIL
    <2> QED BY <1>1, <2>1, FitsReady, GoReady
  <1>2. CASE ~ Fits(k, vals) BY <1>2, GivenUpReady DEF FATAL_ON_FAIL
  <1> QED BY <1>1, <1>2

(***************************************************************************)
(* What the steps push                                                     *)
(***************************************************************************)
\* On what is left of K, vals complete a continuation that stands on position b.
LEMMA JoinFramed ==
  ASSUME NEW K, NEW b, WholeTo(K, b), NEW J, IsSeq(J), b <= Len(J),
         \A j \in 1 .. b : J[j] = K[j],
         NEW vals, IsSeq(vals), Len(vals) > 0,
         NEW L, L = J \o vals, NEW k, k = Len(J) + Len(vals), Entries(L, k, k - b)
  PROVE  Framed(L)
  <1>2. /\ IsSeq(L) /\ Len(J) \in Nat /\ Len(vals) \in Nat /\ Len(L) = Len(J) + Len(vals)
        /\ \A j \in 1 .. Len(J) : L[j] = J[j]
    BY JoinSeq
  <1>3. b \in Nat BY WholeIn
  <1>4. b <= Len(L) /\ \A j \in 1 .. b : j \in 1 .. Len(J) BY <1>2, <1>3
  <1>5. WholeTo(L, b)
    <2>1. \A j \in 1 .. b : L[j] = K[j] BY <1>2, <1>4
    <2> QED BY <1>2, <1>4, <2>1, Agrees
  <1>6. k = Len(L) /\ k \in b + 1 .. Len(L) BY <1>2, <1>3
  <1>7. WholeTo(L, k) BY <1>5, <1>6, OneMore
  <1> QED BY <1>6, <1>7 DEF Framed

\* A whole continuation on a whole stack.
LEMMA PushFramed ==
  ASSUME NEW K, NEW vals, IsSeq(vals), Len(vals) > 0,
         \A L : IsSeq(K) /\ (\A k \in 1 .. Len(vals) : L[Len(K) + k] = vals[k])
                => Entries(L, Len(K) + Len(vals), Len(vals))
  PROVE  Framed(K) => IsSeq(K) /\ Framed(K \o vals)
  <1> SUFFICES ASSUME Framed(K) PROVE IsSeq(K) /\ Framed(K \o vals) OBVIOUS
  <1>1. IsSeq(K) BY DEF Framed, WholeTo
  <1>2. PICK L : L = K \o vals OBVIOUS
  <1>3. /\ Len(K) \in Nat /\ Len(vals) \in Nat
        /\ \A k \in 1 .. Len(vals) : L[Len(K) + k] = vals[k]
    BY <1>1, <1>2, JoinSeq
  <1>4. PICK k : k = Len(K) + Len(vals) OBVIOUS
  <1>5. k - Len(K) = Len(vals) /\ Len(K) <= Len(K) BY <1>3, <1>4
  <1>6. Entries(L, k, k - Len(K)) BY <1>1, <1>3, <1>4, <1>5
  <1>7. Framed(L) BY <1>1, <1>2, <1>4, <1>5, <1>6, JoinFramed DEF Framed
  <1> QED BY <1>1, <1>2, <1>7

LEMMA Push2 ==
  ASSUME NEW K, NEW a, NEW tag \in {SET_GLOBAL_ENV, WAIT}
  PROVE  /\ IsSeq(<<a, tag>>)
         /\ Framed(K) => IsSeq(K) /\ Framed(K \o <<a, tag>>)
  <1>1. PICK vals : vals = <<a, tag>> OBVIOUS
  <1>2. vals \in Seq({a, tag}) /\ Len(vals) = 2 /\ vals[2] = tag BY <1>1
  <1>3. ASSUME NEW L, \A k \in 1 .. Len(vals) : L[Len(K) + k] = vals[k]
        PROVE  Entries(L, Len(K) + Len(vals), Len(vals))
    BY <1>2, <1>3 DEF Entries
  <1>4. IsSeq(vals) /\ Len(vals) > 0 BY <1>2 DEF IsSeq
  <1>5. Framed(K) => IsSeq(K) /\ Framed(K \o vals) BY <1>3, <1>4, PushFramed
  <1> QED BY <1>1, <1>4, <1>5

LEMMA Push3 ==
  ASSUME NEW K, NEW a, NEW b, NEW tag \in {PROGN_REST, SPAWN_ALL, AND, OR, IF_}
  PROVE  /\ IsSeq(<<a, b, tag>>)
         /\ Framed(K) => IsSeq(K) /\ Framed(K \o <<a, b, tag>>)
  <1>1. PICK vals : vals = <<a, b, tag>> OBVIOUS
  <1>2. vals \in Seq({a, b, tag}) /\ Len(vals) = 3 /\ vals[3] = tag BY <1>1
  <1>3. ASSUME NEW L, \A k \in 1 .. Len(vals) : L[Len(K) + k] = vals[k]
        PROVE  Entries(L, Len(K) + Len(vals), Len(vals))
    BY <1>2, <1>3 DEF Entries
  <1>4. IsSeq(vals) /\ Len(vals) > 0 BY <1>2 DEF IsSeq
  <1>5. Framed(K) => IsSeq(K) /\ Framed(K \o vals) BY <1>3, <1>4, PushFramed
  <1> QED BY <1>1, <1>4, <1>5

LEMMA PushLet ==
  ASSUME NEW K, NEW a, NEW b, NEW c, NEW d
  PROVE  /\ IsSeq(<<a, b, c, d, BIND_TO_KEY_REST>>)
         /\ Framed(K) => IsSeq(K) /\ Framed(K \o <<a, b, c, d, BIND_TO_KEY_REST>>)
  <1>1. PICK vals : vals = <<a, b, c, d, BIND_TO_KEY_REST>> OBVIOUS
  <1>2. /\ vals \in Seq({a, b, c, d, BIND_TO_KEY_REST}) /\ Len(vals) = 5
        /\ vals[5] = BIND_TO_KEY_REST
    BY <1>1
  <1>3. ASSUME NEW L, \A k \in 1 .. Len(vals) : L[Len(K) + k] = vals[k]
        PROVE  Entries(L, Len(K) + Len(vals), Len(vals))
    BY <1>2, <1>3 DEF Entries
  <1>4. IsSeq(vals) /\ Len(vals) > 0 BY <1>2 DEF IsSeq
  <1>5. Framed(K) => IsSeq(K) /\ Framed(K \o vals) BY <1>3, <1>4, PushFramed
  <1> QED BY <1>1, <1>4, <1>5

\* An application starts with no argument.
LEMMA PushArgs ==
  ASSUME NEW K, NEW a, NEW b
  PROVE  /\ IsSeq(<<a, enc_u(0), b, APPLICATION_ARGS>>)
         /\ Framed(K) => IsSeq(K) /\ Framed(K \o <<a, enc_u(0), b, APPLICATION_ARGS>>)
  <1>0. enc_u(0) = <<"U", 0>> BY DEF enc_u
  <1>1. PICK vals : vals = <<a, enc_u(0), b, APPLICATION_ARGS>> OBVIOUS
  <1>2. /\ vals \in Seq({a, enc_u(0), b, APPLICATION_ARGS}) /\ Len(vals) = 4
        /\ vals[4] = APPLICATION_ARGS /\ vals[2] = enc_u(0)
    BY <1>1
  <1>3. ASSUME NEW L, IsSeq(K), \A k \in 1 .. Len(vals) : L[Len(K) + k] = vals[k]
        PROVE  Entries(L, Len(K) + Len(vals), Len(vals))
    <2>1. Len(K) \in Nat BY <1>3, JoinSeq
    <2>2. L[Len(K) + 4] = APPLICATION_ARGS /\ L[Len(K) + 2] = <<"U", 0>> BY <1>0, <1>2, <1>3
    <2>3. Len(K) + 4 - 2 = Len(K) + 2 /\ 4 = 4 + 0 /\ 0 \in Nat BY <2>1
    <2> QED BY <1>2, <2>2, <2>3 DEF Entries
  <1>4. IsSeq(vals) /\ Len(vals) > 0 BY <1>2 DEF IsSeq
  <1>5. Framed(K) => IsSeq(K) /\ Framed(K \o vals) BY <1>3, <1>4, PushFramed
  <1> QED BY <1>1, <1>4, <1>5

(***************************************************************************)
(* What the steps pop                                                      *)
(***************************************************************************)
LEMMA StackFacts ==
  ASSUME AllReady, running, ~ ctx.done
  PROVE  /\ Framed(ctx.K) /\ IsSeq(ctx.K) /\ Len(ctx.K) \in Nat /\ Len(ctx.K) > 0
         /\ Len(ctx.K) <= ctx.stack_size /\ ctx.stack_size \in StackSizes
         /\ Top(0) = ctx.K[Len(ctx.K)]
  <1>1. /\ Framed(ctx.K) /\ Len(ctx.K) <= ctx.stack_size /\ ctx.stack_size \in StackSizes
    BY DEF AllReady, Ready
  <1>2. Len(ctx.K) \in Nat /\ Len(ctx.K) > 0 /\ IsSeq(ctx.K)
    <2>1. WholeTo(ctx.K, Len(ctx.K)) BY <1>1 DEF Framed
    <2>2. Len(ctx.K) \in Nat /\ Len(ctx.K) \in 1 .. Len(ctx.K) BY <2>1, WholeIn
    <2> QED BY <2>1, <2>2 DEF WholeTo
  <1>3. Len(ctx.K) - 0 = Len(ctx.K) BY <1>2
  <1> QED BY <1>1, <1>2, <1>3 DEF Top

\* On top of a stack of whole continuations is a tag, and no other word.
LEMMA TopTag ==
  ASSUME AllReady, running, ~ ctx.done
  PROVE  Top(0) \in Tags
  <1>1. WholeTo(ctx.K, Len(ctx.K)) /\ Top(0) = ctx.K[Len(ctx.K)] BY StackFacts DEF Framed
  <1>2. PICK E : Ends(ctx.K, E) /\ Len(ctx.K) \in E BY <1>1 DEF WholeTo
  <1>3. EndsAt(ctx.K, E, Len(ctx.K)) BY <1>2 DEF Ends
  <1> QED BY <1>1, <1>3 DEF EndsAt, Entries, Tags

\* A handler is entered with its own continuation on top.
LEMMA Dispatched ==
  ASSUME AllReady, NEW tag \in Tags, Cont(tag)
  PROVE  running /\ Apply /\ (~ ctx.done => Top(0) = tag)
  <1>1. running /\ Apply /\ dec_u(Top(0)) = dec_u(tag) BY DEF Cont, Apply
  <1> QED BY <1>1, TopTag, OneTag

\* The topmost continuation goes.
LEMMA PopReady ==
  ASSUME AllReady, running, NEW n, ~ ctx.done => Entries(ctx.K, Len(ctx.K), n)
  PROVE  KReady(Drop(n))
  <1> SUFFICES ASSUME ~ ctx.done PROVE Framed(Drop(n)) /\ Len(Drop(n)) <= ctx.stack_size
    BY DEF KReady
  <1>1. /\ WholeTo(ctx.K, Len(ctx.K)) /\ Len(ctx.K) \in Nat /\ Len(ctx.K) <= ctx.stack_size
        /\ ctx.stack_size \in Int
    BY StackFacts DEF Framed, StackSizes
  <1>2. n \in 1 .. Len(ctx.K) - 1 /\ WholeTo(ctx.K, Len(ctx.K) - n) BY <1>1, Under
  <1>3. Framed(Drop(n)) /\ Len(Drop(n)) = Len(ctx.K) - n BY <1>2, CutFramed DEF Drop
  <1>4. Len(ctx.K) - n <= ctx.stack_size BY <1>1, <1>2
  <1> QED BY <1>3, <1>4

LEMMA Pop2 ==
  ASSUME AllReady, Apply, ~ ctx.done => Top(0) \in {SET_GLOBAL_ENV, WAIT}
  PROVE  KReady(Drop(2))
  <1>1. ~ ctx.done => Entries(ctx.K, Len(ctx.K), 2) BY StackFacts DEF Entries, Apply
  <1> QED BY <1>1, PopReady DEF Apply

LEMMA Pop3 ==
  ASSUME AllReady, Apply, ~ ctx.done => Top(0) \in {PROGN_REST, SPAWN_ALL, AND, OR, IF_}
  PROVE  KReady(Drop(3))
  <1>1. ~ ctx.done => Entries(ctx.K, Len(ctx.K), 3) BY StackFacts DEF Entries, Apply
  <1> QED BY <1>1, PopReady DEF Apply

LEMMA PopLet ==
  ASSUME AllReady, Apply, ~ ctx.done => Top(0) = BIND_TO_KEY_REST
  PROVE  KReady(Drop(5))
  <1>1. ~ ctx.done => Entries(ctx.K, Len(ctx.K), 5) BY StackFacts DEF Entries, Apply
  <1> QED BY <1>1, PopReady DEF Apply

\* The count of an application is the number of its arguments.
LEMMA CountIs ==
  ASSUME AllReady, Apply, Top(0) = APPLICATION, ~ ctx.done
  PROVE  Count \in Nat /\ Entries(ctx.K, Len(ctx.K), 3 + Count)
  <1>1. /\ WholeTo(ctx.K, Len(ctx.K)) /\ Len(ctx.K) \in Nat
        /\ ctx.K[Len(ctx.K)] = APPLICATION
        /\ Len(ctx.K) <= ctx.stack_size /\ ctx.stack_size \in StackSizes
    BY StackFacts DEF Apply, Framed
  <1>2. PICK n : Entries(ctx.K, Len(ctx.K), n)
    <2>1. PICK E : Ends(ctx.K, E) /\ Len(ctx.K) \in E BY <1>1 DEF WholeTo
    <2>2. EndsAt(ctx.K, E, Len(ctx.K)) BY <2>1 DEF Ends
    <2>3. ctx.K[Len(ctx.K)] # DONE BY <1>1, Distinct
    <2> QED BY <2>2, <2>3 DEF EndsAt
  <1>3. PICK m \in Nat : ctx.K[Len(ctx.K) - 1] = <<"U", m>> /\ n = 3 + m
    BY <1>1, <1>2, Distinct DEF Entries
  <1>4. n \in 1 .. Len(ctx.K) - 1 BY <1>1, <1>2, Under
  <1>5. m \in 0 .. 2^28 - 1
    <2>1. \A j \in StackSizes : j \in Int BY DEF StackSizes
    <2>2. m <= ctx.stack_size BY <1>1, <1>3, <1>4, <2>1
    <2>3. \A i \in Nat, j \in StackSizes : i <= j => i \in 0 .. 2^28 - 1 BY DEF StackSizes
    <2> QED BY <1>1, <2>2, <2>3
  <1>6. dec_u(<<"U", m>>) = m BY <1>5, Decoded, Zenon
  <1>7. Count = m BY <1>3, <1>6 DEF Count, Top
  <1> QED BY <1>2, <1>3, <1>7

LEMMA PopApplication ==
  ASSUME AllReady, Apply, ~ ctx.done => Top(0) = APPLICATION
  PROVE  KReady(Drop(Count + 3))
  <1>1. PICK n : n = Count + 3 OBVIOUS
  <1>2. ASSUME ~ ctx.done PROVE Entries(ctx.K, Len(ctx.K), n)
    <2>1. Count \in Nat /\ Entries(ctx.K, Len(ctx.K), 3 + Count) BY <1>2, CountIs
    <2>2. 3 + Count = n BY <1>1, <2>1
    <2> QED BY <2>1, <2>2
  <1>3. KReady(Drop(n)) BY <1>2, PopReady DEF Apply
  <1> QED BY <1>1, <1>3

\* So is that of one whose arguments are being evaluated.
LEMMA ArgsFacts ==
  ASSUME AllReady, Apply, Top(0) = APPLICATION_ARGS, ~ ctx.done
  PROVE  \E m \in Nat : /\ Top(2) = <<"U", m>> /\ m + 1 \in 0 .. 2^28 - 1
                        /\ Entries(ctx.K, Len(ctx.K), 4 + m)
                        /\ 4 + m \in 1 .. Len(ctx.K) - 1
                        /\ WholeTo(ctx.K, Len(ctx.K) - (4 + m))
  <1>1. /\ WholeTo(ctx.K, Len(ctx.K)) /\ Len(ctx.K) \in Nat
        /\ ctx.K[Len(ctx.K)] = APPLICATION_ARGS
        /\ Len(ctx.K) <= ctx.stack_size /\ ctx.stack_size \in StackSizes
    BY StackFacts DEF Apply, Framed
  <1>2. PICK n : Entries(ctx.K, Len(ctx.K), n)
    <2>1. PICK E : Ends(ctx.K, E) /\ Len(ctx.K) \in E BY <1>1 DEF WholeTo
    <2>2. APPLICATION_ARGS # DONE BY Distinct
    <2> QED BY <1>1, <2>1, <2>2 DEF Ends, EndsAt
  <1>3. PICK m \in Nat : ctx.K[Len(ctx.K) - 2] = <<"U", m>> /\ n = 4 + m
    BY <1>1, <1>2, Distinct DEF Entries
  <1>4. n \in 1 .. Len(ctx.K) - 1 /\ WholeTo(ctx.K, Len(ctx.K) - n) BY <1>1, <1>2, Under
  <1>5. m + 1 \in 0 .. 2^28 - 1
    <2>0. \A j \in StackSizes : j \in Int BY DEF StackSizes
    <2>1. m + 1 <= ctx.stack_size BY <1>1, <1>3, <1>4, <2>0
    <2>2. \A i \in Nat, j \in StackSizes : i <= j => i \in 0 .. 2^28 - 1 BY DEF StackSizes
    <2> QED BY <1>1, <2>1, <2>2
  <1> QED BY <1>2, <1>3, <1>4, <1>5 DEF Top

(***************************************************************************)
(* evaluation_step                                                         *)
(***************************************************************************)
LEMMA KeepReady ==
  ASSUME AllReady, running
  PROVE  KReady(ctx.K) /\ (~ ctx.done => Framed(ctx.K))
  BY DEF AllReady, Ready, KReady

\* What is left of a sequence without one of its elements.
LEMMA Removed ==
  ASSUME NEW q, IsSeq(q), NEW k \in DOMAIN q, NEW s, s = RemoveAt(q, k)
  PROVE  IsSeq(s) /\ \A j \in 1 .. Len(s) : \E i \in 1 .. Len(q) : s[j] = q[i]
  <1>1. PICK S : q \in Seq(S) BY DEF IsSeq
  <1>2. Len(q) \in Nat /\ k \in 1 .. Len(q) BY <1>1
  <1>3. PICK a : a = SubSeq(q, 1, k - 1) OBVIOUS
  <1>4. PICK b : b = SubSeq(q, k + 1, Len(q)) OBVIOUS
  <1>5. a \in Seq(S) /\ \A j \in 1 .. Len(a) : \E i \in 1 .. Len(q) : a[j] = q[i]
    <2>1. a \in Seq(S) /\ Len(a) = k - 1 /\ \A j \in 1 .. k - 1 : a[j] = q[j]
      BY <1>1, <1>2, <1>3
    <2> QED BY <1>2, <2>1
  <1>6. b \in Seq(S) /\ \A j \in 1 .. Len(b) : \E i \in 1 .. Len(q) : b[j] = q[i]
    <2>1. /\ b \in Seq(S) /\ Len(b) = Len(q) - k
          /\ \A j \in 1 .. Len(q) - k : b[j] = q[k + j]
      BY <1>1, <1>2, <1>4
    <2>2. \A j \in 1 .. Len(q) - k : k + j \in 1 .. Len(q) BY <1>2
    <2> QED BY <2>1, <2>2
  <1>7. s = a \o b BY <1>3, <1>4 DEF RemoveAt
  <1>8. /\ IsSeq(s) /\ Len(a) \in Nat /\ Len(b) \in Nat /\ Len(s) = Len(a) + Len(b)
        /\ \A j \in 1 .. Len(a) : s[j] = a[j]
        /\ \A j \in 1 .. Len(b) : s[Len(a) + j] = b[j]
    <2>1. IsSeq(a) /\ IsSeq(b) BY <1>5, <1>6, SeqIn
    <2> QED BY <1>7, <2>1, JoinSeq
  <1>9. ASSUME NEW j \in 1 .. Len(s) PROVE \E i \in 1 .. Len(q) : s[j] = q[i]
    <2>1. CASE j \in 1 .. Len(a) BY <1>5, <1>8, <2>1
    <2>2. CASE j > Len(a)
      <3>1. PICK d \in 1 .. Len(b) : j = Len(a) + d
        <4>1. j - Len(a) \in 1 .. Len(b) /\ j = Len(a) + (j - Len(a)) BY <1>8, <2>2
        <4> QED BY <4>1
      <3> QED BY <1>6, <1>8, <3>1
    <2> QED BY <1>8, <2>1, <2>2
  <1> QED BY <1>8, <1>9

LEMMA DequeueReady ==
  ASSUME AllReady, Dequeue
  PROVE  AllReady'
  <1>1. PICK k \in DOMAIN ctx_queue : ctx' = ctx_queue[k] /\ ctx_queue' = RemoveAt(ctx_queue, k)
    BY DEF Dequeue
  <1>2. IsSeq(ctx_queue) BY DEF AllReady
  <1>3. PICK s : s = RemoveAt(ctx_queue, k) OBVIOUS
  <1>4. IsSeq(s) /\ \A j \in 1 .. Len(s) : \E i \in 1 .. Len(ctx_queue) : s[j] = ctx_queue[i]
    BY <1>2, <1>3, Removed
  <1>5. \A j \in 1 .. Len(s) : Ready(s[j]) BY <1>4 DEF AllReady
  <1>6. k \in 1 .. Len(ctx_queue) BY <1>2 DEF IsSeq
  <1>7. Ready(ctx') BY <1>1, <1>6 DEF AllReady
  <1> QED BY <1>1, <1>3, <1>4, <1>5, <1>7 DEF AllReady

LEMMA CollectReady ==
  ASSUME AllReady, Collect \/ OutOfMemory
  PROVE  AllReady'
  <1>1. CASE Collect BY <1>1, StayReady DEF Collect, Stay, waiting
  <1>2. CASE OutOfMemory BY <1>2, FinishReady DEF OutOfMemory, error_ctx
  <1> QED BY <1>1, <1>2

LEMMA EvalReturns ==
  ASSUME AllReady, EvalSymbol \/ EvalSelf \/ EvalQuote \/ EvalLambda
  PROVE  AllReady'
  <1>1. running BY DEF EvalSymbol, EvalSelf, EvalQuote, EvalLambda, Form, Eval
  <1>2. KReady(ctx.K) BY <1>1, KeepReady
  <1>3. (\E v : Return(v, ctx.K)) \/ Stay BY DEF EvalSymbol, EvalSelf, EvalQuote, EvalLambda
  <1>4. CASE \E v : Return(v, ctx.K) BY <1>1, <1>2, <1>4, ReturnReady
  <1>5. CASE Stay BY <1>5, StayReady DEF Stay, waiting
  <1> QED BY <1>3, <1>4, <1>5

LEMMA EvalDefineReady ==
  ASSUME AllReady, EvalDefine
  PROVE  AllReady'
  <1>1. running BY DEF EvalDefine, Form, Eval
  <1>2. PICK key : key = nth(ctx.curr_exp, 1) OBVIOUS
  <1>3. CASE error_ctx(EERROR, ctx.K) BY <1>3, FinishReady DEF error_ctx
  <1>4. CASE PushGo(<<key, SET_GLOBAL_ENV>>, nth(ctx.curr_exp, 2), ctx.curr_env)
    <2>1. Pushes(ctx.K, <<key, SET_GLOBAL_ENV>>) BY <1>1, KeepReady, Push2 DEF Pushes
    <2> QED BY <1>1, <1>4, <2>1, FofGoReady DEF PushGo
  <1> QED BY <1>2, <1>3, <1>4 DEF EvalDefine

LEMMA EvalPrognReady ==
  ASSUME AllReady, EvalProgn
  PROVE  AllReady'
  <1>1. running BY DEF EvalProgn, Form, Eval
  <1>2. PICK exps : exps = nthcdr(ctx.curr_exp, 1) OBVIOUS
  <1>3. CASE Return(NIL, ctx.K) BY <1>1, <1>3, KeepReady, ReturnReady
  <1>4. CASE error_ctx(exps, ctx.K) BY <1>4, FinishReady DEF error_ctx
  <1>5. CASE PushGo(<<ctx.curr_env, cdr(heap, exps), PROGN_REST>>, car(heap, exps), ctx.curr_env)
    <2>1. Pushes(ctx.K, <<ctx.curr_env, cdr(heap, exps), PROGN_REST>>)
      BY <1>1, KeepReady, Push3 DEF Pushes
    <2> QED BY <1>1, <1>5, <2>1, FofGoReady DEF PushGo
  <1> QED BY <1>2, <1>3, <1>4, <1>5 DEF EvalProgn

LEMMA EvalSpawnReady ==
  ASSUME AllReady, EvalSpawn
  PROVE  AllReady'
  <1>1. running BY DEF EvalSpawn, Form, Eval
  <1>2. PICK prgs : prgs = nthcdr(ctx.curr_exp, 1) OBVIOUS
  <1>3. PICK all : all = <<ctx.curr_env, prgs, SPAWN_ALL>> OBVIOUS
  <1>4. CASE Return(NIL, ctx.K) BY <1>1, <1>4, KeepReady, ReturnReady
  <1>5. CASE FOF(ctx.K, all, Return(NIL, ctx.K \o all))
    <2>1. Pushes(ctx.K, all) BY <1>1, <1>3, KeepReady, Push3 DEF Pushes
    <2>2. CASE Fits(ctx.K, all)
      <3>1. Return(NIL, ctx.K \o all) BY <1>5, <2>2 DEF FOF
      <3> QED BY <1>1, <2>1, <2>2, <3>1, FitsReady, ReturnReady
    <2>3. CASE ~ Fits(ctx.K, all)
      <3>1. \E c : finish_ctx(c) BY <1>5, <2>3 DEF FOF
      <3> QED BY <3>1, FinishReady
    <2> QED BY <2>2, <2>3
  <1> QED BY <1>2, <1>3, <1>4, <1>5 DEF EvalSpawn

LEMMA EvalIfReady ==
  ASSUME AllReady, EvalIf
  PROVE  AllReady'
  <1>1. running BY DEF EvalIf, Form, Eval
  <1>2. PICK vals : vals = <<nth(ctx.curr_exp, 3), nth(ctx.curr_exp, 2), IF_>> OBVIOUS
  <1>3. Pushes(ctx.K, vals) BY <1>1, <1>2, KeepReady, Push3 DEF Pushes
  <1>4. FOF(ctx.K, vals, Go(nth(ctx.curr_exp, 1), ctx.curr_env, ctx.K \o vals))
    BY <1>2 DEF EvalIf, PushGo
  <1> QED BY <1>1, <1>3, <1>4, FofGoReady

LEMMA EvalLetReady ==
  ASSUME AllReady, EvalLet
  PROVE  AllReady'
  <1>1. running BY DEF EvalLet, Form, Eval
  <1>2. \/ \E e : Go(e, ctx.curr_env, ctx.K)
        \/ Stay
        \/ \E a, b, c, d, e : PushGo(<<a, b, c, d, BIND_TO_KEY_REST>>, e, c)
    BY DEF EvalLet
  <1>3. CASE \E e : Go(e, ctx.curr_env, ctx.K) BY <1>1, <1>3, KeepReady, GoReady
  <1>4. CASE Stay BY <1>4, StayReady DEF Stay, waiting
  <1>5. CASE \E a, b, c, d, e : PushGo(<<a, b, c, d, BIND_TO_KEY_REST>>, e, c)
    <2>1. PICK a, b, c, d, e : PushGo(<<a, b, c, d, BIND_TO_KEY_REST>>, e, c) BY <1>5
    <2>2. Pushes(ctx.K, <<a, b, c, d, BIND_TO_KEY_REST>>) BY <1>1, KeepReady, PushLet DEF Pushes
    <2> QED BY <1>1, <2>1, <2>2, FofGoReady DEF PushGo
  <1> QED BY <1>2, <1>3, <1>4, <1>5

LEMMA EvalApplicationReady ==
  ASSUME AllReady, EvalApplication
  PROVE  AllReady'
  <1>1. running BY DEF EvalApplication, Eval
  <1>2. PICK a, b, e : PushGo(<<a, enc_u(0), b, APPLICATION_ARGS>>, e, ctx.curr_env)
    BY DEF EvalApplication
  <1>3. Pushes(ctx.K, <<a, enc_u(0), b, APPLICATION_ARGS>>) BY <1>1, KeepReady, PushArgs DEF Pushes
  <1> QED BY <1>1, <1>2, <1>3, FofGoReady DEF PushGo

(***************************************************************************)
(* apply_continuation                                                      *)
(***************************************************************************)
LEMMA ContDoneReady ==
  ASSUME AllReady, ContDone
  PROVE  AllReady'
  <1>1. running /\ Apply /\ (~ ctx.done => Top(0) = DONE) BY Dispatched DEF ContDone, Tags
  <1>2. CASE type_of(ctx.program) # "CONS" BY <1>2, FinishReady DEF ContDone
  <1>3. CASE type_of(ctx.program) = "CONS"
    <2>1. PICK L : L = Drop(1) \o <<DONE>> OBVIOUS
    <2>2. /\ ctx' = [ctx EXCEPT !.K = L, !.curr_exp = car(heap, ctx.program),
                                !.program = cdr(heap, ctx.program), !.r = NIL,
                                !.app_cont = FALSE]
          /\ UNCHANGED <<running, waiting>>
      BY <1>3, <2>1 DEF ContDone
    <2>3. KReady(L)
      <3> SUFFICES ASSUME ~ ctx.done PROVE Framed(L) /\ Len(L) <= ctx.stack_size BY DEF KReady
      <3>1. /\ IsSeq(ctx.K) /\ WholeTo(ctx.K, Len(ctx.K)) /\ ctx.K[Len(ctx.K)] = DONE
            /\ ctx.stack_size \in StackSizes
        BY <1>1, StackFacts DEF Framed
      <3>2. Len(ctx.K) = 1 BY <3>1, Bottom
      <3>3. 0 \in 0 .. Len(ctx.K) /\ Len(ctx.K) - 1 = 0 BY <3>2
      <3>4. IsSeq(Drop(1)) /\ Len(Drop(1)) = 0
        <4>1. IsSeq(SubSeq(ctx.K, 1, 0)) /\ Len(SubSeq(ctx.K, 1, 0)) = 0 BY <3>1, <3>3, CutSeq
        <4>2. Drop(1) = SubSeq(ctx.K, 1, 0) BY <3>3 DEF Drop
        <4> QED BY <4>1, <4>2
      <3>5. Framed(L) /\ Len(L) = 1 BY <2>1, <3>4, DoneAgain
      <3>6. \A n \in StackSizes : 1 <= n BY DEF StackSizes
      <3> QED BY <3>1, <3>5, <3>6
    <2>4. Ready(ctx') BY <1>1, <2>2, <2>3 DEF AllReady, Ready, KReady
    <2> QED BY <2>2, <2>4 DEF AllReady, waiting
  <1> QED BY <1>2, <1>3

LEMMA ContSetGlobalEnvReady ==
  ASSUME AllReady, ContSetGlobalEnv
  PROVE  AllReady'
  <1>1. running /\ Apply /\ (~ ctx.done => Top(0) = SET_GLOBAL_ENV) BY Dispatched DEF ContSetGlobalEnv, Tags
  <1>2. KReady(Drop(2)) BY <1>1, Pop2
  <1>3. PICK again : again = <<Top(1), SET_GLOBAL_ENV>> OBVIOUS
  <1>4. PICK l : l = Drop(2) \o again OBVIOUS
  <1>5. KReady(l)
    <2> SUFFICES ASSUME ~ ctx.done PROVE Framed(l) /\ Len(l) <= ctx.stack_size BY DEF KReady
    <2>1. Framed(Drop(2)) BY <1>2 DEF KReady
    <2>2. IsSeq(Drop(2)) /\ IsSeq(again) /\ Framed(l) BY <1>3, <1>4, <2>1, Push2
    <2>3. Len(l) = Len(Drop(2)) + Len(again) /\ Len(again) = 2 BY <1>3, <1>4, <2>2, JoinSeq
    <2>4. Len(ctx.K) \in Nat /\ Len(ctx.K) <= ctx.stack_size
          /\ WholeTo(ctx.K, Len(ctx.K)) /\ Entries(ctx.K, Len(ctx.K), 2)
      BY <1>1, StackFacts DEF Entries, Framed
    <2>5. 2 \in 1 .. Len(ctx.K) - 1 /\ WholeTo(ctx.K, Len(ctx.K) - 2) BY <2>4, Under
    <2>6. Len(Drop(2)) = Len(ctx.K) - 2 BY <2>4, <2>5, CutFramed DEF Drop
    <2> QED BY <2>2, <2>3, <2>4, <2>6
  <1>6. \/ \E c : finish_ctx(c)
        \/ /\ \E v, k : /\ k \in {Drop(2), l}
                         /\ ctx' = [ctx EXCEPT !.r = v, !.K = k, !.app_cont = ~ ctx.done]
           /\ UNCHANGED <<running, waiting>>
    <2>1. PICK new_env : new_env = env_set(heap, env_global, Top(1), ctx.r) OBVIOUS
    <2>2. CASE new_env.v = MERROR
      <3>1. /\ ctx' = [ctx EXCEPT !.r = ctx.r, !.K = Drop(2) \o <<Top(1), SET_GLOBAL_ENV>>,
                                  !.app_cont = ~ ctx.done]
            /\ UNCHANGED <<running, waiting>>
        BY <2>1, <2>2 DEF ContSetGlobalEnv, MERROR, FATAL_ERROR, sym
      <3>2. ctx' = [ctx EXCEPT !.r = ctx.r, !.K = l, !.app_cont = ~ ctx.done]
        BY <1>3, <1>4, <3>1, Zenon
      <3> QED BY <3>1, <3>2, Zenon
    <2>3. CASE new_env.v # MERROR /\ new_env.v = FATAL_ERROR
      <3>1. finish_ctx([ctx EXCEPT !.r = new_env.v, !.K = Drop(2), !.app_cont = ~ ctx.done])
        BY <2>1, <2>3 DEF ContSetGlobalEnv
      <3> QED BY <3>1
    <2>4. CASE new_env.v # MERROR /\ new_env.v # FATAL_ERROR
      <3>1. /\ ctx' = [ctx EXCEPT !.r = Top(1), !.K = Drop(2), !.app_cont = ~ ctx.done]
            /\ UNCHANGED <<running, waiting>>
        BY <2>1, <2>4 DEF ContSetGlobalEnv
      <3> QED BY <3>1, Zenon
    <2> QED BY <2>2, <2>3, <2>4
  <1>7. CASE \E c : finish_ctx(c) BY <1>7, FinishReady
  <1>8. CASE /\ \E v, k : /\ k \in {Drop(2), l}
                           /\ ctx' = [ctx EXCEPT !.r = v, !.K = k, !.app_cont = ~ ctx.done]
             /\ UNCHANGED <<running, waiting>>
    <2>1. Ready(ctx') BY <1>1, <1>2, <1>5, <1>8 DEF AllReady, Ready, KReady
    <2> QED BY <1>8, <2>1 DEF AllReady, waiting
  <1> QED BY <1>6, <1>7, <1>8

\* A continuation of three entries gives way to another one.
LEMMA Pushes3 ==
  ASSUME NEW k, KReady(k), NEW a, NEW b, NEW tag \in {PROGN_REST, SPAWN_ALL, AND, OR, IF_}
  PROVE  Pushes(k, <<a, b, tag>>)
  BY Push3 DEF KReady, Pushes

LEMMA ContPrognRestReady ==
  ASSUME AllReady, ContPrognRest
  PROVE  AllReady'
  <1>1. running /\ Apply /\ (~ ctx.done => Top(0) = PROGN_REST) BY Dispatched DEF ContPrognRest, Tags
  <1>2. KReady(Drop(3)) BY <1>1, Pop3
  <1>3. PICK rest : rest = Top(1) OBVIOUS
  <1>4. PICK again : again = <<Top(2), cdr(heap, rest), PROGN_REST>> OBVIOUS
  <1>5. Pushes(Drop(3), again) BY <1>2, <1>4, Pushes3
  <1>6. \/ Return(ctx.r, Drop(3))
        \/ error_ctx(rest, Drop(3))
        \/ Go(car(heap, rest), ctx.curr_env, Drop(3))
        \/ FATAL_ON_FAIL(Drop(3), again, Go(car(heap, rest), Top(2), Drop(3) \o again))
    BY <1>3, <1>4 DEF ContPrognRest
  <1>7. CASE Return(ctx.r, Drop(3)) BY <1>1, <1>2, <1>7, ReturnReady
  <1>8. CASE error_ctx(rest, Drop(3)) BY <1>8, FinishReady DEF error_ctx
  <1>9. CASE Go(car(heap, rest), ctx.curr_env, Drop(3)) BY <1>1, <1>2, <1>9, GoReady
  <1>10. CASE FATAL_ON_FAIL(Drop(3), again, Go(car(heap, rest), Top(2), Drop(3) \o again))
    BY <1>1, <1>5, <1>10, FatalGoReady
  <1> QED BY <1>6, <1>7, <1>8, <1>9, <1>10

LEMMA ShortCircuitReady ==
  ASSUME AllReady, running, NEW tag \in {AND, OR}, NEW decided, NEW value, NEW rest, NEW env,
         NEW k, KReady(k), ShortCircuit(tag, decided, value, rest, env, k)
  PROVE  AllReady'
  <1>1. PICK again : again = <<env, cdr(heap, rest), tag>> OBVIOUS
  <1>2. Pushes(k, again) BY <1>1, Pushes3
  <1>3. Return(value, k) \/ FATAL_ON_FAIL(k, again, Go(car(heap, rest), env, k \o again))
    BY <1>1 DEF ShortCircuit
  <1> QED BY <1>2, <1>3, ReturnReady, FatalGoReady

LEMMA JunctionReady ==
  ASSUME AllReady, ContAnd \/ ContOr
  PROVE  AllReady'
  <1>1. CASE ContAnd
    <2>1. running /\ Apply /\ (~ ctx.done => Top(0) = AND) BY <1>1, Dispatched DEF ContAnd, Tags
    <2>2. KReady(Drop(3)) BY <2>1, Pop3
    <2>3. ShortCircuit(AND, ctx.r = NIL, ctx.r, Top(1), Top(2), Drop(3)) BY <1>1 DEF ContAnd
    <2> QED BY <2>1, <2>2, <2>3, ShortCircuitReady
  <1>2. CASE ContOr
    <2>1. running /\ Apply /\ (~ ctx.done => Top(0) = OR) BY <1>2, Dispatched DEF ContOr, Tags
    <2>2. KReady(Drop(3)) BY <2>1, Pop3
    <2>3. ShortCircuit(OR, ctx.r # NIL, ctx.r, Top(1), Top(2), Drop(3)) BY <1>2 DEF ContOr
    <2> QED BY <2>1, <2>2, <2>3, ShortCircuitReady
  <1> QED BY <1>1, <1>2

LEMMA ContIfReady ==
  ASSUME AllReady, ContIf
  PROVE  AllReady'
  <1>1. running /\ Apply /\ (~ ctx.done => Top(0) = IF_) BY Dispatched DEF ContIf, Tags
  <1>2. KReady(Drop(3)) BY <1>1, Pop3
  <1>3. \E e : Go(e, ctx.curr_env, Drop(3)) BY DEF ContIf
  <1> QED BY <1>1, <1>2, <1>3, GoReady

\* Going to sleep.
LEMMA SleepReady ==
  ASSUME AllReady, running, NEW cid, NEW k, KReady(k), Sleep(cid, k)
  PROVE  AllReady'
  <1>1. PICK wait : wait = <<enc_u(cid), WAIT>> OBVIOUS
  <1>2. Pushes(k, wait) BY <1>1, Push2 DEF KReady, Pushes
  <1>3. FOF(k, wait, yield_ctx([ctx EXCEPT !.K = k \o wait], 50000)) BY <1>1 DEF Sleep
  <1>4. CASE Fits(k, wait)
    <2>1. yield_ctx([ctx EXCEPT !.K = k \o wait], 50000) BY <1>3, <1>4 DEF FOF
    <2>2. PICK l : l = k \o wait OBVIOUS
    <2>3. KReady(l) BY <1>2, <1>4, <2>2, FitsReady
    <2>4. yield_ctx([ctx EXCEPT !.K = l], 50000) BY <2>1, <2>2
    <2> QED BY <2>3, <2>4, YieldReady
  <1>5. CASE ~ Fits(k, wait)
    <2>1. \E c : finish_ctx(c) BY <1>3, <1>5 DEF FOF
    <2> QED BY <2>1, FinishReady
  <1> QED BY <1>4, <1>5

LEMMA ContWaitReady ==
  ASSUME AllReady, ContWait
  PROVE  AllReady'
  <1>1. running /\ Apply /\ (~ ctx.done => Top(0) = WAIT) BY Dispatched DEF ContWait, Tags
  <1>2. KReady(Drop(2)) BY <1>1, Pop2
  <1>3. \/ \E cid : Sleep(cid, Drop(2))
        \/ /\ \E v : ctx' = [ctx EXCEPT !.r = v, !.K = Drop(2)]
           /\ UNCHANGED <<running, ctx_queue>>
    BY DEF ContWait
  <1>4. CASE \E cid : Sleep(cid, Drop(2)) BY <1>1, <1>2, <1>4, SleepReady
  <1>5. CASE /\ \E v : ctx' = [ctx EXCEPT !.r = v, !.K = Drop(2)]
             /\ UNCHANGED <<running, ctx_queue>>
    <2>1. Ready(ctx') BY <1>1, <1>2, <1>5 DEF AllReady, Ready, KReady
    <2> QED BY <1>5, <2>1 DEF AllReady
  <1> QED BY <1>3, <1>4, <1>5

LEMMA ContUnknownReady ==
  ASSUME AllReady, ContUnknown
  PROVE  AllReady'
  BY FinishReady DEF ContUnknown, error_ctx

LEMMA CreateReady ==
  ASSUME AllReady, NEW program, NEW env, create_ctx(program, env)
  PROVE  IsSeq(ctx_queue') /\ \A j \in 1 .. Len(ctx_queue') : Ready(ctx_queue'[j])
  <1>1. CASE UNCHANGED ctx_queue BY <1>1 DEF AllReady
  <1>2. ASSUME NEW garbage, NEW c,
               c = new_ctx(heap, next_ctx_id % 2^16, program, env, EVAL_CPS_DEFAULT_STACK_SIZE,
                           garbage),
               ctx_queue' = Append(ctx_queue, c)
        PROVE  IsSeq(ctx_queue') /\ \A j \in 1 .. Len(ctx_queue') : Ready(ctx_queue'[j])
    <2>1. PICK id : id = next_ctx_id % 2^16 OBVIOUS
    <2>2. c = new_ctx(heap, id, program, env, EVAL_CPS_DEFAULT_STACK_SIZE, garbage)
      BY <1>2, <2>1, Zenon
    <2>3. Ready(c) BY <2>2, StackSizeAssumption, NewReady
    <2> QED BY <1>2, <2>3, AppendReady DEF AllReady
  <1>3. \/ UNCHANGED ctx_queue
        \/ \E garbage : ctx_queue' = Append(ctx_queue, new_ctx(heap, next_ctx_id % 2^16, program,
                                              env, EVAL_CPS_DEFAULT_STACK_SIZE, garbage))
    BY Zenon DEF create_ctx
  <1> QED BY <1>1, <1>2, <1>3, Zenon

LEMMA ContSpawnAllReady ==
  ASSUME AllReady, ContSpawnAll
  PROVE  AllReady'
  <1>1. running /\ Apply /\ (~ ctx.done => Top(0) = SPAWN_ALL) BY Dispatched DEF ContSpawnAll, Tags
  <1>2. KReady(Drop(3)) BY <1>1, Pop3
  <1>3. PICK rest : rest = Top(1) OBVIOUS
  <1>4. PICK cid_list : cid_list = cons_result(heap, enc_i(next_ctx_id), ctx.r) OBVIOUS
  <1>5. PICK L : L = Drop(3) \o <<Top(2), cdr(heap, rest), SPAWN_ALL>> OBVIOUS
  <1>6. \/ Return(ctx.r, Drop(3))
        \/ Stay
        \/ /\ create_ctx(car(heap, rest), Top(2))
           /\ ctx' = [ctx EXCEPT !.r = cid_list.v, !.K = L]
           /\ UNCHANGED running
    BY <1>3, <1>4, <1>5 DEF ContSpawnAll
  <1>7. CASE Return(ctx.r, Drop(3)) BY <1>1, <1>2, <1>7, ReturnReady
  <1>8. CASE Stay BY <1>8, StayReady DEF Stay, waiting
  <1>9. CASE /\ create_ctx(car(heap, rest), Top(2))
             /\ ctx' = [ctx EXCEPT !.r = cid_list.v, !.K = L]
             /\ UNCHANGED running
    <2>1. KReady(L)
      <3> SUFFICES ASSUME ~ ctx.done PROVE Framed(L) /\ Len(L) <= ctx.stack_size BY DEF KReady
      <3>1. PICK vals : vals = <<Top(2), cdr(heap, rest), SPAWN_ALL>> OBVIOUS
      <3>2. Pushes(Drop(3), vals) BY <1>2, <3>1, Pushes3
      <3>3. IsSeq(Drop(3)) /\ IsSeq(vals) /\ Framed(Drop(3) \o vals) BY <3>2 DEF Pushes
      <3>4. L = Drop(3) \o vals BY <1>5, <3>1
      <3>5. Framed(L) /\ Len(L) = Len(Drop(3)) + Len(vals) BY <3>3, <3>4, JoinSeq
      <3>6. Len(vals) = 3 BY <3>1
      <3>7. /\ WholeTo(ctx.K, Len(ctx.K)) /\ Len(ctx.K) \in Nat
            /\ Len(ctx.K) <= ctx.stack_size /\ Entries(ctx.K, Len(ctx.K), 3)
        BY <1>1, StackFacts DEF Framed, Entries
      <3>8. 3 \in 1 .. Len(ctx.K) - 1 /\ WholeTo(ctx.K, Len(ctx.K) - 3) BY <3>7, Under
      <3>9. Len(Drop(3)) = Len(ctx.K) - 3 BY <3>8, CutFramed DEF Drop
      <3> QED BY <3>5, <3>6, <3>7, <3>9
    <2>2. Ready(ctx') BY <1>1, <1>9, <2>1 DEF AllReady, Ready, KReady
    <2>3. IsSeq(ctx_queue') /\ \A j \in 1 .. Len(ctx_queue') : Ready(ctx_queue'[j])
      BY <1>9, CreateReady
    <2> QED BY <2>2, <2>3 DEF AllReady
  <1> QED BY <1>6, <1>7, <1>8, <1>9

\* A function that could not be applied for want of cells.
LEMMA TryAgainReady ==
  ASSUME AllReady, running, TryAgain
  PROVE  AllReady'
  <1>1. Ready(ctx') BY KeepReady DEF AllReady, TryAgain, Ready
  <1> QED BY <1>1 DEF AllReady, TryAgain, waiting

LEMMA ApplyReady ==
  ASSUME AllReady,
         ApplyClosure \/ ApplyEval \/ ApplyFundamental \/ ApplyYield \/ ApplyWait \/ ApplyExtension
  PROVE  AllReady'
  <1>0. Cont(APPLICATION)
    BY DEF ApplyClosure, ApplyEval, ApplyFundamental, ApplyYield, ApplyWait, ApplyExtension
  <1>1. running /\ Apply /\ (~ ctx.done => Top(0) = APPLICATION)
    BY <1>0, Dispatched DEF Tags
  <1>2. PICK k : k = Drop(Count + 3) OBVIOUS
  <1>3. KReady(k) BY <1>1, <1>2, PopApplication
  <1>4. \/ TryAgain
        \/ \E v : error_ctx(v, Drop(2))
        \/ \E v : Return(v, k)
        \/ \E e, env : Go(e, env, k)
        \/ \E us : yield_ctx([ctx EXCEPT !.K = k], us)
        \/ \E cid : Sleep(cid, k)
    <2>1. CASE ApplyClosure BY <1>2, <2>1 DEF ApplyClosure
    <2>2. CASE ApplyEval BY <1>2, <2>2 DEF ApplyEval
    <2>3. CASE ApplyFundamental
      <3>1. PICK res : res = fundamental_exec(heap, ArgWords, Count, Fun[2]) OBVIOUS
      <3>2. CASE res.v = EERROR /\ error_ctx(res.v, Drop(2)) BY <3>2
      <3>3. CASE TryAgain BY <3>3
      <3>4. CASE Return(res.v, Drop(Count + 3)) BY <1>2, <3>4
      <3> QED BY <2>3, <3>1, <3>2, <3>3, <3>4 DEF ApplyFundamental
    <2>4. CASE ApplyYield BY <1>2, <2>4 DEF ApplyYield
    <2>5. CASE ApplyWait BY <1>2, <2>5, Zenon DEF ApplyWait
    <2>6. CASE ApplyExtension BY <1>2, <2>6 DEF ApplyExtension
    <2> QED BY <2>1, <2>2, <2>3, <2>4, <2>5, <2>6
  <1>5. CASE TryAgain BY <1>1, <1>5, TryAgainReady
  <1>6. CASE \E v : error_ctx(v, Drop(2)) BY <1>6, FinishReady DEF error_ctx
  <1>7. CASE \E v : Return(v, k) BY <1>1, <1>3, <1>7, ReturnReady
  <1>8. CASE \E e, env : Go(e, env, k) BY <1>1, <1>3, <1>8, GoReady
  <1>9. CASE \E us : yield_ctx([ctx EXCEPT !.K = k], us) BY <1>1, <1>3, <1>9, YieldReady
  <1>10. CASE \E cid : Sleep(cid, k) BY <1>1, <1>3, <1>10, SleepReady
  <1> QED BY <1>4, <1>5, <1>6, <1>7, <1>8, <1>9, <1>10

\* vals, from position p on, are the upper part of a continuation of n entries.
Completes(vals, p, n) ==
  \A L : (\A j \in 1 .. Len(vals) : L[p + j] = vals[j]) => Entries(L, p + Len(vals), n)

\* Drop(d) of a continuation with n entries, and vals on it, are one continuation.
LEMMA ReplaceTop ==
  ASSUME AllReady, running, ~ ctx.done, NEW n, Entries(ctx.K, Len(ctx.K), n),
         NEW d \in 0 .. n, NEW vals, IsSeq(vals), Len(vals) > 0,
         Completes(vals, Len(ctx.K) - d, n - d + Len(vals))
  PROVE  IsSeq(Drop(d)) /\ Framed(Drop(d) \o vals)
  <1>1. WholeTo(ctx.K, Len(ctx.K)) /\ Len(ctx.K) \in Nat /\ IsSeq(ctx.K)
    BY StackFacts DEF Framed
  <1>2. n \in 1 .. Len(ctx.K) - 1 /\ WholeTo(ctx.K, Len(ctx.K) - n) BY <1>1, Under
  <1>3. PICK len : len = Len(ctx.K) - d OBVIOUS
  <1>4. len \in 0 .. Len(ctx.K) /\ Len(ctx.K) - n <= len BY <1>1, <1>2, <1>3
  <1>5. PICK J : J = SubSeq(ctx.K, 1, len) OBVIOUS
  <1>6. IsSeq(J) /\ Len(J) = len /\ \A j \in 1 .. len : J[j] = ctx.K[j]
    BY <1>1, <1>4, <1>5, CutSeq
  <1>7. \A j \in 1 .. Len(ctx.K) - n : J[j] = ctx.K[j] BY <1>2, <1>4, <1>6
  <1>8. PICK L : L = J \o vals OBVIOUS
  <1>9. Len(vals) \in Nat /\ \A j \in 1 .. Len(vals) : L[Len(J) + j] = vals[j]
    <2>1. IsSeq(J) BY <1>6
    <2> QED BY <1>8, <2>1, Joined
  <1>10. PICK k : k = Len(J) + Len(vals) OBVIOUS
  <1>11. PICK b : b = Len(ctx.K) - n OBVIOUS
  <1>12. Entries(L, k, k - b)
    <2>1. Len(J) = Len(ctx.K) - d BY <1>3, <1>6
    <2>2. Entries(L, Len(J) + Len(vals), n - d + Len(vals)) BY <1>9, <2>1 DEF Completes
    <2>3. PICK N, v : N = Len(ctx.K) /\ v = Len(vals) OBVIOUS
    <2>4. N \in Nat /\ v \in Nat /\ n \in Nat /\ d \in Nat BY <1>1, <1>2, <1>9, <2>3
    <2>5. k = N - d + v /\ b = N - n BY <1>10, <1>11, <2>1, <2>3
    <2>6. k - b = n - d + v BY <2>4, <2>5
    <2> QED BY <1>10, <2>2, <2>3, <2>6
  <1>13. Framed(L)
    <2>1. WholeTo(ctx.K, b) /\ b <= Len(J) /\ \A j \in 1 .. b : J[j] = ctx.K[j]
      BY <1>2, <1>4, <1>6, <1>7, <1>11
    <2>2. IsSeq(J) BY <1>6
    <2> QED BY <1>8, <1>10, <1>12, <2>1, <2>2, JoinFramed
  <1>14. Drop(d) = J BY <1>3, <1>5 DEF Drop
  <1> QED BY <1>6, <1>8, <1>13, <1>14

LEMMA ContBindToKeyRestReady ==
  ASSUME AllReady, ContBindToKeyRest
  PROVE  AllReady'
  <1>1. running /\ Apply /\ (~ ctx.done => Top(0) = BIND_TO_KEY_REST) BY Dispatched DEF ContBindToKeyRest, Tags
  <1>2. \/ \E e, env : Go(e, env, Drop(5))
        \/ \E a, b, c, e : FATAL_ON_FAIL(Drop(4), <<a, b, c, BIND_TO_KEY_REST>>,
                             Go(e, b, Drop(4) \o <<a, b, c, BIND_TO_KEY_REST>>))
    BY DEF ContBindToKeyRest
  <1>3. CASE \E e, env : Go(e, env, Drop(5)) BY <1>1, <1>3, PopLet, GoReady
  <1>4. CASE \E a, b, c, e : FATAL_ON_FAIL(Drop(4), <<a, b, c, BIND_TO_KEY_REST>>,
                               Go(e, b, Drop(4) \o <<a, b, c, BIND_TO_KEY_REST>>))
    <2>1. PICK a, b, c, e : FATAL_ON_FAIL(Drop(4), <<a, b, c, BIND_TO_KEY_REST>>,
                              Go(e, b, Drop(4) \o <<a, b, c, BIND_TO_KEY_REST>>))
      BY <1>4
    <2>2. PICK vals : vals = <<a, b, c, BIND_TO_KEY_REST>> OBVIOUS
    <2>3. /\ vals \in Seq({a, b, c, BIND_TO_KEY_REST}) /\ Len(vals) = 4
          /\ vals[4] = BIND_TO_KEY_REST
      BY <2>2
    <2>4. IsSeq(vals) /\ Len(vals) > 0 BY <2>3 DEF IsSeq
    <2>5. Pushes(Drop(4), vals)
      <3> SUFFICES ASSUME ~ ctx.done PROVE IsSeq(Drop(4)) /\ Framed(Drop(4) \o vals)
        BY <2>4 DEF Pushes
      <3>1. Entries(ctx.K, Len(ctx.K), 5) BY <1>1, StackFacts DEF Entries
      <3>2. Completes(vals, Len(ctx.K) - 4, 5 - 4 + Len(vals))
        <4> SUFFICES ASSUME NEW L, \A j \in 1 .. Len(vals) : L[Len(ctx.K) - 4 + j] = vals[j]
                     PROVE  Entries(L, Len(ctx.K) - 4 + Len(vals), 5 - 4 + Len(vals))
          BY DEF Completes
        <4>1. L[Len(ctx.K) - 4 + 4] = BIND_TO_KEY_REST BY <2>3
        <4> QED BY <2>3, <4>1 DEF Entries
      <3>3. 4 \in 0 .. 5 OBVIOUS
      <3> QED BY <1>1, <2>4, <3>1, <3>2, <3>3, ReplaceTop
    <2>6. FATAL_ON_FAIL(Drop(4), vals, Go(e, b, Drop(4) \o vals)) BY <2>1, <2>2
    <2> QED BY <1>1, <2>5, <2>6, FatalGoReady
  <1> QED BY <1>2, <1>3, <1>4

\* The next argument.
LEMMA MoreArgs ==
  ASSUME AllReady, Apply, ~ ctx.done => Top(0) = APPLICATION_ARGS, NEW env, NEW rest, NEW more,
         more = <<ctx.r, env, enc_u(dec_u(Top(2)) + 1), rest, APPLICATION_ARGS>>
  PROVE  Pushes(Drop(4), more)
  <1>0. running BY DEF Apply
  <1>1. PICK c : c = enc_u(dec_u(Top(2)) + 1) OBVIOUS
  <1>2. more = <<ctx.r, env, c, rest, APPLICATION_ARGS>> BY <1>1
  <1>3. /\ more \in Seq({ctx.r, env, c, rest, APPLICATION_ARGS}) /\ Len(more) = 5
        /\ more[3] = c /\ more[5] = APPLICATION_ARGS
    BY <1>2
  <1>4. IsSeq(more) /\ Len(more) > 0
    <2>1. IsSeq(more) BY <1>3, SeqIn, Zenon
    <2> QED BY <1>3, <2>1
  <1> SUFFICES ASSUME ~ ctx.done PROVE IsSeq(Drop(4)) /\ Framed(Drop(4) \o more)
    BY <1>4 DEF Pushes
  <1>5. PICK m \in Nat : /\ Top(2) = <<"U", m>> /\ m + 1 \in 0 .. 2^28 - 1
                         /\ Entries(ctx.K, Len(ctx.K), 4 + m)
    BY ArgsFacts
  <1>6. c = <<"U", m + 1>>
    <2>1. PICK t : t = dec_u(Top(2)) OBVIOUS
    <2>2. t = m
      <3>1. m \in 0 .. 2^28 - 1 BY <1>5
      <3>2. dec_u(<<"U", m>>) = m BY <3>1, Decoded, Zenon
      <3> QED BY <1>5, <2>1, <3>2
    <2>3. PICK n : n = m + 1 OBVIOUS
    <2>4. c = enc_u(n) BY <1>1, <2>1, <2>2, <2>3
    <2>5. enc_u(n) = <<"U", n>> BY <1>5, <2>3, Encoded
    <2> QED BY <2>3, <2>4, <2>5
  <1>7. Len(ctx.K) \in Nat BY <1>0, StackFacts
  <1>8. Completes(more, Len(ctx.K) - 4, 4 + m - 4 + Len(more))
    <2> SUFFICES ASSUME NEW L, \A j \in 1 .. Len(more) : L[Len(ctx.K) - 4 + j] = more[j]
                 PROVE  Entries(L, Len(ctx.K) - 4 + Len(more), 4 + m - 4 + Len(more))
      BY DEF Completes
    <2>1. L[Len(ctx.K) - 4 + 3] = c /\ L[Len(ctx.K) - 4 + 5] = APPLICATION_ARGS BY <1>3
    <2>2. PICK k : k = Len(ctx.K) - 4 + 5 OBVIOUS
    <2>3. k - 2 = Len(ctx.K) - 4 + 3 /\ 4 + m - 4 + 5 = 4 + (m + 1) /\ m + 1 \in Nat
      BY <1>7, <2>2
    <2>4. L[k] = APPLICATION_ARGS /\ L[k - 2] = <<"U", m + 1>> BY <1>6, <2>1, <2>2, <2>3
    <2>5. Entries(L, k, 4 + (m + 1)) BY <2>3, <2>4 DEF Entries
    <2> QED BY <1>3, <2>2, <2>3, <2>5
  <1>9. PICK n : n = 4 + m OBVIOUS
  <1>10. Completes(more, Len(ctx.K) - 4, n - 4 + Len(more)) BY <1>8, <1>9
  <1>11. Entries(ctx.K, Len(ctx.K), n) /\ 4 \in 0 .. n BY <1>5, <1>9
  <1> QED BY <1>0, <1>4, <1>10, <1>11, ReplaceTop

\* The last one.
LEMMA LastArg ==
  ASSUME AllReady, Apply, ~ ctx.done => Top(0) = APPLICATION_ARGS, NEW last,
         last = <<ctx.r, Top(2), APPLICATION>>
  PROVE  Pushes(Drop(4), last)
  <1>0. running BY DEF Apply
  <1>1. PICK c : c = Top(2) OBVIOUS
  <1>2. last = <<ctx.r, c, APPLICATION>> BY <1>1
  <1>3. /\ last \in Seq({ctx.r, c, APPLICATION}) /\ Len(last) = 3
        /\ last[2] = c /\ last[3] = APPLICATION
    BY <1>2
  <1>4. IsSeq(last) /\ Len(last) > 0
    <2>1. IsSeq(last) BY <1>3, SeqIn, Zenon
    <2> QED BY <1>3, <2>1
  <1> SUFFICES ASSUME ~ ctx.done PROVE IsSeq(Drop(4)) /\ Framed(Drop(4) \o last)
    BY <1>4 DEF Pushes
  <1>5. PICK m \in Nat : c = <<"U", m>> /\ Entries(ctx.K, Len(ctx.K), 4 + m)
    BY <1>1, ArgsFacts
  <1>7. Len(ctx.K) \in Nat BY <1>0, StackFacts
  <1>8. Completes(last, Len(ctx.K) - 4, 4 + m - 4 + Len(last))
    <2> SUFFICES ASSUME NEW L, \A j \in 1 .. Len(last) : L[Len(ctx.K) - 4 + j] = last[j]
                 PROVE  Entries(L, Len(ctx.K) - 4 + Len(last), 4 + m - 4 + Len(last))
      BY DEF Completes
    <2>1. L[Len(ctx.K) - 4 + 2] = c /\ L[Len(ctx.K) - 4 + 3] = APPLICATION BY <1>3
    <2>2. PICK k : k = Len(ctx.K) - 4 + 3 OBVIOUS
    <2>3. k - 1 = Len(ctx.K) - 4 + 2 /\ 4 + m - 4 + 3 = 3 + m BY <1>7, <2>2
    <2>4. L[k] = APPLICATION /\ L[k - 1] = <<"U", m>> BY <1>5, <2>1, <2>2, <2>3
    <2>5. Entries(L, k, 3 + m) BY <2>4 DEF Entries
    <2> QED BY <1>3, <2>2, <2>3, <2>5
  <1>9. PICK n : n = 4 + m OBVIOUS
  <1>10. Completes(last, Len(ctx.K) - 4, n - 4 + Len(last)) BY <1>8, <1>9
  <1>11. Entries(ctx.K, Len(ctx.K), n) /\ 4 \in 0 .. n BY <1>5, <1>9
  <1> QED BY <1>0, <1>4, <1>10, <1>11, ReplaceTop

LEMMA ContApplicationArgsReady ==
  ASSUME AllReady, ContApplicationArgs, ~ misread'
  PROVE  AllReady'
  <1>1. running /\ Apply /\ (~ ctx.done => Top(0) = APPLICATION_ARGS) BY Dispatched DEF ContApplicationArgs, Tags
  <1>2. PICK last : last = <<ctx.r, Top(2), APPLICATION>> OBVIOUS
  <1>3. PICK more : more = <<ctx.r, Top(3), enc_u(dec_u(Top(2)) + 1), cdr(heap, Top(1)),
                             APPLICATION_ARGS>>
    OBVIOUS
  <1>4. \/ /\ ctx.r = sym("and")
           /\ ShortCircuit(AND, FALSE, T, Top(1), Top(3), Drop(4))
        \/ /\ ctx.r = sym("or")
           /\ ShortCircuit(OR, FALSE, NIL, Top(1), Top(3), Drop(4))
        \/ FATAL_ON_FAIL(Drop(4), last, Return(ctx.r, Drop(4) \o last))
        \/ FATAL_ON_FAIL(Drop(4), more, Go(car(heap, Top(1)), Top(3), Drop(4) \o more))
    BY <1>2, <1>3 DEF ContApplicationArgs
  <1>5. ASSUME ctx.r \in {sym("and"), sym("or")} PROVE KReady(Drop(4))
    <2>1. dec_u(Top(2)) = 0 BY <1>5 DEF ContApplicationArgs
    <2>2. ASSUME ~ ctx.done PROVE Entries(ctx.K, Len(ctx.K), 4)
      <3>1. PICK m \in Nat : /\ Top(2) = <<"U", m>> /\ m + 1 \in 0 .. 2^28 - 1
                             /\ Entries(ctx.K, Len(ctx.K), 4 + m)
        BY <1>1, <2>2, ArgsFacts
      <3>2. m \in 0 .. 2^28 - 1 BY <3>1
      <3>3. dec_u(<<"U", m>>) = m BY <3>2, Decoded, Zenon
      <3>4. m = 0 /\ 4 + 0 = 4 BY <2>1, <3>1, <3>3
      <3> QED BY <3>1, <3>4
    <2> QED BY <1>1, <2>2, PopReady
  <1>6. CASE /\ ctx.r = sym("and")
             /\ ShortCircuit(AND, FALSE, T, Top(1), Top(3), Drop(4))
    BY <1>1, <1>5, <1>6, ShortCircuitReady
  <1>7. CASE /\ ctx.r = sym("or")
             /\ ShortCircuit(OR, FALSE, NIL, Top(1), Top(3), Drop(4))
    BY <1>1, <1>5, <1>7, ShortCircuitReady
  <1>8. CASE FATAL_ON_FAIL(Drop(4), last, Return(ctx.r, Drop(4) \o last))
    <2>1. Pushes(Drop(4), last) BY <1>1, <1>2, LastArg
    <2>2. CASE Fits(Drop(4), last)
      <3>1. Return(ctx.r, Drop(4) \o last) BY <1>8, <2>2 DEF FATAL_ON_FAIL
      <3> QED BY <1>1, <2>1, <2>2, <3>1, FitsReady, ReturnReady
    <2>3. CASE ~ Fits(Drop(4), last) BY <1>1, <1>8, <2>3, GivenUpReady DEF FATAL_ON_FAIL
    <2> QED BY <2>2, <2>3
  <1>9. CASE FATAL_ON_FAIL(Drop(4), more, Go(car(heap, Top(1)), Top(3), Drop(4) \o more))
    <2>1. Pushes(Drop(4), more) BY <1>1, <1>3, MoreArgs
    <2> QED BY <1>1, <1>9, <2>1, FatalGoReady
  <1> QED BY <1>4, <1>6, <1>7, <1>8, <1>9

(***************************************************************************)
(* Every step                                                              *)
(***************************************************************************)
LEMMA NextReady ==
  ASSUME AllReady, Next, ~ misread'
  PROVE  AllReady'
  <1>1. CASE Dequeue BY <1>1, DequeueReady
  <1>2. CASE Collect \/ OutOfMemory BY <1>2, CollectReady
  <1>3. CASE EvalSymbol \/ EvalSelf \/ EvalQuote \/ EvalLambda BY <1>3, EvalReturns
  <1>4. CASE EvalDefine BY <1>4, EvalDefineReady
  <1>5. CASE EvalProgn BY <1>5, EvalPrognReady
  <1>6. CASE EvalSpawn BY <1>6, EvalSpawnReady
  <1>7. CASE EvalIf BY <1>7, EvalIfReady
  <1>8. CASE EvalLet BY <1>8, EvalLetReady
  <1>9. CASE EvalApplication BY <1>9, EvalApplicationReady
  <1>10. CASE ContDone BY <1>10, ContDoneReady
  <1>11. CASE ContSetGlobalEnv BY <1>11, ContSetGlobalEnvReady
  <1>12. CASE ContPrognRest BY <1>12, ContPrognRestReady
  <1>13. CASE ContSpawnAll BY <1>13, ContSpawnAllReady
  <1>14. CASE ContWait BY <1>14, ContWaitReady
  <1>15. CASE ApplyClosure \/ ApplyEval \/ ApplyFundamental \/ ApplyYield \/ ApplyWait
              \/ ApplyExtension
    BY <1>15, ApplyReady
  <1>16. CASE ContAnd \/ ContOr BY <1>16, JunctionReady
  <1>17. CASE ContApplicationArgs BY <1>17, ContApplicationArgsReady
  <1>18. CASE ContBindToKeyRest BY <1>18, ContBindToKeyRestReady
  <1>19. CASE ContIf BY <1>19, ContIfReady
  <1>20. CASE ContUnknown BY <1>20, ContUnknownReady
  <1>21. CASE Ended BY <1>21, StayReady DEF Ended, vars
  <1> QED
    BY <1>1, <1>2, <1>3, <1>4, <1>5, <1>6, <1>7, <1>8, <1>9, <1>10, <1>11, <1>12, <1>13, <1>14,
       <1>15, <1>16, <1>17, <1>18, <1>19, <1>20, <1>21 DEF Next

LEMMA InitReady ==
  ASSUME Init
  PROVE  AllReady
  <1>1. PICK garbage : ctx = new_ctx(heap, 1, promise.program, NIL, promise.stack_size, garbage)
    BY DEF Init
  <1>2. promise.stack_size \in StackSizes
    <2>1. PICK im \in Images :
            promise = [field \in DOMAIN im \ {"heap", "env"} |-> im[field]]
      BY DEF Init, Loaded
    <2>2. "stack_size" \in DOMAIN im \ {"heap", "env"} /\ im.stack_size \in StackSizes
      BY StackSizeAssumption
    <2> QED BY <2>1, <2>2
  <1>3. Ready(ctx) BY <1>1, <1>2, NewReady
  <1>4. ctx_queue = <<>> \/ ctx_queue = <<ctx>> BY DEF Init
  <1>5. IsSeq(ctx_queue)
    <2>1. <<>> \in Seq({ctx}) /\ <<ctx>> \in Seq({ctx}) OBVIOUS
    <2>2. ctx_queue \in Seq({ctx}) BY <1>4, <2>1
    <2> QED BY <2>2, SeqIn
  <1>6. ASSUME NEW k \in 1 .. Len(ctx_queue) PROVE ctx_queue[k] = ctx BY <1>4
  <1>7. \A k \in 1 .. Len(ctx_queue) : Ready(ctx_queue[k]) BY <1>3, <1>6
  <1> QED BY <1>3, <1>5, <1>7 DEF AllReady

\* Most steps leave alone what the contexts do not see.
LEMMA OthersKept ==
  ASSUME Next
  PROVE  UNCHANGED others \/ OutOfMemory \/ ContSetGlobalEnv \/ ContSpawnAll \/ ContApplicationArgs
  <1>1. Dequeue \/ Collect => UNCHANGED others BY DEF Dequeue, Collect
  <1>2. EvalSymbol \/ EvalSelf \/ EvalQuote \/ EvalDefine \/ EvalProgn => UNCHANGED others
    BY DEF EvalSymbol, EvalSelf, EvalQuote, EvalDefine, EvalProgn
  <1>3. EvalSpawn \/ EvalLambda \/ EvalIf \/ EvalLet \/ EvalApplication => UNCHANGED others
    BY DEF EvalSpawn, EvalLambda, EvalIf, EvalLet, EvalApplication
  <1>4. ContDone \/ ContPrognRest \/ ContWait => UNCHANGED others
    BY DEF ContDone, ContPrognRest, ContWait
  <1>5. ApplyClosure \/ ApplyEval \/ ApplyYield \/ ApplyWait => UNCHANGED others
    BY DEF ApplyClosure, ApplyEval, ApplyYield, ApplyWait
  <1>6. ApplyFundamental \/ ApplyExtension => UNCHANGED others
    BY DEF ApplyFundamental, ApplyExtension
  <1>7. ContAnd \/ ContOr \/ ContBindToKeyRest \/ ContIf \/ ContUnknown => UNCHANGED others
    BY DEF ContAnd, ContOr, ContBindToKeyRest, ContIf, ContUnknown
  <1>8. Ended => UNCHANGED others BY DEF Ended, vars, others
  <1> QED BY <1>1, <1>2, <1>3, <1>4, <1>5, <1>6, <1>7, <1>8 DEF Next

\* An argument taken for an operator is not forgotten.
LEMMA MisreadStays ==
  ASSUME Next, misread
  PROVE  misread'
  <1>1. CASE UNCHANGED others BY <1>1 DEF others
  <1>2. CASE OutOfMemory BY <1>2 DEF OutOfMemory
  <1>3. CASE ContSetGlobalEnv BY <1>3 DEF ContSetGlobalEnv
  <1>4. CASE ContSpawnAll BY <1>4 DEF ContSpawnAll
  <1>5. CASE ContApplicationArgs BY <1>5, Zenon DEF ContApplicationArgs
  <1> QED BY <1>1, <1>2, <1>3, <1>4, <1>5, OthersKept

\* Whatever the program, the heap and the size of the stacks, the stack of every
\* context that will run again is made of whole continuations down to DONE: every
\* handler of apply_continuation (eval_cps.c:336-714) pops exactly what the code
\* that pushed its continuation put there, whether the step succeeds, asks for a
\* collection or is done again; as long as no argument has been taken for an
\* operator (eval_cps.c:626-654).
THEOREM FramesCorrect == BothSpec => []StackOfFrames
  <1> DEFINE Inv == ~ misread => AllReady
  <1>1. BothInit => Inv BY InitReady DEF BothInit
  <1>2. Inv /\ [BothNext]_all_vars => Inv'
    <2> SUFFICES ASSUME Inv, [BothNext]_all_vars, ~ misread' PROVE AllReady' OBVIOUS
    <2>1. CASE Next
      <3>1. ~ misread BY <2>1, MisreadStays
      <3> QED BY <2>1, <3>1, NextReady
    <2>2. CASE UNCHANGED cps_only
      <3>1. UNCHANGED <<ctx, running, ctx_queue>> /\ ~ misread BY <2>2 DEF cps_only
      <3> QED BY <3>1, StayReady
    <2>3. UNCHANGED all_vars => UNCHANGED cps_only BY DEF all_vars, vars, cps_only
    <2> QED BY <2>1, <2>2, <2>3 DEF BothNext
  <1>3. Inv => StackOfFrames BY AllReadySays DEF StackOfFrames
  <1> QED BY <1>1, <1>2, <1>3, PTL DEF BothSpec
=============================================================================
