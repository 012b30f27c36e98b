---------------------------- MODULE EcEval_proofs ----------------------------
(***************************************************************************)
(* The stack of ec_eval.c is made of whole frames, for every program, heap *)
(* and stack that is large enough.  The argument is that of EvalCps_proofs *)
(* with a difference: what the topmost frame is, the register cont says,   *)
(* so that the proof keeps pairs of a continuation and a height.           *)
(***************************************************************************)
EXTENDS EvalCps_proofs

(***************************************************************************)
(* Frames                                                                  *)
(***************************************************************************)
LEMMA EcDistinct ==
  /\ CONT_DONE = <<"U", 0>> /\ CONT_ERROR = <<"U", 1>> /\ CONT_DEFINE = <<"U", 2>>
  /\ CONT_SETUP_NO_ARG_APPLY = <<"U", 3>> /\ CONT_EVAL_ARGS = <<"U", 4>>
  /\ CONT_ACCUMULATE_ARG = <<"U", 5>> /\ CONT_ACCUMULATE_LAST_ARG = <<"U", 6>>
  /\ CONT_BRANCH = <<"U", 7>> /\ CONT_BIND_VAR = <<"U", 8>> /\ CONT_END_LET = <<"U", 9>>
  /\ CONT_SEQUENCE = <<"U", 10>> /\ CONT_AND = <<"U", 11>> /\ CONT_OR = <<"U", 12>>
  <1>1. \A n \in 0 .. 12 : enc_u(n) = <<"U", n>> BY DEF enc_u
  <1> QED BY <1>1 DEF CONT_DONE, CONT_ERROR, CONT_DEFINE, CONT_SETUP_NO_ARG_APPLY, CONT_EVAL_ARGS,
         CONT_ACCUMULATE_ARG, CONT_ACCUMULATE_LAST_ARG, CONT_BRANCH, CONT_BIND_VAR, CONT_END_LET,
         CONT_SEQUENCE, CONT_AND, CONT_OR

\* The frame of cont has z values, the continuation under it is the x-th of them.
FrameIs(cont, z, x) ==
  \/ cont = CONT_DEFINE /\ z = 2 /\ x = 2
  \/ cont = CONT_SETUP_NO_ARG_APPLY /\ z = 1 /\ x = 1
  \/ cont = CONT_END_LET /\ z = 2 /\ x = 1
  \/ /\ cont \in {CONT_EVAL_ARGS, CONT_ACCUMULATE_LAST_ARG, CONT_BRANCH, CONT_SEQUENCE, CONT_AND,
                  CONT_OR}
     /\ z = 3 /\ x = 1
  \/ cont \in {CONT_ACCUMULATE_ARG, CONT_BIND_VAR} /\ z = 5 /\ x = 1

LEMMA FrameFacts ==
  ASSUME NEW cont, NEW z, NEW x, FrameIs(cont, z, x)
  PROVE  /\ cont # CONT_DONE /\ cont # CONT_ERROR /\ z \in 1 .. 5 /\ x \in 1 .. z
         /\ EcFrame(cont).size = z /\ EcFrame(cont).next = x
         /\ \A y, w : FrameIs(cont, y, w) => y = z /\ w = x
  <1>1. cont # CONT_DONE /\ cont # CONT_ERROR BY EcDistinct DEF FrameIs
  <1>2. z \in 1 .. 5 /\ x \in 1 .. z BY DEF FrameIs
  <1>3. EcFrame(cont).size = z /\ EcFrame(cont).next = x BY EcDistinct DEF FrameIs, EcFrame
  <1>4. \A y, w : FrameIs(cont, y, w) => y = z /\ w = x BY EcDistinct DEF FrameIs
  <1> QED BY <1>1, <1>2, <1>3, <1>4

\* Each pair of E is a continuation and the height of the values that belong to it
\* and to those below it.
StandsIn(S, E, c, n) ==
  \/ c = CONT_DONE /\ n = 0
  \/ \E z, x : FrameIs(c, z, x) /\ z \in 1 .. n /\ <<S[n - z + x], n - z>> \in E
Stands(S, E) == \A c, n : <<c, n>> \in E => n \in 0 .. Len(S) /\ StandsIn(S, E, c, n)

\* The n lowest values of S are the frames of c and of what it goes on with.
Backed(S, c, n) == IsSeq(S) /\ \E E : Stands(S, E) /\ <<c, n>> \in E

LEMMA BackedIn ==
  ASSUME NEW S, NEW c, NEW n, Backed(S, c, n)
  PROVE  IsSeq(S) /\ Len(S) \in Nat /\ n \in 0 .. Len(S) /\ c # CONT_ERROR
  <1>1. IsSeq(S) /\ Len(S) \in Nat BY DEF Backed, IsSeq
  <1>2. PICK E : Stands(S, E) /\ <<c, n>> \in E BY DEF Backed
  <1>3. n \in 0 .. Len(S) /\ StandsIn(S, E, c, n) BY <1>2 DEF Stands
  <1>4. CONT_DONE # CONT_ERROR BY EcDistinct
  <1>5. c # CONT_ERROR BY <1>3, <1>4, FrameFacts DEF StandsIn
  <1> QED BY <1>1, <1>3, <1>5

\* The bottom.
LEMMA NothingLeft ==
  ASSUME NEW S, NEW n, Backed(S, CONT_DONE, n)
  PROVE  n = 0
  <1>1. PICK E : Stands(S, E) /\ <<CONT_DONE, n>> \in E BY DEF Backed
  <1>2. StandsIn(S, E, CONT_DONE, n) BY <1>1 DEF Stands
  <1> QED BY <1>2, FrameFacts DEF StandsIn

LEMMA EmptyBacked == Backed(<<>>, CONT_DONE, 0)
  <1>1. <<>> \in Seq({}) /\ Len(<<>>) = 0 OBVIOUS
  <1>2. PICK E : E = {<<CONT_DONE, 0>>} OBVIOUS
  <1>3. \A c, n : <<c, n>> \in E => c = CONT_DONE /\ n = 0 BY <1>2
  <1>4. Stands(<<>>, E) BY <1>1, <1>3 DEF Stands, StandsIn
  <1>5. <<CONT_DONE, 0>> \in E BY <1>2
  <1>6. IsSeq(<<>>) BY <1>1, SeqIn, Zenon
  <1> QED BY <1>4, <1>5, <1>6 DEF Backed

\* What is under the frame of c.
LEMMA FrameOff ==
  ASSUME NEW S, NEW c, NEW n, Backed(S, c, n), NEW z, NEW x, FrameIs(c, z, x)
  PROVE  z \in 1 .. n /\ Backed(S, S[n - z + x], n - z)
  <1>1. PICK E : Stands(S, E) /\ <<c, n>> \in E BY DEF Backed
  <1>2. StandsIn(S, E, c, n) BY <1>1 DEF Stands
  <1>3. c # CONT_DONE /\ \A y, w : FrameIs(c, y, w) => y = z /\ w = x BY FrameFacts
  <1>4. PICK y, w : FrameIs(c, y, w) /\ y \in 1 .. n /\ <<S[n - y + w], n - y>> \in E
    BY <1>2, <1>3 DEF StandsIn
  <1>5. y = z /\ w = x BY <1>3, <1>4
  <1>6. z \in 1 .. n /\ <<S[n - z + x], n - z>> \in E BY <1>4, <1>5
  <1> QED BY <1>1, <1>6 DEF Backed

\* A stack that agrees with S up to height n.
LEMMA EcAgrees ==
  ASSUME NEW S, NEW c, NEW n, Backed(S, c, n), NEW L, IsSeq(L), n <= Len(L),
         \A j \in 1 .. n : L[j] = S[j]
  PROVE  Backed(L, c, n)
  <1>1. PICK E : Stands(S, E) /\ <<c, n>> \in E BY DEF Backed
  <1>2. n \in Nat /\ Len(L) \in Nat BY BackedIn DEF IsSeq
  <1>3. PICK D : D = {p \in E : p[2] <= n} OBVIOUS
  <1>4. \A a, m : <<a, m>> \in D <=> <<a, m>> \in E /\ m <= n BY <1>3
  <1>5. ASSUME NEW a, NEW m, <<a, m>> \in D PROVE m \in 0 .. Len(L) /\ StandsIn(L, D, a, m)
    <2>1. <<a, m>> \in E /\ m <= n BY <1>4, <1>5
    <2>2. m \in 0 .. Len(S) /\ StandsIn(S, E, a, m) BY <1>1, <2>1 DEF Stands
    <2>3. m \in Nat /\ m \in 0 .. Len(L) BY <1>2, <2>1, <2>2
    <2>4. ASSUME NEW z, NEW x, FrameIs(a, z, x), z \in 1 .. m, <<S[m - z + x], m - z>> \in E
          PROVE  <<L[m - z + x], m - z>> \in D
      <3>1. x \in 1 .. z BY <2>4, FrameFacts
      <3>2. m - z + x \in 1 .. n /\ m - z <= n BY <1>2, <2>1, <2>3, <2>4, <3>1
      <3>3. L[m - z + x] = S[m - z + x] BY <3>2
      <3> QED BY <1>4, <2>4, <3>2, <3>3
    <2> QED BY <2>2, <2>3, <2>4 DEF StandsIn
  <1>6. Stands(L, D) BY <1>5 DEF Stands
  <1>7. <<c, n>> \in D BY <1>1, <1>2, <1>4
  <1> QED BY <1>6, <1>7 DEF Backed

\* The frame of c on top of what backs b.
LEMMA FrameOn ==
  ASSUME NEW L, NEW b, NEW n, Backed(L, b, n), NEW c, NEW z, NEW x, FrameIs(c, z, x),
         n + z <= Len(L), L[n + x] = b
  PROVE  Backed(L, c, n + z)
  <1>1. PICK E : Stands(L, E) /\ <<b, n>> \in E BY DEF Backed
  <1>2. n \in Nat /\ Len(L) \in Nat BY BackedIn
  <1>3. z \in 1 .. 5 /\ x \in 1 .. z BY FrameFacts
  <1>4. PICK m : m = n + z OBVIOUS
  <1>5. m \in 0 .. Len(L) /\ z \in 1 .. m /\ m - z = n /\ m - z + x = n + x BY <1>2, <1>3, <1>4
  <1>6. PICK D : D = E \cup {<<c, m>>} OBVIOUS
  <1>7. \A a, k : <<a, k>> \in D <=> <<a, k>> \in E \/ (a = c /\ k = m) BY <1>6
  <1>8. ASSUME NEW a, NEW k, <<a, k>> \in D PROVE k \in 0 .. Len(L) /\ StandsIn(L, D, a, k)
    <2>1. CASE <<a, k>> \in E
      <3>1. k \in 0 .. Len(L) /\ StandsIn(L, E, a, k) BY <1>1, <2>1 DEF Stands
      <3> QED BY <1>7, <3>1 DEF StandsIn
    <2>2. CASE a = c /\ k = m
      <3>1. <<L[m - z + x], m - z>> \in D BY <1>1, <1>5, <1>7
      <3> QED BY <1>5, <2>2, <3>1 DEF StandsIn
    <2> QED BY <1>7, <1>8, <2>1, <2>2
  <1>9. Stands(L, D) BY <1>8 DEF Stands
  <1>10. <<c, m>> \in D BY <1>7
  <1> QED BY <1>4, <1>9, <1>10 DEF Backed

\* The stack cut to what backs c.
LEMMA CutBacked ==
  ASSUME NEW S, NEW c, NEW n, Backed(S, c, n)
  PROVE  Backed(SubSeq(S, 1, n), c, n) /\ Len(SubSeq(S, 1, n)) = n
  <1>1. IsSeq(S) /\ n \in 0 .. Len(S) /\ Len(S) \in Nat BY BackedIn
  <1>2. PICK L : L = SubSeq(S, 1, n) OBVIOUS
  <1>3. IsSeq(L) /\ Len(L) = n /\ \A j \in 1 .. n : L[j] = S[j] BY <1>1, <1>2, CutSeq
  <1>4. Backed(L, c, n) BY <1>1, <1>3, EcAgrees
  <1> QED BY <1>2, <1>3, <1>4

(***************************************************************************)
(* What EcWhole computes                                                   *)
(***************************************************************************)
EcBody(S, whole, p) ==
  IF p[1] = CONT_DONE THEN p[2] = 0
  ELSE /\ EcFrame(p[1]).size \in 1 .. p[2]
       /\ whole[<<S[p[2] - EcFrame(p[1]).size + EcFrame(p[1]).next], p[2] - EcFrame(p[1]).size>>]

Below(S, p) == <<S[p[2] - EcFrame(p[1]).size + EcFrame(p[1]).next], p[2] - EcFrame(p[1]).size>>

EcClosed(S, E) ==
  \A p \in E : IF p[1] = CONT_DONE THEN p[2] = 0
               ELSE EcFrame(p[1]).size \in 1 .. p[2] /\ Below(S, p) \in E

\* What is below a pair is another one.
LEMMA BelowIn ==
  ASSUME NEW S, IsSeq(S), NEW c, NEW p \in (Range(S) \cup {c}) \X (0 .. Len(S)),
         p[1] # CONT_DONE, EcFrame(p[1]).size \in 1 .. p[2]
  PROVE  Below(S, p) \in (Range(S) \cup {c}) \X (0 .. Len(S))
  <1>1. Len(S) \in Nat /\ DOMAIN S = 1 .. Len(S) BY DEF IsSeq
  <1>2. PICK z, x : z = EcFrame(p[1]).size /\ x = EcFrame(p[1]).next OBVIOUS
  <1>3. z # 0
    BY <1>2
  <1>4. FrameIs(p[1], z, x)
    BY <1>2, <1>3 DEF EcFrame, FrameIs
  <1>5. x \in 1 .. z /\ z \in 1 .. 5 BY <1>4, FrameFacts
  <1>6. p[2] \in 0 .. Len(S) /\ z \in 1 .. p[2] BY <1>2
  <1>7. p[2] - z + x \in 1 .. Len(S) /\ p[2] - z \in 0 .. Len(S) BY <1>1, <1>5, <1>6
  <1>8. S[p[2] - z + x] \in Range(S) BY <1>1, <1>7 DEF Range
  <1> QED BY <1>2, <1>7, <1>8 DEF Below

\* There is such a function: membership in a closed set of pairs.
LEMMA EcWholeExists ==
  ASSUME NEW S, IsSeq(S), NEW c
  PROVE  \E w : w = [p \in (Range(S) \cup {c}) \X (0 .. Len(S)) |-> EcBody(S, w, p)]
  <1> DEFINE In(p) == \E E : EcClosed(S, E) /\ p \in E
  <1>0. PICK P : P = (Range(S) \cup {c}) \X (0 .. Len(S)) OBVIOUS
  <1>1. PICK w : w = [p \in P |-> In(p)] OBVIOUS
  <1>2. ASSUME NEW p \in P PROVE In(p) <=> EcBody(S, w, p)
    <2>2. CASE p[1] = CONT_DONE
      <3>1. In(p) => p[2] = 0 BY <2>2 DEF EcClosed
      <3>2. ASSUME p[2] = 0 PROVE In(p)
        <4>1. EcClosed(S, {p}) BY <2>2, <3>2 DEF EcClosed
        <4> QED BY <4>1
      <3> QED BY <2>2, <3>1, <3>2 DEF EcBody
    <2>3. CASE p[1] # CONT_DONE
      <3>1. EcBody(S, w, p) <=> EcFrame(p[1]).size \in 1 .. p[2] /\ w[Below(S, p)]
        BY <2>3 DEF EcBody, Below
      <3>2. EcFrame(p[1]).size \in 1 .. p[2] => w[Below(S, p)] = In(Below(S, p))
        BY <1>0, <1>1, <2>3, BelowIn
      <3>3. ASSUME In(p) PROVE EcFrame(p[1]).size \in 1 .. p[2] /\ In(Below(S, p))
        BY <2>3, <3>3 DEF EcClosed
      <3>4. ASSUME EcFrame(p[1]).size \in 1 .. p[2], In(Below(S, p)) PROVE In(p)
        <4>1. PICK E : EcClosed(S, E) /\ Below(S, p) \in E BY <3>4
        <4>2. EcClosed(S, E \cup {p}) BY <2>3, <3>4, <4>1 DEF EcClosed
        <4> QED BY <4>2
      <3> HIDE DEF In
      <3> QED BY <3>1, <3>2, <3>3, <3>4
    <2> QED BY <2>2, <2>3
  <1> HIDE DEF In
  <1>3. w = [p \in P |-> EcBody(S, w, p)]
    <2>1. \A p \in P : In(p) = EcBody(S, w, p) BY <1>2 DEF In, EcBody
    <2> QED BY <1>1, <2>1
  <1> QED BY <1>0, <1>3

LEMMA BackedWhole ==
  ASSUME NEW S, NEW c, NEW n, Backed(S, c, n)
  PROVE  EcWhole(S, c, n)
  <1>1. IsSeq(S) /\ Len(S) \in Nat /\ n \in 0 .. Len(S) BY BackedIn
  <1>2. DOMAIN S = 1 .. Len(S) BY <1>1 DEF IsSeq
  <1>3. PICK P : P = (Range(S) \cup {c}) \X (0 .. Len(S)) OBVIOUS
  <1>4. PICK w : w = CHOOSE v : v = [p \in P |-> EcBody(S, v, p)] OBVIOUS
  <1>5. w = [p \in P |-> EcBody(S, w, p)] BY <1>1, <1>3, <1>4, EcWholeExists
  <1>6. EcWhole(S, c, n) <=> w[<<c, n>>] BY <1>3, <1>4 DEF EcWhole, EcBody
  <1>7. PICK E : Stands(S, E) /\ <<c, n>> \in E BY DEF Backed
  <1> DEFINE Bad == {m \in 0 .. Len(S) : \E a \in Range(S) \cup {c} :
                                           <<a, m>> \in E /\ ~ w[<<a, m>>]}
  <1>8. Bad = {}
    <2> SUFFICES ASSUME Bad # {} PROVE FALSE OBVIOUS
    <2>1. Bad \subseteq Nat BY <1>1
    <2>2. PICK m \in Bad : \A j \in Bad : m <= j BY <2>1, LeastNat
    <2>3. PICK a \in Range(S) \cup {c} : <<a, m>> \in E /\ ~ w[<<a, m>>] OBVIOUS
    <2>4. m \in 0 .. Len(S) /\ m \in Nat BY <1>1
    <2>5. PICK p : p = <<a, m>> OBVIOUS
    <2>6. p \in P /\ p[1] = a /\ p[2] = m BY <1>3, <2>3, <2>4, <2>5
    <2>7. w[p] = EcBody(S, w, p) BY <1>5, <2>6
    <2>8. StandsIn(S, E, a, m) BY <1>7, <2>3 DEF Stands
    <2>9. CASE a = CONT_DONE /\ m = 0 BY <2>3, <2>5, <2>6, <2>7, <2>9 DEF EcBody
    <2>10. ASSUME NEW z, NEW x, FrameIs(a, z, x), z \in 1 .. m, <<S[m - z + x], m - z>> \in E
           PROVE  FALSE
      <3>1. /\ a # CONT_DONE /\ EcFrame(a).size = z /\ EcFrame(a).next = x
            /\ x \in 1 .. z /\ z \in 1 .. 5
        BY <2>10, FrameFacts
      <3>2. m - z \in 0 .. Len(S) /\ m - z < m /\ m - z + x \in 1 .. Len(S)
        BY <1>1, <2>4, <2>10, <3>1
      <3>3. S[m - z + x] \in Range(S) BY <1>2, <3>2 DEF Range
      <3>4. m - z \notin Bad BY <2>2, <2>4, <3>2
      <3>5. w[<<S[m - z + x], m - z>>] BY <2>10, <3>2, <3>3, <3>4
      <3>6. EcBody(S, w, p) BY <2>6, <2>10, <3>1, <3>5 DEF EcBody
      <3> QED BY <2>3, <2>5, <2>7, <3>6
    <2> QED BY <2>8, <2>9, <2>10 DEF StandsIn
  <1>9. w[<<c, n>>] BY <1>1, <1>7, <1>8
  <1> QED BY <1>6, <1>9

(***************************************************************************)
(* The registers                                                           *)
(***************************************************************************)
\* The inductive invariant: what the switch that ec_eval enters next finds.
Upright(r, switch) ==
  \/ switch = "EVAL_CONTINUATION" /\ r.cont = CONT_ERROR
  \/ switch \in {"EVAL_DISPATCH", "EVAL_CONTINUATION"} /\ Backed(r.S, r.cont, Len(r.S))
  \/ switch = "EVAL_APPLY_DISPATCH" /\ Backed(r.S, r.S[Len(r.S)], Len(r.S) - 1)

AllUpright ==
  /\ {"cont", "S"} \subseteq DOMAIN rm
  /\ promise.stack_size \in StackSizes
  /\ ~ done /\ ~ adrift => Upright(rm, es)

LEMMA AllUprightSays == AllUpright => EcStackOfFrames
  <1> SUFFICES ASSUME AllUpright, ~ done, ~ adrift, rm.cont # CONT_ERROR
               PROVE  IF es = "EVAL_APPLY_DISPATCH"
                        THEN EcWhole(rm.S, rm.S[Len(rm.S)], Len(rm.S) - 1)
                        ELSE EcWhole(rm.S, rm.cont, Len(rm.S))
    BY DEF EcStackOfFrames
  <1>1. Upright(rm, es) BY DEF AllUpright
  <1> QED BY <1>1, BackedWhole DEF Upright

\* What fits is pushed.
LEMMA PushFits ==
  ASSUME NEW S, IsSeq(S), NEW vals, IsSeq(vals), promise.stack_size \in StackSizes,
         Len(S) + Len(vals) <= promise.stack_size, NEW L, L = push(S, vals)
  PROVE  /\ IsSeq(L) /\ Len(S) \in Nat /\ Len(vals) \in Nat /\ Len(L) = Len(S) + Len(vals)
         /\ \A j \in 1 .. Len(S) : L[j] = S[j]
         /\ \A j \in 1 .. Len(vals) : L[Len(S) + j] = vals[j]
  <1>1. PICK J : J = S \o vals OBVIOUS
  <1>2. /\ IsSeq(J) /\ Len(S) \in Nat /\ Len(vals) \in Nat /\ Len(J) = Len(S) + Len(vals)
        /\ \A j \in 1 .. Len(S) : J[j] = S[j]
        /\ \A j \in 1 .. Len(vals) : J[Len(S) + j] = vals[j]
    <2>1. IsJoin(S \o vals, S, vals) BY JoinIs, Zenon
    <2>2. IsJoin(J, S, vals) BY <1>1, <2>1, Zenon
    <2> QED BY <2>2, Zenon DEF IsJoin
  <1>3. promise.stack_size \in Nat BY DEF StackSizes
  <1>4. L = SubSeq(J, 1, Len(J)) BY <1>1, <1>2, <1>3 DEF push
  <1>5. IsSeq(L) /\ Len(L) = Len(J) /\ \A j \in 1 .. Len(J) : L[j] = J[j]
    <2>1. Len(J) \in 0 .. Len(J) BY <1>2
    <2> QED BY <1>2, <1>4, <2>1, CutSeq
  <1>6. \A j \in 1 .. Len(S) : j \in 1 .. Len(J) BY <1>2
  <1>7. \A j \in 1 .. Len(vals) : Len(S) + j \in 1 .. Len(J) BY <1>2
  <1> QED BY <1>2, <1>5, <1>6, <1>7

LEMMA PushJoins ==
  ASSUME NEW S, IsSeq(S), NEW vals, IsSeq(vals), promise.stack_size \in StackSizes,
         Len(S) + Len(vals) <= promise.stack_size, NEW L, L = push(S, vals)
  PROVE  IsJoin(L, S, vals)
  BY PushFits DEF IsJoin

LEMMA Tuples ==
  /\ \A a : IsSeq(<<a>>) /\ Len(<<a>>) = 1 /\ <<a>>[1] = a
  /\ \A a, b : IsSeq(<<a, b>>) /\ Len(<<a, b>>) = 2 /\ <<a, b>>[1] = a /\ <<a, b>>[2] = b
  /\ \A a, b, c : IsSeq(<<a, b, c>>) /\ Len(<<a, b, c>>) = 3 /\ <<a, b, c>>[1] = a
  <1>1. ASSUME NEW a PROVE IsSeq(<<a>>)
    <2>1. <<a>> \in Seq({a}) OBVIOUS
    <2> QED BY <2>1, SeqIn, Zenon
  <1>2. ASSUME NEW a, NEW b PROVE IsSeq(<<a, b>>)
    <2>1. <<a, b>> \in Seq({a, b}) OBVIOUS
    <2> QED BY <2>1, SeqIn, Zenon
  <1>3. ASSUME NEW a, NEW b, NEW c PROVE IsSeq(<<a, b, c>>)
    <2>1. <<a, b, c>> \in Seq({a, b, c}) OBVIOUS
    <2> QED BY <2>1, SeqIn, Zenon
  <1> QED BY <1>1, <1>2, <1>3

\* On n values that back b lies b itself, and perhaps more: a frame in the making.
Bears(S, b, n) == Backed(S, b, n) /\ n + 1 <= Len(S) /\ S[n + 1] = b

LEMMA AgreeBears ==
  ASSUME NEW S, NEW b, NEW n, Bears(S, b, n), NEW L, IsSeq(L), n + 1 <= Len(L),
         \A j \in 1 .. n + 1 : L[j] = S[j]
  PROVE  Bears(L, b, n)
  <1>1. n \in Nat /\ Len(L) \in Nat BY BackedIn DEF Bears, IsSeq
  <1>2. n <= Len(L) /\ (\A j \in 1 .. n : L[j] = S[j]) /\ L[n + 1] = b
    <2>1. n <= Len(L) BY <1>1
    <2>2. n + 1 \in 1 .. n + 1 /\ \A j \in 1 .. n : j \in 1 .. n + 1 BY <1>1
    <2>3. \A j \in 1 .. n : L[j] = S[j] BY <2>2, Zenon
    <2>4. L[n + 1] = S[n + 1] BY <2>2, Zenon
    <2>5. S[n + 1] = b BY Zenon DEF Bears
    <2> QED BY <2>1, <2>3, <2>4, <2>5, Zenon
  <1>3. Backed(L, b, n) BY <1>2, EcAgrees DEF Bears
  <1> QED BY <1>2, <1>3 DEF Bears

Lowest(S, k) == SubSeq(S, 1, k)

LEMMA CutBears ==
  ASSUME NEW S, NEW b, NEW n, Bears(S, b, n), NEW k, k \in (n + 1) .. Len(S), NEW L,
         L = Lowest(S, k)
  PROVE  Bears(L, b, n) /\ Len(L) = k
  <1>1. n \in Nat /\ Len(S) \in Nat /\ IsSeq(S) BY BackedIn DEF Bears
  <1>2. k \in 0 .. Len(S) BY <1>1
  <1>3. IsSeq(L) /\ Len(L) = k /\ \A j \in 1 .. k : L[j] = S[j]
    BY <1>1, <1>2, CutSeq DEF Lowest
  <1>4. n + 1 <= Len(L) /\ \A j \in 1 .. n + 1 : L[j] = S[j] BY <1>1, <1>3
  <1> QED BY <1>3, <1>4, AgreeBears

LEMMA PushBears ==
  ASSUME NEW S, NEW b, NEW n, Bears(S, b, n), NEW vals, IsSeq(vals),
         promise.stack_size \in StackSizes, Len(S) + Len(vals) <= promise.stack_size,
         NEW L, L = push(S, vals)
  PROVE  Bears(L, b, n) /\ Len(L) = Len(S) + Len(vals)
  <1>1. n \in Nat /\ Len(S) \in Nat /\ IsSeq(S) /\ n + 1 <= Len(S) BY BackedIn DEF Bears
  <1>2. /\ IsSeq(L) /\ Len(vals) \in Nat /\ Len(L) = Len(S) + Len(vals)
        /\ \A j \in 1 .. Len(S) : L[j] = S[j]
    BY <1>1, PushFits
  <1>3. n + 1 <= Len(L) /\ \A j \in 1 .. n + 1 : L[j] = S[j] BY <1>1, <1>2
  <1> QED BY <1>2, <1>3, AgreeBears

\* The first values of a frame, on what backs b.
LEMMA StartBears ==
  ASSUME NEW S, NEW b, Backed(S, b, Len(S)), NEW vals, IsSeq(vals), Len(vals) > 0, vals[1] = b,
         promise.stack_size \in StackSizes, Len(S) + Len(vals) <= promise.stack_size,
         NEW L, L = push(S, vals)
  PROVE  Bears(L, b, Len(S)) /\ Len(L) = Len(S) + Len(vals)
  <1>1. Len(S) \in Nat /\ IsSeq(S) BY BackedIn
  <1>2. /\ IsSeq(L) /\ Len(vals) \in Nat /\ Len(L) = Len(S) + Len(vals)
        /\ \A j \in 1 .. Len(S) : L[j] = S[j]
        /\ \A j \in 1 .. Len(vals) : L[Len(S) + j] = vals[j]
    BY <1>1, PushFits
  <1>3. Len(S) <= Len(L) /\ Len(S) + 1 <= Len(L) /\ L[Len(S) + 1] = b BY <1>1, <1>2
  <1>4. Backed(L, b, Len(S)) BY <1>2, <1>3, EcAgrees
  <1> QED BY <1>2, <1>3, <1>4 DEF Bears

\* A frame that is complete.
LEMMA WholeFrame ==
  ASSUME NEW S, NEW b, NEW n, Bears(S, b, n), NEW c, NEW z, FrameIs(c, z, 1), Len(S) = n + z
  PROVE  Backed(S, c, Len(S))
  <1>1. n \in Nat /\ Len(S) \in Nat BY BackedIn DEF Bears
  <1>2. n + z <= Len(S) BY <1>1
  <1> QED BY <1>2, FrameOn DEF Bears

\* All of it taken off.
LEMMA CutFrame ==
  ASSUME NEW S, NEW b, NEW n, Bears(S, b, n), NEW L, L = SubSeq(S, 1, n)
  PROVE  Backed(L, b, Len(L))
  BY CutBacked DEF Bears

(***************************************************************************)
(* Ways for a handler to end                                               *)
(***************************************************************************)
Registers(r) == {"cont", "S"} \subseteq DOMAIN r
Balanced(r) == ~ adrift => Backed(r.S, r.cont, Len(r.S))

LEMMA GoesOn ==
  ASSUME AllUpright, ~ done, UNCHANGED promise, adrift => adrift', NEW r, Registers(r), Balanced(r),
         Dispatch(r) \/ Continue(r)
  PROVE  AllUpright'
  <1>1. rm' = r /\ es' \in {"EVAL_DISPATCH", "EVAL_CONTINUATION"} BY DEF Dispatch, Continue
  <1>2. ~ adrift' => Upright(r, es') BY <1>1 DEF Balanced, Upright
  <1>3. ~ adrift' => Upright(rm, es)' BY <1>1, <1>2 DEF Upright
  <1> QED BY <1>1, <1>3 DEF AllUpright, Registers

LEMMA GivesUp ==
  ASSUME AllUpright, UNCHANGED promise, NEW r, Registers(r), NEW v, Error(r, v)
  PROVE  AllUpright'
  <1>1. rm'.cont = CONT_ERROR /\ es' = "EVAL_CONTINUATION" /\ DOMAIN rm' = DOMAIN r
    BY DEF Error, Continue, Registers
  <1>2. Upright(rm, es)' BY <1>1 DEF Upright
  <1> QED BY <1>1, <1>2 DEF AllUpright, Registers

LEMMA GoesToApply ==
  ASSUME AllUpright, UNCHANGED promise, adrift => adrift', es' = "EVAL_APPLY_DISPATCH", Registers(rm'),
         ~ adrift' => Backed(rm'.S, rm'.S[Len(rm'.S)], Len(rm'.S) - 1)
  PROVE  AllUpright'
  <1>1. ~ adrift' => Upright(rm, es)' BY DEF Upright
  <1> QED BY <1>1 DEF AllUpright, Registers

LEMMA Stops ==
  ASSUME AllUpright, UNCHANGED promise, Registers(rm'), done'
  PROVE  AllUpright'
  BY DEF AllUpright, Registers

(***************************************************************************)
(* What a handler finds                                                    *)
(***************************************************************************)
LEMMA FoundByEval ==
  ASSUME AllUpright, Evaluates
  PROVE  Registers(rm) /\ Balanced(rm) /\ promise.stack_size \in StackSizes
  BY DEF AllUpright, Upright, Registers, Balanced, Evaluates

LEMMA FoundByCont ==
  ASSUME AllUpright, NEW c, c # CONT_ERROR, Continues(c)
  PROVE  Registers(rm) /\ Balanced(rm) /\ promise.stack_size \in StackSizes
  BY DEF AllUpright, Upright, Registers, Balanced, Continues

LEMMA RoomFor ==
  ASSUME EcRoom, promise.stack_size \in StackSizes, Len(rm.S) \in Nat, NEW k \in 0 .. 5
  PROVE  Len(rm.S) + k <= promise.stack_size
  <1>1. PICK m, n : m = promise.stack_size /\ n = Len(rm.S) OBVIOUS
  <1>2. m \in Nat /\ n \in Nat /\ n + 5 <= m BY <1>1 DEF StackSizes, EcRoom
  <1>3. n + k <= m BY <1>2
  <1> QED BY <1>1, <1>3

\* The values of the frame of c, and under them the frame of b.
LEMMA FrameFound ==
  ASSUME AllUpright, NEW c, Continues(c), ~ adrift, NEW z, FrameIs(c, z, 1), NEW b, b = peek(z - 1)
  PROVE  /\ Len(rm.S) \in Nat /\ z \in 1 .. Len(rm.S)
         /\ Bears(rm.S, b, Len(rm.S) - z)
  <1>1. c # CONT_ERROR /\ z \in 1 .. 5 BY FrameFacts
  <1>2. rm.cont = c /\ Backed(rm.S, c, Len(rm.S)) BY <1>1, FoundByCont DEF Continues, Balanced
  <1>3. Len(rm.S) \in Nat BY <1>2, BackedIn
  <1>4. z \in 1 .. Len(rm.S) /\ Backed(rm.S, rm.S[Len(rm.S) - z + 1], Len(rm.S) - z)
    BY <1>2, FrameOff
  <1>5. Len(rm.S) - z + 1 = Len(rm.S) - (z - 1) /\ Len(rm.S) - z + 1 <= Len(rm.S)
    BY <1>3, <1>4
  <1>6. rm.S[Len(rm.S) - z + 1] = b BY <1>5 DEF peek
  <1> QED BY <1>3, <1>4, <1>5, <1>6 DEF Bears

LEMMA FoundByApply ==
  ASSUME AllUpright, Applies, ~ adrift, NEW b, b = peek(0)
  PROVE  Len(rm.S) \in Nat /\ Bears(rm.S, b, Len(rm.S) - 1)
  <1>1. Backed(rm.S, rm.S[Len(rm.S)], Len(rm.S) - 1) BY DEF AllUpright, Upright, Applies
  <1>2. Len(rm.S) \in Nat BY <1>1, BackedIn
  <1>3. Len(rm.S) - 0 = Len(rm.S) /\ Len(rm.S) - 1 + 1 = Len(rm.S) BY <1>2
  <1> QED BY <1>1, <1>2, <1>3 DEF peek, Bears

(***************************************************************************)
(* EVAL_DISPATCH                                                           *)
(***************************************************************************)
LEMMA ValueUpright ==
  ASSUME AllUpright, eval_self_evaluating \/ eval_variable \/ eval_quoted \/ eval_lambda
  PROVE  AllUpright'
  <1>1. Evaluates /\ ~ done /\ UNCHANGED <<promise, adrift>>
    BY DEF eval_self_evaluating, eval_variable, eval_quoted, eval_lambda, Kind, Evaluates, others_ec
  <1>2. (\E v : Continue([rm EXCEPT !.val = v])) \/ (\E v : Error(rm, v))
    BY DEF eval_self_evaluating, eval_variable, eval_quoted, eval_lambda, OutOfCells
  <1>3. Registers(rm) /\ Balanced(rm) BY <1>1, FoundByEval
  <1>4. ASSUME NEW v, Continue([rm EXCEPT !.val = v]) PROVE AllUpright'
    <2>1. PICK r : r = [rm EXCEPT !.val = v] OBVIOUS
    <2>2. Registers(r) /\ Balanced(r) BY <1>3, <2>1 DEF Registers, Balanced
    <2> QED BY <1>1, <1>4, <2>1, <2>2, GoesOn
  <1> QED BY <1>1, <1>2, <1>3, <1>4, GivesUp

\* A frame of its own.
LEMMA NewFrame ==
  ASSUME AllUpright, EcRoom, Evaluates, NEW vals, IsSeq(vals), NEW c, FrameIs(c, Len(vals), 1),
         vals[1] = rm.cont, NEW L, L = push(rm.S, vals)
  PROVE  ~ adrift => Backed(L, c, Len(L))
  <1> SUFFICES ASSUME ~ adrift PROVE Backed(L, c, Len(L)) OBVIOUS
  <1>1. Backed(rm.S, rm.cont, Len(rm.S)) /\ promise.stack_size \in StackSizes
    BY FoundByEval DEF Balanced
  <1>2. Len(vals) \in 1 .. 5 BY FrameFacts
  <1>3. Len(rm.S) \in Nat /\ Len(vals) \in 0 .. 5 BY <1>1, <1>2, BackedIn
  <1>4. Len(rm.S) + Len(vals) <= promise.stack_size BY <1>1, <1>3, RoomFor
  <1>5. Bears(L, rm.cont, Len(rm.S)) /\ Len(L) = Len(rm.S) + Len(vals)
    BY <1>1, <1>2, <1>4, StartBears
  <1> QED BY <1>5, WholeFrame

LEMMA PushUpright ==
  ASSUME AllUpright, EcRoom,
         eval_no_args \/ eval_application \/ eval_if \/ eval_and \/ eval_or
  PROVE  AllUpright'
  <1>1. Evaluates /\ ~ done /\ UNCHANGED <<promise, adrift>>
    BY DEF eval_no_args, eval_application, eval_if, eval_and, eval_or, eval_junction, Kind, Evaluates,
           others_ec
  <1>2. PICK vals, c : /\ IsSeq(vals) /\ FrameIs(c, Len(vals), 1) /\ vals[1] = rm.cont
                       /\ \E e, u : Dispatch([rm EXCEPT !.unev = u, !.exp = e,
                                                        !.S = push(rm.S, vals), !.cont = c])
    <2>1. CASE eval_no_args
      <3>1. PICK vals : vals = <<rm.cont>> OBVIOUS
      <3>2. PICK e : Dispatch([rm EXCEPT !.exp = e, !.S = push(rm.S, vals),
                                         !.cont = CONT_SETUP_NO_ARG_APPLY])
        BY <2>1, <3>1 DEF eval_no_args
      <3>3. IsSeq(vals) /\ Len(vals) = 1 /\ vals[1] = rm.cont BY <3>1, Tuples
      <3>4. FrameIs(CONT_SETUP_NO_ARG_APPLY, Len(vals), 1) BY <3>3 DEF FrameIs
      <3>5. [rm EXCEPT !.unev = rm.unev, !.exp = e, !.S = push(rm.S, vals),
                       !.cont = CONT_SETUP_NO_ARG_APPLY]
            = [rm EXCEPT !.exp = e, !.S = push(rm.S, vals), !.cont = CONT_SETUP_NO_ARG_APPLY]
        OBVIOUS
      <3> QED BY <3>2, <3>3, <3>4, <3>5
    <2>2. ASSUME NEW c \in {CONT_EVAL_ARGS, CONT_BRANCH, CONT_AND, CONT_OR}, NEW e, NEW u,
                 Dispatch([rm EXCEPT !.unev = u, !.exp = e,
                                     !.S = push(rm.S, <<rm.cont, rm.env, u>>), !.cont = c])
          PROVE  \E vals : /\ IsSeq(vals) /\ FrameIs(c, Len(vals), 1) /\ vals[1] = rm.cont
                           /\ Dispatch([rm EXCEPT !.unev = u, !.exp = e,
                                                  !.S = push(rm.S, vals), !.cont = c])
      <3>1. PICK vals : vals = <<rm.cont, rm.env, u>> OBVIOUS
      <3>2. IsSeq(vals) /\ Len(vals) = 3 /\ vals[1] = rm.cont BY <3>1, Tuples
      <3>3. FrameIs(c, Len(vals), 1) BY <3>2 DEF FrameIs
      <3> QED BY <2>2, <3>1, <3>2, <3>3
    <2>3. CASE eval_application BY <2>2, <2>3 DEF eval_application
    <2>4. CASE eval_if BY <2>2, <2>4 DEF eval_if
    <2>5. CASE eval_and
      <3>1. PICK e, u : Dispatch([rm EXCEPT !.unev = u, !.S = push(rm.S, <<rm.cont, rm.env, u>>),
                                            !.exp = e, !.cont = CONT_AND])
        BY <2>5 DEF eval_and, eval_junction
      <3>2. PICK L : L = push(rm.S, <<rm.cont, rm.env, u>>) OBVIOUS
      <3>3. \A c : [rm EXCEPT !.unev = u, !.S = L, !.exp = e, !.cont = c]
                   = [rm EXCEPT !.unev = u, !.exp = e, !.S = L, !.cont = c]
        OBVIOUS
      <3>4. Dispatch([rm EXCEPT !.unev = u, !.exp = e, !.S = push(rm.S, <<rm.cont, rm.env, u>>),
                                !.cont = CONT_AND])
        BY <3>1, <3>2, <3>3, Zenon
      <3>5. CONT_AND \in {CONT_EVAL_ARGS, CONT_BRANCH, CONT_AND, CONT_OR} OBVIOUS
      <3>6. \E vals : /\ IsSeq(vals) /\ FrameIs(CONT_AND, Len(vals), 1) /\ vals[1] = rm.cont
                      /\ Dispatch([rm EXCEPT !.unev = u, !.exp = e,
                                             !.S = push(rm.S, vals), !.cont = CONT_AND])
        BY <2>2, <3>4, <3>5, Zenon
      <3> QED BY <3>6, Zenon
    <2>6. CASE eval_or
      <3>1. PICK e, u : Dispatch([rm EXCEPT !.unev = u, !.S = push(rm.S, <<rm.cont, rm.env, u>>),
                                            !.exp = e, !.cont = CONT_OR])
        BY <2>6 DEF eval_or, eval_junction
      <3>2. PICK L : L = push(rm.S, <<rm.cont, rm.env, u>>) OBVIOUS
      <3>3. \A c : [rm EXCEPT !.unev = u, !.S = L, !.exp = e, !.cont = c]
                   = [rm EXCEPT !.unev = u, !.exp = e, !.S = L, !.cont = c]
        OBVIOUS
      <3>4. Dispatch([rm EXCEPT !.unev = u, !.exp = e, !.S = push(rm.S, <<rm.cont, rm.env, u>>),
                                !.cont = CONT_OR])
        BY <3>1, <3>2, <3>3, Zenon
      <3>5. CONT_OR \in {CONT_EVAL_ARGS, CONT_BRANCH, CONT_AND, CONT_OR} OBVIOUS
      <3>6. \E vals : /\ IsSeq(vals) /\ FrameIs(CONT_OR, Len(vals), 1) /\ vals[1] = rm.cont
                      /\ Dispatch([rm EXCEPT !.unev = u, !.exp = e,
                                             !.S = push(rm.S, vals), !.cont = CONT_OR])
        BY <2>2, <3>4, <3>5, Zenon
      <3> QED BY <3>6, Zenon
    <2> QED BY <2>1, <2>3, <2>4, <2>5, <2>6
  <1>3. PICK e, u, L : L = push(rm.S, vals) /\ Dispatch([rm EXCEPT !.unev = u, !.exp = e,
                                                                   !.S = L, !.cont = c])
    BY <1>2
  <1>4. PICK r : r = [rm EXCEPT !.unev = u, !.exp = e, !.S = L, !.cont = c] OBVIOUS
  <1>5. Registers(rm) BY <1>1, FoundByEval
  <1>6. Registers(r) /\ r.S = L /\ r.cont = c BY <1>4, <1>5 DEF Registers
  <1>7. ~ adrift => Backed(L, c, Len(L)) BY <1>1, <1>2, <1>3, NewFrame
  <1>8. Balanced(r) BY <1>6, <1>7 DEF Balanced
  <1> QED BY <1>1, <1>3, <1>4, <1>6, <1>8, GoesOn

\* define keeps the continuation above the key.
LEMMA DefineUpright ==
  ASSUME AllUpright, EcRoom, eval_define
  PROVE  AllUpright'
  <1>1. Evaluates /\ ~ done /\ UNCHANGED <<promise, adrift>>
    BY DEF eval_define, Kind, Evaluates, others_ec
  <1>2. PICK key, vals, L, e : /\ vals = <<key, rm.cont>> /\ L = push(rm.S, vals)
                               /\ Dispatch([rm EXCEPT !.unev = key, !.exp = e, !.S = L,
                                                      !.cont = CONT_DEFINE])
    BY DEF eval_define
  <1>3. Registers(rm) BY <1>1, FoundByEval
  <1>4. PICK r : r = [rm EXCEPT !.unev = key, !.exp = e, !.S = L, !.cont = CONT_DEFINE] OBVIOUS
  <1>5. Registers(r) /\ r.S = L /\ r.cont = CONT_DEFINE BY <1>3, <1>4 DEF Registers
  <1>6. ASSUME ~ adrift PROVE Backed(L, CONT_DEFINE, Len(L))
    <2>1. Backed(rm.S, rm.cont, Len(rm.S)) /\ promise.stack_size \in StackSizes
      BY <1>1, <1>6, FoundByEval DEF Balanced
    <2>2. Len(rm.S) \in Nat /\ IsSeq(rm.S) BY <2>1, BackedIn
    <2>3. IsSeq(vals) /\ Len(vals) = 2 /\ vals[2] = rm.cont BY <1>2, Tuples
    <2>4. Len(rm.S) + Len(vals) <= promise.stack_size BY <2>1, <2>2, <2>3, RoomFor
    <2>5. /\ IsSeq(L) /\ Len(L) = Len(rm.S) + Len(vals)
          /\ \A j \in 1 .. Len(rm.S) : L[j] = rm.S[j]
          /\ \A j \in 1 .. Len(vals) : L[Len(rm.S) + j] = vals[j]
      <3>1. L = push(rm.S, vals) BY <1>2
      <3>2. IsSeq(rm.S) BY <2>2
      <3>3. IsSeq(vals) BY <2>3
      <3>4. promise.stack_size \in StackSizes BY <2>1
      <3>5. IsJoin(L, rm.S, vals) BY <2>4, <3>1, <3>2, <3>3, <3>4, PushJoins, Zenon
      <3> QED BY <3>5, Zenon DEF IsJoin
    <2>6. Len(L) = Len(rm.S) + 2 /\ L[Len(rm.S) + 2] = rm.cont BY <2>3, <2>5
    <2>7. Len(rm.S) <= Len(L) /\ Len(rm.S) + 2 <= Len(L) BY <2>2, <2>6
    <2>8. Backed(L, rm.cont, Len(rm.S)) BY <2>1, <2>5, <2>7, EcAgrees
    <2>9. FrameIs(CONT_DEFINE, 2, 2) BY DEF FrameIs
    <2> QED BY <2>6, <2>7, <2>8, <2>9, FrameOn
  <1>7. Balanced(r) BY <1>5, <1>6 DEF Balanced
  <1> QED BY <1>1, <1>2, <1>4, <1>5, <1>7, GoesOn

\* The continuation and the environment of a progn are on the stack of r.
LEMMA SequenceUpright ==
  ASSUME AllUpright, ~ done, UNCHANGED <<promise, adrift>>, NEW r, Registers(r), NEW b, NEW n,
         ~ adrift => /\ Bears(r.S, b, n) /\ Len(r.S) = n + 2
                     /\ n + 3 <= promise.stack_size,
         eval_sequence(r)
  PROVE  AllUpright'
  <1>1. PICK J, env, e : /\ J = SubSeq(r.S, 1, Len(r.S) - 1) /\ env = r.S[Len(r.S)]
                         /\ e = car(heap, r.unev)
    OBVIOUS
  <1>2. PICK q : q = [r EXCEPT !.exp = e, !.env = env] OBVIOUS
  <1>3. \/ Dispatch([q EXCEPT !.cont = J[Len(J)], !.S = SubSeq(J, 1, Len(J) - 1)])
        \/ Dispatch([q EXCEPT !.S = push(J, <<q.env, r.unev>>), !.cont = CONT_SEQUENCE])
    BY <1>1, <1>2 DEF eval_sequence
  <1>4. Registers(q) BY <1>2 DEF Registers
  <1>5. ASSUME ~ adrift
        PROVE  n \in Nat /\ Bears(J, b, n) /\ Len(J) = n + 1 /\ promise.stack_size \in StackSizes
    <2>1. Bears(r.S, b, n) /\ Len(r.S) = n + 2 BY <1>5
    <2>2. n \in Nat BY <2>1, BackedIn DEF Bears
    <2>3. PICK k : k = n + 1 OBVIOUS
    <2>4. k \in n + 1 .. Len(r.S) BY <2>1, <2>2, <2>3
    <2>5. Bears(J, b, n) /\ Len(J) = k
      <3>1. J = Lowest(r.S, k) BY <1>1, <2>1, <2>2, <2>3 DEF Lowest
      <3>2. Bears(r.S, b, n) BY <2>1
      <3> QED BY <2>4, <3>1, <3>2, CutBears, Zenon
    <2> QED BY <2>2, <2>3, <2>5 DEF AllUpright
  <1>6. CASE Dispatch([q EXCEPT !.cont = J[Len(J)], !.S = SubSeq(J, 1, Len(J) - 1)])
    <2>1. PICK p, L : p = [q EXCEPT !.cont = J[Len(J)], !.S = L] /\ L = SubSeq(J, 1, Len(J) - 1)
      OBVIOUS
    <2>2. Registers(p) /\ p.S = L /\ p.cont = J[Len(J)] BY <1>4, <2>1 DEF Registers
    <2>3. ASSUME ~ adrift PROVE Backed(p.S, p.cont, Len(p.S))
      <3>1. n \in Nat /\ Bears(J, b, n) /\ Len(J) = n + 1 BY <1>5, <2>3
      <3>2. L = SubSeq(J, 1, n) /\ J[Len(J)] = b BY <2>1, <3>1 DEF Bears
      <3>3. Backed(L, b, Len(L)) BY <3>1, <3>2, CutFrame
      <3> QED BY <2>2, <3>2, <3>3
    <2>4. Balanced(p) BY <2>3 DEF Balanced
    <2>5. Dispatch(p) BY <1>6, <2>1
    <2> QED BY <2>2, <2>4, <2>5, GoesOn
  <1>7. CASE Dispatch([q EXCEPT !.S = push(J, <<q.env, r.unev>>), !.cont = CONT_SEQUENCE])
    <2>1. PICK p, L, vals : /\ p = [q EXCEPT !.S = L, !.cont = CONT_SEQUENCE]
                            /\ L = push(J, vals) /\ vals = <<q.env, r.unev>>
      OBVIOUS
    <2>2. Registers(p) /\ p.S = L /\ p.cont = CONT_SEQUENCE BY <1>4, <2>1 DEF Registers
    <2>3. ASSUME ~ adrift PROVE Backed(p.S, p.cont, Len(p.S))
      <3>1. n \in Nat /\ Bears(J, b, n) /\ Len(J) = n + 1 /\ promise.stack_size \in StackSizes
        BY <1>5, <2>3
      <3>2. IsSeq(vals) /\ Len(vals) = 2 BY <2>1, Tuples
      <3>3. Len(J) + Len(vals) = n + 3 BY <3>1, <3>2
      <3>4. Len(J) + Len(vals) <= promise.stack_size BY <2>3, <3>3
      <3>5. Bears(L, b, n) /\ Len(L) = n + 3
        <4>1. L = push(J, vals) BY <2>1
        <4>2. Bears(J, b, n) BY <3>1
        <4>3. IsSeq(vals) BY <3>2
        <4>4. promise.stack_size \in StackSizes BY <3>1
        <4>5. Bears(L, b, n) /\ Len(L) = Len(J) + Len(vals)
          BY <3>4, <4>1, <4>2, <4>3, <4>4, PushBears, Zenon
        <4> QED BY <3>3, <4>5
      <3>6. FrameIs(CONT_SEQUENCE, 3, 1) BY DEF FrameIs
      <3> QED BY <2>2, <3>5, <3>6, WholeFrame
    <2>4. Balanced(p) BY <2>3 DEF Balanced
    <2>5. Dispatch(p) BY <1>7, <2>1
    <2> QED BY <2>2, <2>4, <2>5, GoesOn
  <1> QED BY <1>3, <1>6, <1>7

LEMMA PrognUpright ==
  ASSUME AllUpright, EcRoom, eval_progn
  PROVE  AllUpright'
  <1>1. Evaluates /\ ~ done /\ UNCHANGED <<promise, adrift>>
    BY DEF eval_progn, Kind, Evaluates, others_ec
  <1>2. PICK vals, L, r : /\ vals = <<rm.cont, rm.env>> /\ L = push(rm.S, vals)
                          /\ r = [rm EXCEPT !.S = L, !.unev = cdr(heap, rm.exp)]
    OBVIOUS
  <1>3. eval_sequence(r) BY <1>2 DEF eval_progn
  <1>4. Registers(rm) BY <1>1, FoundByEval
  <1>5. Registers(r) /\ r.S = L BY <1>2, <1>4 DEF Registers
  <1>6. PICK n : n = Len(rm.S) OBVIOUS
  <1>7. ASSUME ~ adrift
        PROVE  Bears(r.S, rm.cont, n) /\ Len(r.S) = n + 2 /\ n + 3 <= promise.stack_size
    <2>1. Backed(rm.S, rm.cont, Len(rm.S)) /\ promise.stack_size \in StackSizes
      BY <1>1, <1>7, FoundByEval DEF Balanced
    <2>2. Len(rm.S) \in Nat BY <2>1, BackedIn
    <2>3. IsSeq(vals) /\ Len(vals) = 2 /\ vals[1] = rm.cont BY <1>2, Tuples
    <2>4. Len(rm.S) + Len(vals) <= promise.stack_size /\ n + 3 <= promise.stack_size
      BY <1>6, <2>1, <2>2, <2>3, RoomFor
    <2>5. L = push(rm.S, vals) BY <1>2
    <2>6. Bears(L, rm.cont, Len(rm.S)) /\ Len(L) = Len(rm.S) + Len(vals)
      <3>1. Len(vals) > 0 BY <2>3
      <3>2. Backed(rm.S, rm.cont, Len(rm.S)) BY <2>1
      <3>3. IsSeq(vals) BY <2>3
      <3>4. vals[1] = rm.cont BY <2>3
      <3>5. promise.stack_size \in StackSizes BY <2>1
      <3>6. Len(rm.S) + Len(vals) <= promise.stack_size BY <2>4
      <3> QED BY <2>5, <3>1, <3>2, <3>3, <3>4, <3>5, <3>6, StartBears, Zenon
    <2> QED BY <1>5, <1>6, <2>3, <2>4, <2>6
  <1> QED BY <1>1, <1>3, <1>5, <1>7, SequenceUpright

LEMMA ContSequenceUpright ==
  ASSUME AllUpright, EcRoom, cont_sequence
  PROVE  AllUpright'
  <1>1. Continues(CONT_SEQUENCE) /\ ~ done /\ UNCHANGED <<promise, adrift>>
    BY DEF cont_sequence, Continues, others_ec
  <1>2. PICK L, r : L = pop(1) /\ r = [rm EXCEPT !.unev = cdr(heap, peek(0)), !.S = L] OBVIOUS
  <1>3. eval_sequence(r) BY <1>2 DEF cont_sequence
  <1>4. FrameIs(CONT_SEQUENCE, 3, 1) BY DEF FrameIs
  <1>5. Registers(rm) BY <1>1, <1>4, FrameFacts, FoundByCont
  <1>6. Registers(r) /\ r.S = L BY <1>2, <1>5 DEF Registers
  <1>7. PICK n, b : n = Len(rm.S) - 3 /\ b = peek(3 - 1) OBVIOUS
  <1>8. ASSUME ~ adrift
        PROVE  Bears(r.S, b, n) /\ Len(r.S) = n + 2 /\ n + 3 <= promise.stack_size
    <2>1. Len(rm.S) \in Nat /\ 3 \in 1 .. Len(rm.S) /\ Bears(rm.S, b, n)
      BY <1>1, <1>4, <1>7, <1>8, FrameFound
    <2>2. PICK k : k = n + 2 OBVIOUS
    <2>3. k \in n + 1 .. Len(rm.S) /\ k = Len(rm.S) - 1 BY <1>7, <2>1, <2>2
    <2>4. L = Lowest(rm.S, k) BY <1>2, <2>3 DEF pop, Lowest
    <2>5. Bears(L, b, n) /\ Len(L) = k
      <3>1. Bears(rm.S, b, n) BY <2>1
      <3>2. k \in n + 1 .. Len(rm.S) BY <2>3
      <3> QED BY <2>4, <3>1, <3>2, CutBears, Zenon
    <2>6. promise.stack_size \in StackSizes BY DEF AllUpright
    <2>7. Len(rm.S) + 0 <= promise.stack_size BY <2>1, <2>6, RoomFor
    <2>8. n + 3 <= promise.stack_size BY <1>7, <2>1, <2>7
    <2> QED BY <1>6, <2>2, <2>5, <2>8
  <1> QED BY <1>1, <1>3, <1>6, <1>8, SequenceUpright

\* The frame of c without the i values on top of it, and without all of it.
LEMMA PopBears ==
  ASSUME AllUpright, NEW c, Continues(c), ~ adrift, NEW z, FrameIs(c, z, 1), NEW b, b = peek(z - 1),
         NEW i, i \in 1 .. (z - 1), NEW L, L = pop(i), NEW n, n = Len(rm.S) - z
  PROVE  n \in Nat /\ Bears(L, b, n) /\ Len(L) = n + z - i
  <1>1. Len(rm.S) \in Nat /\ z \in 1 .. Len(rm.S) /\ Bears(rm.S, b, Len(rm.S) - z) BY FrameFound
  <1>2. PICK k, m, J : k = Len(rm.S) - i /\ m = n /\ J = rm.S OBVIOUS
  <1>3. k \in (m + 1) .. Len(J) /\ k = n + z - i /\ n \in Nat BY <1>1, <1>2
  <1>4. L = Lowest(J, k) BY <1>2 DEF pop, Lowest
  <1>5. Bears(J, b, m) BY <1>1, <1>2
  <1>6. Bears(L, b, m) /\ Len(L) = k BY <1>3, <1>4, <1>5, CutBears
  <1> QED BY <1>2, <1>3, <1>6

LEMMA PopFrame ==
  ASSUME AllUpright, NEW c, Continues(c), ~ adrift, NEW z, FrameIs(c, z, 1), NEW b, b = peek(z - 1),
         NEW L, L = pop(z)
  PROVE  Backed(L, b, Len(L))
  <1>1. Bears(rm.S, b, Len(rm.S) - z) BY FrameFound
  <1>2. PICK n : n = Len(rm.S) - z OBVIOUS
  <1>3. L = SubSeq(rm.S, 1, n) BY <1>2 DEF pop
  <1>4. Bears(rm.S, b, n) BY <1>1, <1>2
  <1> QED BY <1>3, <1>4, CutFrame

\* A frame finished by pushing what it still lacks.
LEMMA RestOfFrame ==
  ASSUME NEW S, NEW b, NEW n, Bears(S, b, n), NEW vals, IsSeq(vals),
         promise.stack_size \in StackSizes, NEW c, NEW z, FrameIs(c, z, 1), Len(S) + Len(vals) = n + z,
         n + z <= promise.stack_size, NEW L, L = push(S, vals)
  PROVE  Backed(L, c, Len(L))
  <1>1. Len(S) + Len(vals) <= promise.stack_size OBVIOUS
  <1>2. Bears(L, b, n) /\ Len(L) = Len(S) + Len(vals) BY <1>1, PushBears
  <1> QED BY <1>2, WholeFrame

\* The next argument, on a frame that holds the continuation and the function.
LEMMA ArgLoopUpright ==
  ASSUME AllUpright, ~ done, UNCHANGED <<promise, adrift>>, NEW r, Registers(r), NEW b, NEW n,
         ~ adrift => /\ n \in Nat /\ Bears(r.S, b, n) /\ Len(r.S) = n + 2
                     /\ n + 5 <= promise.stack_size,
         NEW h, eval_arg_loop(h, r)
  PROVE  AllUpright'
  <1>1. PICK J, one, two, e : /\ one = <<r.argl>> /\ J = push(r.S, one) /\ two = <<r.env, r.unev>>
                              /\ e = car(h, r.unev)
    OBVIOUS
  <1>2. PICK q : q = [r EXCEPT !.exp = e] OBVIOUS
  <1>3. \/ Dispatch([q EXCEPT !.S = J, !.cont = CONT_ACCUMULATE_LAST_ARG])
        \/ Dispatch([q EXCEPT !.S = push(J, two), !.cont = CONT_ACCUMULATE_ARG])
    BY <1>1, <1>2 DEF eval_arg_loop
  <1>4. Registers(q) BY <1>2 DEF Registers
  <1>5. IsSeq(one) /\ Len(one) = 1 /\ IsSeq(two) /\ Len(two) = 2 BY <1>1, Tuples
  <1>6. promise.stack_size \in StackSizes BY DEF AllUpright
  <1>7. ASSUME ~ adrift PROVE n + 3 <= promise.stack_size /\ n \in Nat
    <2>1. PICK m : m = promise.stack_size OBVIOUS
    <2>2. m \in Nat /\ n \in Nat /\ n + 5 <= m BY <1>6, <1>7, <2>1 DEF StackSizes
    <2>3. n + 3 <= m BY <2>2
    <2> QED BY <2>1, <2>2, <2>3
  <1>8. ASSUME ~ adrift PROVE Bears(J, b, n) /\ Len(J) = n + 3
    <2>1. Bears(r.S, b, n) BY <1>8
    <2>2. Len(r.S) + Len(one) = n + 3 /\ n + 3 <= promise.stack_size BY <1>5, <1>7, <1>8
    <2>3. Len(r.S) + Len(one) <= promise.stack_size BY <2>2
    <2>4. J = push(r.S, one) BY <1>1
    <2>5. Bears(J, b, n) /\ Len(J) = Len(r.S) + Len(one)
      BY <1>5, <1>6, <2>1, <2>3, <2>4, PushBears
    <2> QED BY <2>2, <2>5
  <1>9. CASE Dispatch([q EXCEPT !.S = J, !.cont = CONT_ACCUMULATE_LAST_ARG])
    <2>1. PICK p : p = [q EXCEPT !.S = J, !.cont = CONT_ACCUMULATE_LAST_ARG] OBVIOUS
    <2>2. Registers(p) /\ p.S = J /\ p.cont = CONT_ACCUMULATE_LAST_ARG BY <1>4, <2>1 DEF Registers
    <2>3. FrameIs(CONT_ACCUMULATE_LAST_ARG, 3, 1) BY DEF FrameIs
    <2>4. ASSUME ~ adrift PROVE Backed(J, CONT_ACCUMULATE_LAST_ARG, Len(J))
      BY <1>8, <2>3, <2>4, WholeFrame
    <2>5. Balanced(p) BY <2>2, <2>4 DEF Balanced
    <2>6. Dispatch(p) BY <1>9, <2>1
    <2> QED BY <2>2, <2>5, <2>6, GoesOn
  <1>10. CASE Dispatch([q EXCEPT !.S = push(J, two), !.cont = CONT_ACCUMULATE_ARG])
    <2>1. PICK p, L : L = push(J, two) /\ p = [q EXCEPT !.S = L, !.cont = CONT_ACCUMULATE_ARG] OBVIOUS
    <2>2. Registers(p) /\ p.S = L /\ p.cont = CONT_ACCUMULATE_ARG BY <1>4, <2>1 DEF Registers
    <2>3. FrameIs(CONT_ACCUMULATE_ARG, 5, 1) BY DEF FrameIs
    <2>4. ASSUME ~ adrift PROVE Backed(L, CONT_ACCUMULATE_ARG, Len(L))
      <3>1. Bears(J, b, n) BY <1>8, <2>4
      <3>2. Len(J) + Len(two) = n + 5 BY <1>5, <1>7, <1>8, <2>4
      <3>3. n + 5 <= promise.stack_size /\ L = push(J, two) BY <2>1, <2>4
      <3> QED BY <1>5, <1>6, <2>3, <3>1, <3>2, <3>3, RestOfFrame
    <2>5. Balanced(p) BY <2>2, <2>4 DEF Balanced
    <2>6. Dispatch(p) BY <1>10, <2>1
    <2> QED BY <2>2, <2>5, <2>6, GoesOn
  <1> QED BY <1>3, <1>9, <1>10

\* The next binding of a let or its body, on a frame that also holds the environment
\* and the body.
LEMMA LetLoopUpright ==
  ASSUME AllUpright, ~ done, UNCHANGED promise, adrift => adrift', NEW r, Registers(r), NEW b, NEW n,
         ~ adrift => /\ n \in Nat /\ Bears(r.S, b, n) /\ Len(r.S) = n + 3
                     /\ n + 5 <= promise.stack_size,
         NEW e,
         \/ Dispatch([r EXCEPT !.exp = e, !.S = SubSeq(r.S, 1, Len(r.S) - 1), !.cont = CONT_END_LET])
         \/ Dispatch([r EXCEPT !.exp = e, !.S = push(r.S, <<r.env, r.unev>>), !.cont = CONT_BIND_VAR])
  PROVE  AllUpright'
  <1>1. promise.stack_size \in StackSizes BY DEF AllUpright
  <1>2. CASE Dispatch([r EXCEPT !.exp = e, !.S = SubSeq(r.S, 1, Len(r.S) - 1), !.cont = CONT_END_LET])
    <2>1. PICK L : L = SubSeq(r.S, 1, Len(r.S) - 1) OBVIOUS
    <2>2. PICK p : p = [r EXCEPT !.exp = e, !.S = L, !.cont = CONT_END_LET] OBVIOUS
    <2>3. Registers(p) /\ p.S = L /\ p.cont = CONT_END_LET BY <2>2 DEF Registers
    <2>4. FrameIs(CONT_END_LET, 2, 1) BY DEF FrameIs
    <2>5. ASSUME ~ adrift PROVE Backed(L, CONT_END_LET, Len(L))
      <3>1. n \in Nat /\ Bears(r.S, b, n) /\ Len(r.S) = n + 3 BY <2>5
      <3>2. PICK k : k = n + 2 OBVIOUS
      <3>3. k \in (n + 1) .. Len(r.S) BY <3>1, <3>2
      <3>4. L = Lowest(r.S, k) BY <2>1, <3>1, <3>2 DEF Lowest
      <3>5. Bears(r.S, b, n) BY <3>1
      <3>6. Bears(L, b, n) /\ Len(L) = k BY <3>3, <3>4, <3>5, CutBears, Zenon
      <3> QED BY <2>4, <3>2, <3>6, WholeFrame
    <2>6. Balanced(p) BY <2>3, <2>5 DEF Balanced
    <2>7. Dispatch(p) BY <1>2, <2>1, <2>2
    <2> QED BY <2>3, <2>6, <2>7, GoesOn
  <1>3. CASE Dispatch([r EXCEPT !.exp = e, !.S = push(r.S, <<r.env, r.unev>>), !.cont = CONT_BIND_VAR])
    <2>1. PICK L, two : two = <<r.env, r.unev>> /\ L = push(r.S, two) OBVIOUS
    <2>2. PICK p : p = [r EXCEPT !.exp = e, !.S = L, !.cont = CONT_BIND_VAR] OBVIOUS
    <2>3. Registers(p) /\ p.S = L /\ p.cont = CONT_BIND_VAR BY <2>2 DEF Registers
    <2>4. FrameIs(CONT_BIND_VAR, 5, 1) /\ IsSeq(two) /\ Len(two) = 2 BY <2>1, Tuples DEF FrameIs
    <2>5. ASSUME ~ adrift PROVE Backed(L, CONT_BIND_VAR, Len(L))
      <3>1. Bears(r.S, b, n) BY <2>5
      <3>2. Len(r.S) + Len(two) = n + 5 BY <2>4, <2>5
      <3>3. n + 5 <= promise.stack_size /\ L = push(r.S, two) BY <2>1, <2>5
      <3> QED BY <1>1, <2>4, <3>1, <3>2, <3>3, RestOfFrame
    <2>6. Balanced(p) BY <2>3, <2>5 DEF Balanced
    <2>7. Dispatch(p) BY <1>3, <2>1, <2>2
    <2> QED BY <2>3, <2>6, <2>7, GoesOn
  <1> QED BY <1>2, <1>3

LEMMA LetUpright ==
  ASSUME AllUpright, EcRoom, eval_let
  PROVE  AllUpright'
  <1>1. Evaluates /\ ~ done /\ UNCHANGED promise BY DEF eval_let, Kind, Evaluates
  <1>2. PICK vals, L, list, r : /\ vals = <<rm.cont, rm.env, nth(rm.exp, 2)>>
                                    /\ L = push(rm.S, vals) /\ list = nth(rm.exp, 1)
                                    /\ r = [rm EXCEPT !.S = L, !.unev = list]
    OBVIOUS
  <1>3. PICK res : IF res.failed THEN OutOfCells(r)
                   ELSE /\ eval_let_loop(res.h, [r EXCEPT !.env = res.v])
                        /\ adrift' = (adrift \/ ~ res.kept)
    BY <1>2 DEF eval_let
  <1>4. Registers(rm) /\ Balanced(rm) /\ promise.stack_size \in StackSizes BY <1>1, FoundByEval
  <1>5. Registers(r) /\ r.S = L BY <1>2, <1>4 DEF Registers
  <1>6. CASE res.failed
    <2>1. Error(r, MERROR) BY <1>3, <1>6 DEF OutOfCells
    <2> QED BY <1>1, <1>5, <2>1, GivesUp
  <1>7. CASE ~ res.failed
    <2>1. PICK q : q = [r EXCEPT !.env = res.v] OBVIOUS
    <2>2. eval_let_loop(res.h, q) /\ (adrift => adrift') BY <1>3, <1>7, <2>1
    <2>3. Registers(q) /\ q.S = L BY <1>5, <2>1 DEF Registers
    <2>4. PICK e : \/ Dispatch([q EXCEPT !.exp = e, !.S = SubSeq(q.S, 1, Len(q.S) - 1),
                                         !.cont = CONT_END_LET])
                   \/ Dispatch([q EXCEPT !.exp = e, !.S = push(q.S, <<q.env, q.unev>>),
                                         !.cont = CONT_BIND_VAR])
      BY <2>2 DEF eval_let_loop
    <2>5. PICK n : n = Len(rm.S) OBVIOUS
    <2>6. ASSUME ~ adrift
          PROVE  n \in Nat /\ Bears(q.S, rm.cont, n) /\ Len(q.S) = n + 3 /\ n + 5 <= promise.stack_size
      <3>1. Backed(rm.S, rm.cont, Len(rm.S)) BY <1>4, <2>6 DEF Balanced
      <3>2. Len(rm.S) \in Nat BY <3>1, BackedIn
      <3>3. IsSeq(vals) /\ Len(vals) = 3 /\ vals[1] = rm.cont BY <1>2, Tuples
      <3>4. Len(vals) \in 0 .. 5 /\ 5 \in 0 .. 5 /\ Len(vals) > 0 BY <3>3
      <3>5. Len(rm.S) + Len(vals) <= promise.stack_size BY <1>4, <3>2, <3>4, RoomFor
      <3>6. Len(rm.S) + 5 <= promise.stack_size BY <1>4, <3>2, <3>4, RoomFor
      <3>7. L = push(rm.S, vals) BY <1>2
      <3>8. Bears(L, rm.cont, Len(rm.S)) /\ Len(L) = Len(rm.S) + Len(vals)
        <4>1. vals[1] = rm.cont /\ IsSeq(vals) BY <3>3
        <4>2. promise.stack_size \in StackSizes BY <1>4
        <4>3. Len(vals) > 0 BY <3>4
        <4> QED BY <3>1, <3>5, <3>7, <4>1, <4>2, <4>3, StartBears, Zenon
      <3> QED BY <2>3, <2>5, <3>2, <3>3, <3>6, <3>8
    <2> QED BY <1>1, <2>2, <2>3, <2>4, <2>6, LetLoopUpright
  <1> QED BY <1>6, <1>7

(***************************************************************************)
(* EVAL_CONTINUATION                                                       *)
(***************************************************************************)
LEMMA FrameSizes ==
  /\ FrameIs(CONT_DEFINE, 2, 2) /\ FrameIs(CONT_SETUP_NO_ARG_APPLY, 1, 1)
  /\ FrameIs(CONT_END_LET, 2, 1)
  /\ FrameIs(CONT_EVAL_ARGS, 3, 1) /\ FrameIs(CONT_ACCUMULATE_LAST_ARG, 3, 1)
  /\ FrameIs(CONT_BRANCH, 3, 1) /\ FrameIs(CONT_AND, 3, 1) /\ FrameIs(CONT_OR, 3, 1)
  /\ FrameIs(CONT_ACCUMULATE_ARG, 5, 1) /\ FrameIs(CONT_BIND_VAR, 5, 1)
  BY DEF FrameIs

LEMMA FoundByFrame ==
  ASSUME AllUpright, NEW c, NEW z, NEW x, FrameIs(c, z, x), Continues(c)
  PROVE  Registers(rm) /\ Balanced(rm) /\ promise.stack_size \in StackSizes /\ ~ done /\ rm.cont = c
  <1>1. c # CONT_ERROR BY FrameFacts
  <1> QED BY <1>1, FoundByCont DEF Continues

LEMMA ContDoneUpright ==
  ASSUME AllUpright, cont_done
  PROVE  AllUpright'
  <1>1. Continues(CONT_DONE) /\ ~ done /\ UNCHANGED <<promise, adrift>>
    BY DEF cont_done, Continues
  <1>2. Registers(rm) BY DEF AllUpright, Registers
  <1>3. CASE done' = TRUE /\ UNCHANGED <<rm, es>>
    <2>1. Registers(rm') BY <1>2, <1>3
    <2> QED BY <1>1, <1>3, <2>1, Stops
  <1>4. CASE Dispatch([rm EXCEPT !.exp = car(heap, rm.prg), !.prg = cdr(heap, rm.prg), !.env = NIL,
                                 !.argl = NIL, !.val = NIL, !.fun = NIL, !.S = <<>>])
    <2>1. PICK r : r = [rm EXCEPT !.exp = car(heap, rm.prg), !.prg = cdr(heap, rm.prg), !.env = NIL,
                                  !.argl = NIL, !.val = NIL, !.fun = NIL, !.S = <<>>]
      OBVIOUS
    <2>2. Registers(r) /\ r.S = <<>> /\ r.cont = rm.cont BY <1>2, <2>1 DEF Registers
    <2>3. rm.cont = CONT_DONE BY <1>1 DEF Continues
    <2>4. Len(<<>>) = 0 OBVIOUS
    <2>5. Balanced(r) BY <2>2, <2>3, <2>4, EmptyBacked DEF Balanced
    <2>6. Dispatch(r) BY <1>4, <2>1
    <2> QED BY <1>1, <2>2, <2>5, <2>6, GoesOn
  <1> QED BY <1>3, <1>4 DEF cont_done

LEMMA ContErrorUpright ==
  ASSUME AllUpright, cont_error
  PROVE  AllUpright'
  <1>1. done' /\ UNCHANGED promise BY DEF cont_error
  <1>2. Registers(rm) BY DEF AllUpright, Registers
  <1>3. DOMAIN rm' = DOMAIN rm BY DEF cont_error, Dispatch
  <1>4. Registers(rm') BY <1>2, <1>3 DEF Registers
  <1> QED BY <1>1, <1>4, Stops

LEMMA ContDefineUpright ==
  ASSUME AllUpright, cont_define
  PROVE  AllUpright'
  <1>1. Continues(CONT_DEFINE) /\ UNCHANGED <<promise, adrift>>
    BY DEF cont_define, others_ec
  <1>2. Registers(rm) /\ Balanced(rm) /\ ~ done /\ rm.cont = CONT_DEFINE
    BY <1>1, FrameSizes, FoundByFrame
  <1>3. PICK b, L, r : b = peek(0) /\ L = pop(2) /\ r = [rm EXCEPT !.cont = b, !.unev = peek(1), !.S = L]
    OBVIOUS
  <1>4. (\E v : Error(r, v)) \/ Continue([r EXCEPT !.val = r.unev])
    BY <1>3 DEF cont_define, OutOfCells
  <1>5. Registers(r) /\ r.S = L /\ r.cont = b BY <1>2, <1>3 DEF Registers
  <1>6. CASE \E v : Error(r, v) BY <1>1, <1>5, <1>6, GivesUp
  <1>7. CASE Continue([r EXCEPT !.val = r.unev])
    <2>1. PICK p : p = [r EXCEPT !.val = r.unev] OBVIOUS
    <2>2. Registers(p) /\ p.S = L /\ p.cont = b BY <1>5, <2>1 DEF Registers
    <2>3. ASSUME ~ adrift PROVE Backed(L, b, Len(L))
      <3>1. Backed(rm.S, CONT_DEFINE, Len(rm.S)) BY <1>2, <2>3 DEF Balanced
      <3>2. Len(rm.S) \in Nat BY <3>1, BackedIn
      <3>3. Backed(rm.S, rm.S[Len(rm.S) - 2 + 2], Len(rm.S) - 2) BY <3>1, FrameSizes, FrameOff
      <3>4. Len(rm.S) - 2 + 2 = Len(rm.S) - 0 BY <3>2
      <3>5. PICK n : n = Len(rm.S) - 2 OBVIOUS
      <3>6. Backed(rm.S, b, n) BY <1>3, <3>3, <3>4, <3>5 DEF peek
      <3>7. L = SubSeq(rm.S, 1, n) BY <1>3, <3>5 DEF pop
      <3> QED BY <3>6, <3>7, CutBacked
    <2>4. Balanced(p) BY <2>2, <2>3 DEF Balanced
    <2>5. Continue(p) BY <1>7, <2>1
    <2> QED BY <1>1, <1>2, <2>2, <2>4, <2>5, GoesOn
  <1> QED BY <1>4, <1>6, <1>7

\* A function is applied with its continuation on top of the stack.
LEMMA BearsTop ==
  ASSUME NEW S, NEW b, NEW n, Bears(S, b, n), Len(S) = n + 1
  PROVE  Backed(S, S[Len(S)], Len(S) - 1)
  <1>1. n \in Nat BY BackedIn DEF Bears
  <1>2. Len(S) - 1 = n /\ S[Len(S)] = b BY <1>1 DEF Bears
  <1>3. Backed(S, b, n) BY DEF Bears
  <1> QED BY <1>2, <1>3

LEMMA ContSetupNoArgApplyUpright ==
  ASSUME AllUpright, cont_setup_no_arg_apply
  PROVE  AllUpright'
  <1>1. Continues(CONT_SETUP_NO_ARG_APPLY) /\ UNCHANGED <<promise, adrift>>
    BY DEF cont_setup_no_arg_apply, others_ec
  <1>2. Registers(rm) BY <1>1, FrameSizes, FoundByFrame
  <1>3. es' = "EVAL_APPLY_DISPATCH" /\ Registers(rm') /\ rm'.S = rm.S
    BY <1>2 DEF cont_setup_no_arg_apply, Registers
  <1>4. ASSUME ~ adrift PROVE Backed(rm.S, rm.S[Len(rm.S)], Len(rm.S) - 1)
    <2>1. PICK b, n : b = peek(1 - 1) /\ n = Len(rm.S) - 1 OBVIOUS
    <2>2. Len(rm.S) \in Nat /\ Bears(rm.S, b, Len(rm.S) - 1)
      BY <1>1, <1>4, <2>1, FrameSizes, FrameFound
    <2>3. Bears(rm.S, b, n) /\ Len(rm.S) = n + 1 BY <2>1, <2>2
    <2> QED BY <2>3, BearsTop
  <1>5. ~ adrift' => Backed(rm'.S, rm'.S[Len(rm'.S)], Len(rm'.S) - 1)
    <2>1. SUFFICES ASSUME ~ adrift' PROVE Backed(rm'.S, rm'.S[Len(rm'.S)], Len(rm'.S) - 1)
      OBVIOUS
    <2>2. ~ adrift BY <1>1, <2>1
    <2> QED BY <1>3, <1>4, <2>2
  <1> QED BY <1>1, <1>3, <1>5, GoesToApply

LEMMA ContEvalArgsUpright ==
  ASSUME AllUpright, EcRoom, cont_eval_args
  PROVE  AllUpright'
  <1>1. Continues(CONT_EVAL_ARGS) /\ UNCHANGED <<promise, adrift>>
    BY DEF cont_eval_args, others_ec
  <1>2. Registers(rm) /\ ~ done /\ promise.stack_size \in StackSizes
    BY <1>1, FrameSizes, FoundByFrame
  <1>3. PICK J, one, L, r : /\ J = pop(2) /\ one = <<rm.val>> /\ L = push(J, one)
                            /\ r = [rm EXCEPT !.unev = peek(0), !.env = peek(1), !.fun = rm.val,
                                              !.S = L, !.argl = NIL]
    OBVIOUS
  <1>4. eval_arg_loop(heap, r) BY <1>3 DEF cont_eval_args
  <1>5. Registers(r) /\ r.S = L BY <1>2, <1>3 DEF Registers
  <1>6. PICK b, n : b = peek(3 - 1) /\ n = Len(rm.S) - 3 OBVIOUS
  <1>7. ASSUME ~ adrift
        PROVE  n \in Nat /\ Bears(r.S, b, n) /\ Len(r.S) = n + 2 /\ n + 5 <= promise.stack_size
    <2>1. n \in Nat /\ Bears(J, b, n) /\ Len(J) = n + 3 - 2
      BY <1>1, <1>3, <1>6, <1>7, FrameSizes, PopBears
    <2>2. Len(rm.S) \in Nat BY <1>1, <1>6, <1>7, FrameSizes, FrameFound
    <2>3. Len(rm.S) + 2 <= promise.stack_size BY <1>2, <2>2, RoomFor
    <2>4. n + 5 = Len(rm.S) + 2 BY <1>6, <2>2
    <2>5. n + 5 <= promise.stack_size BY <2>3, <2>4
    <2>6. IsSeq(one) /\ Len(one) = 1 BY <1>3, Tuples
    <2>7. Len(J) + Len(one) <= promise.stack_size
      <3>1. PICK m : m = promise.stack_size OBVIOUS
      <3>2. m \in Nat /\ n + 5 <= m BY <1>2, <2>5, <3>1 DEF StackSizes
      <3>3. Len(J) + Len(one) <= m BY <2>1, <2>6, <3>2
      <3> QED BY <3>1, <3>3
    <2>8. L = push(J, one) BY <1>3
    <2>9. Bears(L, b, n) /\ Len(L) = Len(J) + Len(one)
      BY <1>2, <2>1, <2>6, <2>7, <2>8, PushBears
    <2> QED BY <1>5, <2>1, <2>5, <2>6, <2>9
  <1> QED BY <1>1, <1>2, <1>4, <1>5, <1>7, ArgLoopUpright

LEMMA ContAccumulateArgUpright ==
  ASSUME AllUpright, EcRoom, cont_accumulate_arg
  PROVE  AllUpright'
  <1>1. Continues(CONT_ACCUMULATE_ARG) /\ UNCHANGED <<promise, adrift>>
    BY DEF cont_accumulate_arg, others_ec
  <1>2. Registers(rm) /\ ~ done /\ promise.stack_size \in StackSizes
    BY <1>1, FrameSizes, FoundByFrame
  <1>3. PICK L, r : /\ L = pop(3)
                    /\ r = [rm EXCEPT !.unev = peek(0), !.env = peek(1), !.argl = peek(2), !.S = L]
    OBVIOUS
  <1>4. \/ \E v : Error(r, v)
        \/ \E a : eval_arg_loop(heap', [r EXCEPT !.argl = a, !.unev = cdr(heap', r.unev)])
    BY <1>3 DEF cont_accumulate_arg, OutOfCells
  <1>5. Registers(r) /\ r.S = L BY <1>2, <1>3 DEF Registers
  <1>6. CASE \E v : Error(r, v) BY <1>1, <1>5, <1>6, GivesUp
  <1>7. ASSUME NEW a, eval_arg_loop(heap', [r EXCEPT !.argl = a, !.unev = cdr(heap', r.unev)])
        PROVE  AllUpright'
    <2>1. PICK q : q = [r EXCEPT !.argl = a, !.unev = cdr(heap', r.unev)] OBVIOUS
    <2>2. Registers(q) /\ q.S = L BY <1>5, <2>1 DEF Registers
    <2>3. eval_arg_loop(heap', q) BY <1>7, <2>1
    <2>4. PICK b, n : b = peek(5 - 1) /\ n = Len(rm.S) - 5 OBVIOUS
    <2>5. ASSUME ~ adrift
          PROVE  n \in Nat /\ Bears(q.S, b, n) /\ Len(q.S) = n + 2 /\ n + 5 <= promise.stack_size
      <3>1. n \in Nat /\ Bears(L, b, n) /\ Len(L) = n + 5 - 3
        <4>1. Continues(CONT_ACCUMULATE_ARG) /\ ~ adrift BY <1>1, <2>5
        <4>2. FrameIs(CONT_ACCUMULATE_ARG, 5, 1) BY FrameSizes
        <4>3. 3 \in 1 .. (5 - 1) OBVIOUS
        <4>4. b = peek(5 - 1) /\ L = pop(3) /\ n = Len(rm.S) - 5 BY <1>3, <2>4
        <4> QED BY <4>1, <4>2, <4>3, <4>4, PopBears, Zenon
      <3>2. Len(rm.S) \in Nat BY <1>1, <2>4, <2>5, FrameSizes, FrameFound
      <3>3. Len(rm.S) + 0 <= promise.stack_size BY <1>2, <3>2, RoomFor
      <3>4. n + 5 = Len(rm.S) + 0 BY <2>4, <3>2
      <3> QED BY <2>2, <3>1, <3>3, <3>4
    <2> QED BY <1>1, <1>2, <2>2, <2>3, <2>5, ArgLoopUpright
  <1> QED BY <1>4, <1>6, <1>7

LEMMA ContAccumulateLastArgUpright ==
  ASSUME AllUpright, cont_accumulate_last_arg
  PROVE  AllUpright'
  <1>1. Continues(CONT_ACCUMULATE_LAST_ARG) /\ UNCHANGED promise
    BY DEF cont_accumulate_last_arg
  <1>2. Registers(rm) /\ ~ done BY <1>1, FrameSizes, FoundByFrame
  <1>3. PICK K, L, r : K = pop(1) /\ L = pop(2) /\ r = [rm EXCEPT !.argl = peek(0), !.S = K] OBVIOUS
  <1>4. \/ \E v : Error(r, v)
        \/ /\ \E a, f, c, v : rm' = [r EXCEPT !.argl = a, !.fun = f, !.S = L, !.cont = c, !.val = v]
           /\ es' = "EVAL_APPLY_DISPATCH" /\ (adrift => adrift')
    <2>1. r = [rm EXCEPT !.argl = peek(0), !.S = pop(1)] BY <1>3
    <2>2. PICK argl, rev_args :
            IF argl.v = MERROR THEN OutOfCells(r)
            ELSE /\ rm' = [r EXCEPT !.argl = rev_args.v, !.fun = peek(1), !.S = pop(2),
                                    !.cont = IF rev_args.v = MERROR THEN CONT_DONE ELSE r.cont,
                                    !.val = IF rev_args.v = MERROR THEN MERROR ELSE r.val]
                 /\ es' = "EVAL_APPLY_DISPATCH"
                 /\ adrift' = (adrift \/ rev_args.v = MERROR)
      BY <2>1, ZenonT(40) DEF cont_accumulate_last_arg
    <2>3. CASE argl.v = MERROR BY <2>2, <2>3 DEF OutOfCells
    <2>4. CASE argl.v # MERROR
      <3>1. PICK c, v : /\ c = IF rev_args.v = MERROR THEN CONT_DONE ELSE r.cont
                        /\ v = IF rev_args.v = MERROR THEN MERROR ELSE r.val
        OBVIOUS
      <3>2. rm' = [r EXCEPT !.argl = rev_args.v, !.fun = peek(1), !.S = L, !.cont = c, !.val = v]
        BY <1>3, <2>2, <2>4, <3>1
      <3>3. es' = "EVAL_APPLY_DISPATCH" /\ (adrift => adrift') BY <2>2, <2>4
      <3> QED BY <3>2, <3>3
    <2> QED BY <2>3, <2>4
  <1>5. Registers(r) BY <1>2, <1>3 DEF Registers
  <1>6. CASE \E v : Error(r, v) BY <1>1, <1>5, <1>6, GivesUp
  <1>7. ASSUME NEW a, NEW f, NEW c, NEW v, es' = "EVAL_APPLY_DISPATCH", adrift => adrift',
               rm' = [r EXCEPT !.argl = a, !.fun = f, !.S = L, !.cont = c, !.val = v]
        PROVE  AllUpright'
    <2>1. Registers(rm') /\ rm'.S = L BY <1>5, <1>7 DEF Registers
    <2>2. PICK b, n : b = peek(3 - 1) /\ n = Len(rm.S) - 3 OBVIOUS
    <2>3. ASSUME ~ adrift PROVE Backed(L, L[Len(L)], Len(L) - 1)
      <3>1. n \in Nat /\ Bears(L, b, n) /\ Len(L) = n + 3 - 2
        <4>1. Continues(CONT_ACCUMULATE_LAST_ARG) /\ ~ adrift BY <1>1, <2>3
        <4>2. FrameIs(CONT_ACCUMULATE_LAST_ARG, 3, 1) BY FrameSizes
        <4>3. 2 \in 1 .. (3 - 1) OBVIOUS
        <4>4. b = peek(3 - 1) /\ L = pop(2) /\ n = Len(rm.S) - 3 BY <1>3, <2>2
        <4> QED BY <4>1, <4>2, <4>3, <4>4, PopBears, Zenon
      <3>2. Len(L) = n + 1 BY <3>1
      <3> QED BY <3>1, <3>2, BearsTop
    <2>4. ~ adrift' => Backed(rm'.S, rm'.S[Len(rm'.S)], Len(rm'.S) - 1)
      <3>1. SUFFICES ASSUME ~ adrift' PROVE Backed(L, L[Len(L)], Len(L) - 1) BY <2>1
      <3>2. ~ adrift BY <1>7, <3>1
      <3> QED BY <2>3, <3>2
    <2> QED BY <1>1, <1>7, <2>1, <2>4, GoesToApply
  <1> QED BY <1>4, <1>6, <1>7

LEMMA ContBranchUpright ==
  ASSUME AllUpright, cont_branch
  PROVE  AllUpright'
  <1>1. Continues(CONT_BRANCH) /\ UNCHANGED <<promise, adrift>>
    BY DEF cont_branch, others_ec
  <1>2. Registers(rm) /\ ~ done BY <1>1, FrameSizes, FoundByFrame
  <1>3. 3 - 1 = 2 OBVIOUS
  <1>4. PICK b, L, e, r : /\ b = peek(2) /\ L = pop(3)
                          /\ e = nth(peek(0), IF rm.val = NIL THEN 1 ELSE 0)
                          /\ r = [rm EXCEPT !.unev = peek(0), !.env = peek(1), !.cont = b, !.S = L,
                                            !.exp = e]
    OBVIOUS
  <1>5. Dispatch(r) BY <1>4 DEF cont_branch
  <1>6. Registers(r) /\ r.S = L /\ r.cont = b BY <1>2, <1>4 DEF Registers
  <1>7. ASSUME ~ adrift PROVE Backed(L, b, Len(L))
    <2>1. b = peek(3 - 1) BY <1>3, <1>4
    <2> QED BY <1>1, <1>4, <1>7, <2>1, FrameSizes, PopFrame
  <1>8. Balanced(r) BY <1>6, <1>7 DEF Balanced
  <1> QED BY <1>1, <1>2, <1>5, <1>6, <1>8, GoesOn

LEMMA ContBindVarUpright ==
  ASSUME AllUpright, EcRoom, cont_bind_var
  PROVE  AllUpright'
  <1>1. Continues(CONT_BIND_VAR) /\ UNCHANGED <<promise, adrift>>
    BY DEF cont_bind_var, others_ec
  <1>2. Registers(rm) /\ ~ done /\ promise.stack_size \in StackSizes
    BY <1>1, FrameSizes, FoundByFrame
  <1>3. PICK h, L, r : /\ h = heap' /\ L = pop(2)
                       /\ r = [rm EXCEPT !.unev = cdr(h, peek(0)), !.env = peek(1), !.S = L]
    OBVIOUS
  <1>4. eval_let_loop(h, r) BY <1>3 DEF cont_bind_var
  <1>5. Registers(r) /\ r.S = L BY <1>2, <1>3 DEF Registers
  <1>6. PICK e : \/ Dispatch([r EXCEPT !.exp = e, !.S = SubSeq(r.S, 1, Len(r.S) - 1),
                                       !.cont = CONT_END_LET])
                 \/ Dispatch([r EXCEPT !.exp = e, !.S = push(r.S, <<r.env, r.unev>>),
                                       !.cont = CONT_BIND_VAR])
    BY <1>4 DEF eval_let_loop
  <1>7. PICK b, n : b = peek(5 - 1) /\ n = Len(rm.S) - 5 OBVIOUS
  <1>8. ASSUME ~ adrift
        PROVE  n \in Nat /\ Bears(r.S, b, n) /\ Len(r.S) = n + 3 /\ n + 5 <= promise.stack_size
    <2>1. n \in Nat /\ Bears(L, b, n) /\ Len(L) = n + 5 - 2
      <3>1. L = pop(2) /\ 2 \in 1 .. (5 - 1) BY <1>3
      <3> QED BY <1>1, <1>7, <1>8, <3>1, FrameSizes, PopBears
    <2>2. Len(rm.S) \in Nat BY <1>1, <1>7, <1>8, FrameSizes, FrameFound
    <2>3. Len(rm.S) + 0 <= promise.stack_size BY <1>2, <2>2, RoomFor
    <2>4. n + 5 = Len(rm.S) + 0 BY <1>7, <2>2
    <2> QED BY <1>5, <2>1, <2>3, <2>4
  <1> QED BY <1>1, <1>2, <1>5, <1>6, <1>8, LetLoopUpright

LEMMA ContEndLetUpright ==
  ASSUME AllUpright, cont_end_let
  PROVE  AllUpright'
  <1>1. Continues(CONT_END_LET) /\ UNCHANGED <<promise, adrift>>
    BY DEF cont_end_let, others_ec
  <1>2. Registers(rm) /\ ~ done BY <1>1, FrameSizes, FoundByFrame
  <1>3. 2 - 1 = 1 OBVIOUS
  <1>4. PICK b, L, r : /\ b = peek(1) /\ L = pop(2)
                       /\ r = [rm EXCEPT !.env = peek(0), !.cont = b, !.S = L]
    OBVIOUS
  <1>5. Continue(r) BY <1>4 DEF cont_end_let
  <1>6. Registers(r) /\ r.S = L /\ r.cont = b BY <1>2, <1>4 DEF Registers
  <1>7. ASSUME ~ adrift PROVE Backed(L, b, Len(L))
    <2>1. b = peek(2 - 1) BY <1>3, <1>4
    <2> QED BY <1>1, <1>4, <1>7, <2>1, FrameSizes, PopFrame
  <1>8. Balanced(r) BY <1>6, <1>7 DEF Balanced
  <1> QED BY <1>1, <1>2, <1>5, <1>6, <1>8, GoesOn

\* and, or: the next operand has the frame of the one before.
NextOperand ==
  \E e, u : Dispatch([rm EXCEPT !.env = peek(1), !.exp = e, !.unev = u,
                                !.S = push(pop(2), <<peek(1), u>>)])
LastOperand ==
  Continue([rm EXCEPT !.unev = peek(0), !.env = peek(1), !.cont = peek(2), !.S = pop(3)])

LEMMA ContJunctionUpright ==
  ASSUME AllUpright, EcRoom, NEW c, FrameIs(c, 3, 1), Continues(c), UNCHANGED <<promise, adrift>>,
         LastOperand \/ NextOperand
  PROVE  AllUpright'
  <1>1. Registers(rm) /\ ~ done /\ promise.stack_size \in StackSizes /\ rm.cont = c
    BY FoundByFrame
  <1>2. 3 - 1 = 2 OBVIOUS
  <1>3. PICK b, n : b = peek(2) /\ n = Len(rm.S) - 3 OBVIOUS
  <1>4. b = peek(3 - 1) BY <1>2, <1>3
  <1>5. CASE LastOperand
    <2>1. PICK L, r : /\ L = pop(3)
                      /\ r = [rm EXCEPT !.unev = peek(0), !.env = peek(1), !.cont = b, !.S = L]
      OBVIOUS
    <2>2. Registers(r) /\ r.S = L /\ r.cont = b BY <1>1, <2>1 DEF Registers
    <2>3. ASSUME ~ adrift PROVE Backed(L, b, Len(L)) BY <1>4, <2>1, <2>3, PopFrame
    <2>4. Balanced(r) BY <2>2, <2>3 DEF Balanced
    <2>5. Continue(r) BY <1>3, <1>5, <2>1 DEF LastOperand
    <2> QED BY <1>1, <2>2, <2>4, <2>5, GoesOn
  <1>6. CASE NextOperand
    <2>1. PICK e, u, J, two, L, r :
            /\ J = pop(2) /\ two = <<peek(1), u>> /\ L = push(J, two) /\ Dispatch(r)
            /\ r = [rm EXCEPT !.env = peek(1), !.exp = e, !.unev = u, !.S = L]
      BY <1>6 DEF NextOperand
    <2>2. Registers(r) /\ r.S = L /\ r.cont = c BY <1>1, <2>1 DEF Registers
    <2>3. ASSUME ~ adrift PROVE Backed(L, c, Len(L))
      <3>1. n \in Nat /\ Bears(J, b, n) /\ Len(J) = n + 3 - 2 BY <1>3, <1>4, <2>1, <2>3, PopBears
      <3>2. Len(rm.S) \in Nat BY <1>4, <2>3, FrameFound
      <3>3. Len(rm.S) + 0 <= promise.stack_size BY <1>1, <3>2, RoomFor
      <3>4. n + 3 = Len(rm.S) + 0 BY <1>3, <3>2
      <3>5. n + 3 <= promise.stack_size BY <3>3, <3>4
      <3>6. IsSeq(two) /\ Len(two) = 2 BY <2>1, Tuples
      <3>7. Len(J) + Len(two) = n + 3 BY <3>1, <3>6
      <3>8. L = push(J, two) BY <2>1
      <3> QED BY <1>1, <3>1, <3>5, <3>6, <3>7, <3>8, RestOfFrame
    <2>4. Balanced(r) BY <2>2, <2>3 DEF Balanced
    <2>5. Dispatch(r) BY <2>1
    <2> QED BY <1>1, <2>2, <2>4, <2>5, GoesOn
  <1> QED BY <1>5, <1>6

LEMMA JunctionsUpright ==
  ASSUME AllUpright, EcRoom, cont_and \/ cont_or
  PROVE  AllUpright'
  <1>1. PICK c : FrameIs(c, 3, 1) /\ \E d : cont_junction(c, d)
    BY FrameSizes DEF cont_and, cont_or
  <1>2. Continues(c) /\ UNCHANGED <<promise, adrift>> BY <1>1 DEF cont_junction, others_ec
  <1>3. LastOperand \/ NextOperand
    <2>1. PICK q, e, u, L : /\ q = [rm EXCEPT !.unev = peek(0), !.env = peek(1)]
                            /\ e = car(heap, peek(0)) /\ u = cdr(heap, peek(0))
                            /\ L = push(pop(2), <<peek(1), u>>)
      OBVIOUS
    <2>2. \/ Continue([q EXCEPT !.cont = peek(2), !.S = pop(3)])
          \/ Dispatch([q EXCEPT !.exp = e, !.unev = u, !.S = L])
      BY <1>1, <2>1 DEF cont_junction
    <2>3. [q EXCEPT !.cont = peek(2), !.S = pop(3)]
          = [rm EXCEPT !.unev = peek(0), !.env = peek(1), !.cont = peek(2), !.S = pop(3)]
      BY <2>1
    <2>4. [q EXCEPT !.exp = e, !.unev = u, !.S = L]
          = [rm EXCEPT !.env = peek(1), !.exp = e, !.unev = u, !.S = L]
      BY <2>1
    <2>5. CASE Continue([q EXCEPT !.cont = peek(2), !.S = pop(3)])
      BY <2>3, <2>5 DEF LastOperand
    <2>6. CASE Dispatch([q EXCEPT !.exp = e, !.unev = u, !.S = L])
      BY <2>1, <2>4, <2>6 DEF NextOperand
    <2> QED BY <2>2, <2>5, <2>6
  <1> QED BY <1>1, <1>2, <1>3, ContJunctionUpright

(***************************************************************************)
(* EVAL_APPLY_DISPATCH                                                     *)
(***************************************************************************)
\* The function returns to the continuation on top of the stack.
LEMMA Returns ==
  ASSUME AllUpright, Applies, UNCHANGED promise, adrift => adrift', NEW r, Registers(r),
         NEW b, b = peek(0), NEW L, L = pop(1), r.cont = b, r.S = L, Dispatch(r) \/ Continue(r)
  PROVE  AllUpright'
  <1>1. ~ done BY DEF Applies
  <1>2. ASSUME ~ adrift PROVE Backed(L, b, Len(L))
    <2>1. Bears(rm.S, b, Len(rm.S) - 1) BY <1>2, FoundByApply
    <2>2. PICK n : n = Len(rm.S) - 1 OBVIOUS
    <2>3. L = SubSeq(rm.S, 1, n) BY <2>2 DEF pop
    <2>4. Bears(rm.S, b, n) BY <2>1, <2>2
    <2> QED BY <2>3, <2>4, CutFrame
  <1>3. Balanced(r) BY <1>2 DEF Balanced
  <1> QED BY <1>1, <1>3, GoesOn

LEMMA ApplyUpright ==
  ASSUME AllUpright, \/ eval_eval \/ eval_apply_fundamental \/ eval_apply_closure
                     \/ eval_apply_extension \/ eval_apply_unknown
  PROVE  AllUpright'
  <1>1. Applies /\ UNCHANGED promise /\ (adrift => adrift')
    <2>1. CASE eval_apply_fundamental
      <3>1. Applies /\ UNCHANGED promise BY <2>1 DEF eval_apply_fundamental
      <3>2. \E a, b : adrift' = (adrift \/ a \/ b)
        BY <2>1, Zenon DEF eval_apply_fundamental
      <3>3. ASSUME NEW a, NEW b, adrift' = (adrift \/ a \/ b) PROVE adrift => adrift' BY <3>3, Zenon
      <3> QED BY <3>1, <3>2, <3>3, Zenon
    <2>2. CASE eval_eval \/ eval_apply_closure \/ eval_apply_extension \/ eval_apply_unknown
      BY <2>2 DEF eval_eval, eval_apply_closure, eval_apply_extension, eval_apply_unknown, others_ec
    <2> QED BY <2>1, <2>2
  <1>2. Registers(rm) BY DEF AllUpright, Registers
  <1>3. PICK b, L : b = peek(0) /\ L = pop(1) OBVIOUS
  <1>4. CASE eval_eval
    <2>1. PICK r : r = [rm EXCEPT !.exp = car(heap, rm.argl), !.cont = b, !.S = L] OBVIOUS
    <2>2. Dispatch(r) BY <1>3, <1>4, <2>1 DEF eval_eval
    <2>3. Registers(r) /\ r.cont = b /\ r.S = L BY <1>2, <2>1 DEF Registers
    <2> QED BY <1>1, <1>3, <2>2, <2>3, Returns
  <1>5. CASE eval_apply_fundamental
    <2>1. PICK J : J = push(rm.S, elements(heap, rm.argl)) OBVIOUS
    <2>2. \/ \E v : Error([rm EXCEPT !.S = J], v)
          \/ \E v : Continue([rm EXCEPT !.val = v, !.cont = peek(0), !.S = pop(1)])
      BY <1>5, <2>1 DEF eval_apply_fundamental, OutOfCells
    <2>3. CASE \E v : Error([rm EXCEPT !.S = J], v)
      <3>1. PICK r : r = [rm EXCEPT !.S = J] OBVIOUS
      <3>2. Registers(r) BY <1>2, <3>1 DEF Registers
      <3> QED BY <1>1, <2>3, <3>1, <3>2, GivesUp
    <2>4. ASSUME NEW v, Continue([rm EXCEPT !.val = v, !.cont = peek(0), !.S = pop(1)])
          PROVE  AllUpright'
      <3>1. PICK r : r = [rm EXCEPT !.val = v, !.cont = b, !.S = L] OBVIOUS
      <3>2. Continue(r) BY <1>3, <2>4, <3>1
      <3>3. Registers(r) /\ r.cont = b /\ r.S = L BY <1>2, <3>1 DEF Registers
      <3> QED BY <1>1, <1>3, <3>2, <3>3, Returns
    <2> QED BY <2>2, <2>3, <2>4
  <1>6. CASE eval_apply_closure
    <2>1. \/ \E v : Error(rm, v)
          \/ \E v : Dispatch([rm EXCEPT !.env = v, !.exp = caddr(heap', rm.fun), !.cont = peek(0), !.S = pop(1)])
      BY <1>6 DEF eval_apply_closure, OutOfCells
    <2>2. CASE \E v : Error(rm, v) BY <1>1, <1>2, <2>2, GivesUp
    <2>3. ASSUME NEW v, Dispatch([rm EXCEPT !.env = v, !.exp = caddr(heap', rm.fun), !.cont = peek(0),
                                            !.S = pop(1)])
          PROVE  AllUpright'
      <3>1. PICK r : r = [rm EXCEPT !.env = v, !.exp = caddr(heap', rm.fun), !.cont = b, !.S = L] OBVIOUS
      <3>2. Dispatch(r) BY <1>3, <2>3, <3>1
      <3>3. Registers(r) /\ r.cont = b /\ r.S = L BY <1>2, <3>1 DEF Registers
      <3> QED BY <1>1, <1>3, <3>2, <3>3, Returns
    <2> QED BY <2>1, <2>2, <2>3
  <1>7. CASE eval_apply_extension
    <2>1. PICK v, r : /\ v = ext_fun(elements(heap, rm.argl))
                      /\ r = [rm EXCEPT !.val = v, !.cont = b, !.S = L]
      OBVIOUS
    <2>2. Continue(r) BY <1>3, <1>7, <2>1 DEF eval_apply_extension
    <2>3. Registers(r) /\ r.cont = b /\ r.S = L BY <1>2, <2>1 DEF Registers
    <2> QED BY <1>1, <1>3, <2>2, <2>3, Returns
  <1>8. CASE eval_apply_unknown BY <1>1, <1>2, <1>8, GivesUp DEF eval_apply_unknown
  <1> QED BY <1>4, <1>5, <1>6, <1>7, <1>8

(***************************************************************************)
(* The theorem                                                             *)
(***************************************************************************)
LEMMA EcNextUpright ==
  ASSUME AllUpright, EcRoom, EcNext
  PROVE  AllUpright'
  <1>1. CASE eval_self_evaluating \/ eval_variable \/ eval_quoted \/ eval_lambda
    BY <1>1, ValueUpright
  <1>2. CASE eval_no_args \/ eval_application \/ eval_if \/ eval_and \/ eval_or
    BY <1>2, PushUpright
  <1>3. CASE eval_define BY <1>3, DefineUpright
  <1>4. CASE eval_progn BY <1>4, PrognUpright
  <1>5. CASE eval_let BY <1>5, LetUpright
  <1>6. CASE cont_done BY <1>6, ContDoneUpright
  <1>7. CASE cont_error BY <1>7, ContErrorUpright
  <1>8. CASE cont_define BY <1>8, ContDefineUpright
  <1>9. CASE cont_setup_no_arg_apply BY <1>9, ContSetupNoArgApplyUpright
  <1>10. CASE cont_eval_args BY <1>10, ContEvalArgsUpright
  <1>11. CASE cont_accumulate_arg BY <1>11, ContAccumulateArgUpright
  <1>12. CASE cont_accumulate_last_arg BY <1>12, ContAccumulateLastArgUpright
  <1>13. CASE cont_sequence BY <1>13, ContSequenceUpright
  <1>14. CASE cont_branch BY <1>14, ContBranchUpright
  <1>15. CASE cont_bind_var BY <1>15, ContBindVarUpright
  <1>16. CASE cont_end_let BY <1>16, ContEndLetUpright
  <1>17. CASE cont_and \/ cont_or BY <1>17, JunctionsUpright
  <1>18. CASE \/ eval_eval \/ eval_apply_fundamental \/ eval_apply_closure
              \/ eval_apply_extension \/ eval_apply_unknown
    BY <1>18, ApplyUpright
  <1> QED
    BY <1>1, <1>2, <1>3, <1>4, <1>5, <1>6, <1>7, <1>8, <1>9, <1>10, <1>11, <1>12, <1>13, <1>14,
       <1>15, <1>16, <1>17, <1>18 DEF EcNext

LEMMA EcInitUpright ==
  ASSUME BothInit
  PROVE  AllUpright
  <1>1. promise.stack_size \in StackSizes
    <2>1. PICK im \in Images :
            promise = [field \in DOMAIN im \ {"heap", "env"} |-> im[field]]
      BY DEF BothInit, Init, Loaded
    <2>2. "stack_size" \in DOMAIN im \ {"heap", "env"} /\ im.stack_size \in StackSizes
      BY StackSizeAssumption
    <2> QED BY <2>1, <2>2
  <1>2. /\ {"cont", "S"} \subseteq DOMAIN rm /\ rm.cont = CONT_DONE /\ rm.S = <<>>
        /\ es = "EVAL_DISPATCH"
    BY DEF BothInit, EcInit
  <1>3. Len(<<>>) = 0 OBVIOUS
  <1>4. Backed(rm.S, rm.cont, Len(rm.S)) BY <1>2, <1>3, EmptyBacked
  <1> QED BY <1>1, <1>2, <1>4 DEF AllUpright, Upright

\* No step of the CPS evaluator changes the size of the stack.
LEMMA PromiseKept ==
  ASSUME Next
  PROVE  UNCHANGED promise
  <1>1. CASE UNCHANGED others BY <1>1 DEF others
  <1>2. CASE OutOfMemory BY <1>2 DEF OutOfMemory
  <1>3. CASE ContSetGlobalEnv BY <1>3 DEF ContSetGlobalEnv
  <1>4. CASE ContSpawnAll BY <1>4 DEF ContSpawnAll
  <1>5. CASE ContApplicationArgs BY <1>5 DEF ContApplicationArgs
  <1> QED BY <1>1, <1>2, <1>3, <1>4, <1>5, OthersKept

\* Whatever the program and the heap, as long as the stack has room for what a
\* handler pushes (which ec_eval.c never asks), it is made of whole frames, each with
\* the continuation of the one below it, down to CONT_DONE: every handler of
\* ec_eval.c:103-582 pops exactly what the one that set its continuation pushed,
\* whether or not it had to collect; as long as none goes on with what it did not get.
THEOREM EcFramesCorrect == BothSpec /\ []EcRoom => []EcStackOfFrames
  <1>1. BothInit => AllUpright BY EcInitUpright
  <1>2. AllUpright /\ EcRoom /\ [BothNext]_all_vars => AllUpright'
    <2> SUFFICES ASSUME AllUpright, EcRoom, [BothNext]_all_vars PROVE AllUpright' OBVIOUS
    <2>1. CASE UNCHANGED <<promise, ec_only>>
      <3>1. UNCHANGED <<promise, rm, es, done, adrift>> BY <2>1 DEF ec_only
      <3> QED BY <3>1 DEF AllUpright, Upright
    <2>2. CASE Next /\ UNCHANGED ec_only BY <2>1, <2>2, PromiseKept
    <2>3. CASE EcNext BY <2>3, EcNextUpright
    <2>4. UNCHANGED all_vars => UNCHANGED <<promise, ec_only>> BY DEF all_vars, vars
    <2> QED BY <2>1, <2>2, <2>3, <2>4 DEF BothNext
  <1>3. AllUpright => EcStackOfFrames BY AllUprightSays
  <1> QED BY <1>1, <1>2, <1>3, PTL DEF BothSpec
=============================================================================
