-------------------------- MODULE Language_proofs --------------------------
(***************************************************************************)
(* What the operations that both evaluators are built from do to the heap: *)
(* cons, set_cdr, gc and the functions of env.c and fundamental.c.  Each   *)
(* of them, given VALUEs that lead to no free cell, leaves a heap in which *)
(* its result and everything else that led to no free cell still do not.   *)
(***************************************************************************)
EXTENDS Language, FiniteSetTheorems, WellFoundedInduction, TLAPS

(***************************************************************************)
(* Sequences of anything                                                   *)
(***************************************************************************)
IsSeq(s) == \E S : s \in Seq(S)

LEMMA CutSeq ==
  ASSUME NEW s, IsSeq(s), NEW n, n \in 0 .. Len(s)
  PROVE  /\ IsSeq(SubSeq(s, 1, n)) /\ Len(SubSeq(s, 1, n)) = n
         /\ \A k \in 1 .. n : SubSeq(s, 1, n)[k] = s[k]
  <1>1. PICK S : s \in Seq(S) BY DEF IsSeq
  <1>2. Len(s) \in Nat /\ \A k \in 1 .. Len(s) : s[k] \in S BY <1>1
  <1> QED BY <1>1, <1>2 DEF IsSeq

LEMMA JoinSeq ==
  ASSUME NEW s, IsSeq(s), NEW t, IsSeq(t)
  PROVE  /\ IsSeq(s \o t) /\ Len(s) \in Nat /\ Len(t) \in Nat /\ Len(s \o t) = Len(s) + Len(t)
         /\ \A k \in 1 .. Len(s) : (s \o t)[k] = s[k]
         /\ \A k \in 1 .. Len(t) : (s \o t)[Len(s) + k] = t[k]
  <1>1. PICK S : s \in Seq(S) BY DEF IsSeq
  <1>2. PICK T0 : t \in Seq(T0) BY DEF IsSeq
  <1>3. PICK U : U = S \cup T0 OBVIOUS
  <1>4. s \in Seq(U) /\ t \in Seq(U) BY <1>1, <1>2, <1>3
  <1>5. s \o t \in Seq(U) BY <1>4
  <1> QED BY <1>4, <1>5 DEF IsSeq

\* L is s followed by t.
IsJoin(L, s, t) ==
  /\ IsSeq(L) /\ Len(s) \in Nat /\ Len(t) \in Nat /\ Len(L) = Len(s) + Len(t)
  /\ \A k \in 1 .. Len(s) : L[k] = s[k]
  /\ \A k \in 1 .. Len(t) : L[Len(s) + k] = t[k]

LEMMA JoinIs == ASSUME NEW s, IsSeq(s), NEW t, IsSeq(t) PROVE IsJoin(s \o t, s, t)
  <1>1. PICK L : L = s \o t OBVIOUS
  <1>2. PICK S : s \in Seq(S) BY DEF IsSeq
  <1>3. PICK T0 : t \in Seq(T0) BY DEF IsSeq
  <1>4. PICK U : U = S \cup T0 OBVIOUS
  <1>5. s \in Seq(U) /\ t \in Seq(U) BY <1>2, <1>3, <1>4
  <1>6. L \in Seq(U) BY <1>1, <1>5
  <1>7. IsSeq(L) BY <1>6 DEF IsSeq
  <1>8. Len(s) \in Nat /\ Len(t) \in Nat /\ Len(L) = Len(s) + Len(t) BY <1>1, <1>5
  <1>9. \A k \in 1 .. Len(s) : L[k] = s[k] BY <1>1, <1>5
  <1>10. \A k \in 1 .. Len(t) : L[Len(s) + k] = t[k] BY <1>1, <1>5
  <1>11. IsJoin(L, s, t) BY <1>7, <1>8, <1>9, <1>10, Zenon DEF IsJoin
  <1> QED BY <1>1, <1>11, Zenon

LEMMA Joined ==
  ASSUME NEW s, IsSeq(s), NEW t, IsSeq(t), NEW L, L = s \o t
  PROVE  Len(t) \in Nat /\ \A k \in 1 .. Len(t) : L[Len(s) + k] = t[k]
  <1>1. IsJoin(L, s, t) BY JoinIs, Zenon
  <1> QED BY <1>1, Zenon DEF IsJoin

LEMMA SeqIn == ASSUME NEW S, NEW s \in Seq(S) PROVE IsSeq(s)
  BY DEF IsSeq

(***************************************************************************)
(* Induction up to a bound, in the form of a statement about a set         *)
(***************************************************************************)
LEMMA LeastNat ==
  ASSUME NEW S, S \subseteq Nat, S # {}
  PROVE  \E x \in S : \A y \in S : x <= y
  <1>1. PICK R : IsWellFoundedOn(R, Nat) /\ \A x, y \in Nat : y < x => <<y, x>> \in R
    <2>1. \A x, y \in Nat : y < x => <<y, x>> \in OpToRel(<, Nat) BY DEF OpToRel
    <2> QED BY <2>1, NatLessThanWellFounded, Zenon
  <1>2. PICK x \in S : \A y \in S : ~ (<<y, x>> \in R)
    <2>1. S \in SUBSET Nat OBVIOUS
    <2> QED BY <1>1, <2>1, WFMin
  <1>3. ASSUME NEW y \in S PROVE x <= y
    <2>1. x \in Nat /\ y \in Nat OBVIOUS
    <2>2. ~ (y < x) BY <1>1, <1>2, <2>1
    <2> QED BY <2>1, <2>2
  <1> QED BY <1>3

LEMMA Upto ==
  ASSUME NEW n \in Nat, NEW S, 0 \in S, \A m \in 0 .. n - 1 : m \in S => m + 1 \in S
  PROVE  \A m \in 0 .. n : m \in S
  <1> DEFINE Bad == {m \in 0 .. n : m \notin S}
  <1> SUFFICES ASSUME Bad # {} PROVE FALSE OBVIOUS
  <1>1. Bad \subseteq Nat OBVIOUS
  <1>2. PICK m \in Bad : \A k \in Bad : m <= k
    <2> HIDE DEF Bad
    <2> QED BY <1>1, LeastNat
  <1>3. m # 0 /\ m - 1 \in 0 .. n - 1 /\ m - 1 \notin Bad BY <1>2
  <1>4. m - 1 \in S /\ (m - 1) + 1 = m BY <1>3
  <1> QED BY <1>2, <1>3, <1>4

(***************************************************************************)
(* The cells that VALUEs lead to                                           *)
(***************************************************************************)
Succ(h, S) == S \cup Cells({h.car[c] : c \in S} \cup {h.cdr[c] : c \in S})
\* Nothing leads out of S.
Shut(h, S) == S \in SUBSET Cell /\ Succ(h, S) = S
LeadsTo(h, S) == {c \in Cell : \A X \in SUBSET Cell : S \subseteq X /\ Shut(h, X) => c \in X}
GrowBody(h, g, S) == IF Succ(h, S) = S THEN S ELSE g[Succ(h, S)]

\* Every pointer leads into the heap.
Within(h) == \A c \in Cell : InHeap(h.car[c]) /\ InHeap(h.cdr[c])

LEMMA SuccIn ==
  ASSUME NEW h, Within(h), NEW S \in SUBSET Cell
  PROVE  Succ(h, S) \in SUBSET Cell /\ S \subseteq Succ(h, S)
  BY DEF Within, InHeap, Succ, Cells

LEMMA SuccGrows ==
  ASSUME NEW h, NEW S, NEW X, S \subseteq X, Succ(h, X) = X
  PROVE  Succ(h, S) \subseteq X
  BY DEF Succ, Cells

LEMMA SuccLeadsTo ==
  ASSUME NEW h, Within(h), NEW S \in SUBSET Cell
  PROVE  LeadsTo(h, Succ(h, S)) = LeadsTo(h, S)
  <1>1. \A X \in SUBSET Cell : Shut(h, X) => (S \subseteq X <=> Succ(h, S) \subseteq X)
    BY SuccIn, SuccGrows DEF Shut
  <1> QED BY <1>1 DEF LeadsTo

LEMMA GrowExists ==
  ASSUME NEW h, Within(h)
  PROVE  \E g : g = [S \in SUBSET Cell |-> GrowBody(h, g, S)]
  <1>1. PICK g : g = [S \in SUBSET Cell |-> LeadsTo(h, S)] OBVIOUS
  <1>2. ASSUME NEW S \in SUBSET Cell PROVE LeadsTo(h, S) = GrowBody(h, g, S)
    <2>1. CASE Succ(h, S) = S
      <3>1. Shut(h, S) BY <2>1 DEF Shut
      <3>2. LeadsTo(h, S) = S BY <3>1 DEF LeadsTo
      <3> QED BY <2>1, <3>2 DEF GrowBody
    <2>2. CASE Succ(h, S) # S
      <3>1. Succ(h, S) \in SUBSET Cell BY SuccIn
      <3>2. g[Succ(h, S)] = LeadsTo(h, S) BY <1>1, <3>1, SuccLeadsTo
      <3> QED BY <2>2, <3>2 DEF GrowBody
    <2> QED BY <2>1, <2>2
  <1> QED BY <1>1, <1>2

LEMMA CellFinite == IsFiniteSet(Cell)
  BY HeapSizeAssumption, FS_Interval DEF Cell

\* Any function that grow may be yields the same.
LEMMA GrowIs ==
  ASSUME NEW h, Within(h), NEW g, g = [S \in SUBSET Cell |-> GrowBody(h, g, S)]
  PROVE  \A S \in SUBSET Cell : g[S] = LeadsTo(h, S)
  <1> DEFINE Left(S) == Cardinality(Cell \ S)
             Bad == {S \in SUBSET Cell : g[S] # LeadsTo(h, S)}
             Sizes == {Left(S) : S \in Bad}
  <1>1. \A S \in SUBSET Cell : Left(S) \in Nat /\ IsFiniteSet(Cell \ S)
    BY CellFinite, FS_Subset, FS_CardinalityType
  <1> SUFFICES ASSUME Bad # {} PROVE FALSE OBVIOUS
  <1>2. Sizes \subseteq Nat /\ Sizes # {} BY <1>1
  <1>3. PICK n \in Sizes : \A m \in Sizes : n <= m
    <2> HIDE DEF Sizes
    <2> QED BY <1>2, LeastNat
  <1>4. PICK S \in Bad : n = Left(S) OBVIOUS
  <1>5. g[S] = GrowBody(h, g, S) OBVIOUS
  <1>6. CASE Succ(h, S) = S
    <2>1. Shut(h, S) BY <1>6 DEF Shut
    <2>2. LeadsTo(h, S) = S BY <2>1 DEF LeadsTo
    <2> QED BY <1>5, <1>6, <2>2 DEF GrowBody
  <1>7. CASE Succ(h, S) # S
    <2>1. PICK G : G = Succ(h, S) OBVIOUS
    <2>2. G \in SUBSET Cell /\ S \subseteq G /\ G # S BY <1>7, <2>1, SuccIn
    <2>3. LeadsTo(h, G) = LeadsTo(h, S) BY <2>1, SuccLeadsTo
    <2>4. g[S] = g[G] BY <1>5, <1>7, <2>1 DEF GrowBody
    <2>5. G \in Bad BY <2>2, <2>3, <2>4
    <2>6. Left(G) < Left(S)
      <3>1. PICK A, B : A = Cell \ G /\ B = Cell \ S OBVIOUS
      <3>2. A \in SUBSET B /\ A # B BY <2>2, <3>1
      <3>3. IsFiniteSet(B) /\ Cardinality(A) \in Nat /\ Cardinality(B) \in Nat BY <1>1, <2>2, <3>1
      <3>4. Cardinality(A) <= Cardinality(B) /\ Cardinality(A) # Cardinality(B)
        BY <3>2, <3>3, FS_Subset
      <3>5. Cardinality(A) < Cardinality(B) BY <3>3, <3>4
      <3> QED BY <3>1, <3>5
    <2>7. Left(G) \in Sizes /\ Left(G) \in Nat /\ Left(S) \in Nat BY <1>1, <2>5
    <2>8. n <= Left(G) BY <1>3, <2>7
    <2> HIDE DEF Left
    <2> QED BY <1>4, <2>6, <2>7, <2>8
  <1> QED BY <1>6, <1>7

\* What Reachable computes.
LEMMA ReachableIs ==
  ASSUME NEW h, Within(h), NEW vs, \A v \in vs : InHeap(v)
  PROVE  /\ Reachable(h, vs) \in SUBSET Cell
         /\ Cells(vs) \subseteq Reachable(h, vs) /\ Succ(h, Reachable(h, vs)) = Reachable(h, vs)
         /\ \A X \in SUBSET Cell : Cells(vs) \subseteq X /\ Succ(h, X) = X => Reachable(h, vs) \subseteq X
  <1>1. PICK g : g = CHOOSE f : f = [S \in SUBSET Cell |-> GrowBody(h, f, S)] OBVIOUS
  <1>2. g = [S \in SUBSET Cell |-> GrowBody(h, g, S)] BY <1>1, GrowExists
  <1>3. Cells(vs) \in SUBSET Cell BY DEF Cells, InHeap
  <1>4. Reachable(h, vs) = g[Cells(vs)] BY <1>1 DEF Reachable, GrowBody, Succ
  <1>5. PICK R : R = LeadsTo(h, Cells(vs)) OBVIOUS
  <1>6. Reachable(h, vs) = R BY <1>2, <1>3, <1>4, <1>5, GrowIs
  <1>7. R \in SUBSET Cell /\ Cells(vs) \subseteq R BY <1>3, <1>5 DEF LeadsTo
  <1>8. Succ(h, R) \subseteq R
    <2> SUFFICES ASSUME NEW X \in SUBSET Cell, Cells(vs) \subseteq X, Shut(h, X)
                 PROVE  Succ(h, R) \subseteq X
      <3>1. Succ(h, R) \in SUBSET Cell BY <1>7, SuccIn
      <3> QED BY <1>5, <3>1 DEF LeadsTo
    <2>1. R \subseteq X BY <1>5 DEF LeadsTo
    <2> QED BY <2>1, SuccGrows DEF Shut
  <1>9. Succ(h, R) = R BY <1>7, <1>8, SuccIn
  <1>10. \A X \in SUBSET Cell : Cells(vs) \subseteq X /\ Succ(h, X) = X => R \subseteq X
    BY <1>5 DEF LeadsTo, Shut
  <1> QED BY <1>6, <1>7, <1>9, <1>10

(***************************************************************************)
(* The free list                                                           *)
(***************************************************************************)
Listed(fl) == {fl[i] : i \in 1 .. Len(fl)}

\* F are the free cells of h, and nothing in use leads to one of them.
Sound(h, F) == SoundHeap(h, F) /\ \E fl : FreeListIs(h, fl) /\ F = Listed(fl)

LEMMA Pointers ==
  /\ \A s : ~ is_ptr(sym(s)) /\ type_of(sym(s)) = "SYM"
  /\ ~ is_ptr(NIL) /\ ~ is_ptr(MERROR) /\ ~ is_ptr(FATAL_ERROR) /\ ~ is_ptr(TERROR) /\ ~ is_ptr(RECOVERED)
  /\ \A c : is_ptr(enc_cons_ptr(c)) /\ dec_ptr(enc_cons_ptr(c)) = c
            /\ type_of(enc_cons_ptr(c)) = "CONS" /\ enc_cons_ptr(c) # NIL
  BY DEF is_ptr, PtrType, type_of, sym, NIL, MERROR, FATAL_ERROR, TERROR, RECOVERED, enc_cons_ptr,
         dec_ptr

\* The same without the last part: cells in use may lead to free ones.
Well(h, F) ==
  /\ DOMAIN h = {"car", "cdr", "mark", "freelist", "num_alloc"}
  /\ DOMAIN h.car = Cell /\ DOMAIN h.cdr = Cell /\ h.mark = [c \in Cell |-> FALSE]
  /\ Within(h) /\ \E fl : FreeListIs(h, fl) /\ F = Listed(fl)

LEMMA SoundIsWell ==
  ASSUME NEW h, NEW F
  PROVE  Sound(h, F) <=> Well(h, F) /\ \A c \in Cell \ F : Kept(F, h.car[c]) /\ Kept(F, h.cdr[c])
  BY DEF Sound, SoundHeap, Well, Within

LEMMA WellIn ==
  ASSUME NEW h, NEW F, Well(h, F)
  PROVE  F \in SUBSET Cell /\ Within(h)
  BY DEF Well, FreeListIs, Listed

LEMMA SoundIn ==
  ASSUME NEW h, NEW F, Sound(h, F)
  PROVE  F \in SUBSET Cell /\ Within(h)
  <1>1. PICK fl : FreeListIs(h, fl) /\ F = Listed(fl) BY DEF Sound
  <1>2. F \in SUBSET Cell BY <1>1 DEF FreeListIs, Listed
  <1>3. Within(h) BY DEF Sound, SoundHeap, Within
  <1> QED BY <1>2, <1>3

\* Less is free, more is kept.
LEMMA KeptMore ==
  ASSUME NEW F, NEW E, E \subseteq F, NEW v, Kept(F, v)
  PROVE  Kept(E, v)
  BY DEF Kept

LEMMA KeptIn ==
  ASSUME NEW F, NEW v, Kept(F, v)
  PROVE  InHeap(v)
  BY DEF Kept, InHeap

LEMMA KeptSym == \A F, s : Kept(F, sym(s)) /\ Kept(F, NIL) /\ InHeap(NIL)
  BY Pointers DEF Kept, InHeap

\* FreeCells finds the free list.
LEMMA FreeCellsAre ==
  ASSUME NEW h, NEW F, Well(h, F)
  PROVE  FreeCells(h) = F
  <1>1. PICK fl : FreeListIs(h, fl) /\ F = Listed(fl) BY DEF Well
  <1>2. PICK n : n = Len(fl) OBVIOUS
  <1>3. n \in Nat /\ \A i \in 1 .. n : fl[i] \in Cell BY <1>1, <1>2 DEF FreeListIs
  <1>4. PICK H : H = [h EXCEPT !.car = h.cdr] OBVIOUS
  <1>5. H.car = h.cdr /\ H.cdr = h.cdr BY <1>4 DEF Well
  <1>6. Within(H) BY <1>5, WellIn DEF Within
  <1>7. h.freelist = IF n = 0 THEN NIL ELSE enc_cons_ptr(fl[n]) BY <1>1, <1>2 DEF FreeListIs
  <1>8. \A i \in 1 .. n : h.cdr[fl[i]] = IF i = 1 THEN NIL ELSE enc_cons_ptr(fl[i - 1])
    BY <1>1, <1>2 DEF FreeListIs
  <1>9. PICK R : R = Reachable(H, {h.freelist}) OBVIOUS
  <1>10. \A v \in {h.freelist} : InHeap(v) BY <1>3, <1>7, Pointers DEF InHeap
  <1>11. /\ R \in SUBSET Cell /\ Cells({h.freelist}) \subseteq R /\ Succ(H, R) = R
         /\ \A X \in SUBSET Cell : Cells({h.freelist}) \subseteq X /\ Succ(H, X) = X => R \subseteq X
    BY <1>6, <1>9, <1>10, ReachableIs
  <1>12. F = {fl[i] : i \in 1 .. n} BY <1>1, <1>2 DEF Listed
  <1>13. Cells({h.freelist}) \subseteq F BY <1>3, <1>7, <1>12, Pointers DEF Cells
  <1>14. \A c \in F : is_ptr(h.cdr[c]) => dec_ptr(h.cdr[c]) \in F
    <2> SUFFICES ASSUME NEW i \in 1 .. n, is_ptr(h.cdr[fl[i]]) PROVE dec_ptr(h.cdr[fl[i]]) \in F
      BY <1>12
    <2>1. i # 1 /\ h.cdr[fl[i]] = enc_cons_ptr(fl[i - 1]) BY <1>8, Pointers
    <2>2. i - 1 \in 1 .. n BY <1>3, <2>1
    <2> QED BY <1>12, <2>1, <2>2, Pointers
  <1>15. R \subseteq F
    <2>1. Succ(H, F) = F BY <1>5, <1>14 DEF Succ, Cells
    <2> QED BY <1>11, <1>13, <2>1, WellIn
  <1>16. F \subseteq R
    <2>1. CASE n = 0 BY <1>12, <2>1
    <2>2. CASE n # 0
      <3> DEFINE S == {k \in 0 .. n - 1 : fl[n - k] \in R}
      <3>1. 0 \in S
        <4>1. h.freelist = enc_cons_ptr(fl[n]) BY <1>7, <2>2
        <4>2. fl[n] \in R BY <1>11, <4>1, Pointers DEF Cells
        <4> QED BY <1>3, <2>2, <4>2
      <3>2. ASSUME NEW k \in 0 .. (n - 1) - 1, k \in S PROVE k + 1 \in S
        <4>1. n - k \in 1 .. n /\ n - k # 1 /\ n - (k + 1) = (n - k) - 1 /\ k + 1 \in 0 .. n - 1
          BY <1>3, <2>2
        <4>2. h.cdr[fl[n - k]] = enc_cons_ptr(fl[n - (k + 1)]) BY <1>8, <4>1
        <4>3. fl[n - k] \in R BY <3>2
        <4>4. fl[n - (k + 1)] \in R
          BY <1>5, <1>11, <4>2, <4>3, Pointers DEF Succ, Cells
        <4> QED BY <4>1, <4>4
      <3>3. n - 1 \in Nat BY <1>3, <2>2
      <3>4. \A k \in 0 .. n - 1 : k \in S
        <4> HIDE DEF S
        <4> QED BY <3>1, <3>2, <3>3, Upto
      <3>5. ASSUME NEW i \in 1 .. n PROVE fl[i] \in R
        <4>1. n - i \in 0 .. n - 1 /\ n - (n - i) = i BY <1>3
        <4> QED BY <3>4, <4>1
      <3> QED BY <1>12, <3>5
    <2> QED BY <2>1, <2>2
  <1> QED BY <1>4, <1>9, <1>15, <1>16 DEF FreeCells

\* What leads to no free cell in one step does not in many.
LEMMA KeptReach ==
  ASSUME NEW h, NEW F, Sound(h, F), NEW vs, \A v \in vs : Kept(F, v)
  PROVE  Reachable(h, vs) \cap FreeCells(h) = {}
  <1>1. Within(h) /\ F \in SUBSET Cell BY SoundIn
  <1>2. \A v \in vs : InHeap(v) BY KeptIn
  <1>3. PICK X : X = Cell \ F OBVIOUS
  <1>4. Cells(vs) \subseteq X BY <1>3 DEF Cells, Kept
  <1>5. \A c \in X : Kept(F, h.car[c]) /\ Kept(F, h.cdr[c]) BY <1>3 DEF Sound, SoundHeap
  <1>6. Succ(h, X) = X BY <1>3, <1>5 DEF Succ, Cells, Kept
  <1>7. Reachable(h, vs) \subseteq X BY <1>1, <1>2, <1>3, <1>4, <1>6, ReachableIs
  <1> QED BY <1>3, <1>7, FreeCellsAre, SoundIsWell

(***************************************************************************)
(* Single operations                                                       *)
(***************************************************************************)
LEMMA CarKept ==
  ASSUME NEW h, NEW F, Sound(h, F), NEW v, Kept(F, v)
  PROVE  Kept(F, car(h, v)) /\ Kept(F, cdr(h, v))
  <1>1. \A c \in Cell \ F : Kept(F, h.car[c]) /\ Kept(F, h.cdr[c]) BY DEF Sound, SoundHeap
  <1>2. type_of(v) = "CONS" => is_ptr(v) BY DEF is_ptr, PtrType
  <1>3. is_ptr(v) => dec_ptr(v) \in Cell \ F BY DEF Kept
  <1>4. Kept(F, NIL) /\ Kept(F, TERROR) BY KeptSym DEF TERROR
  <1> QED BY <1>1, <1>2, <1>3, <1>4 DEF car, cdr

\* A heap with the same free list.
LEMMA SameFreeList ==
  ASSUME NEW h, NEW g, NEW fl, FreeListIs(h, fl), g.num_alloc = h.num_alloc, g.freelist = h.freelist,
         \A c \in Listed(fl) : g.cdr[c] = h.cdr[c]
  PROVE  FreeListIs(g, fl)
  BY DEF FreeListIs, Listed

LEMMA SetCdrSound ==
  ASSUME NEW h, NEW F, Sound(h, F), NEW v, Kept(F, v), NEW d, Kept(F, d)
  PROVE  Sound(set_cdr(h, v, d), F)
  <1>1. CASE type_of(v) # "CONS" BY <1>1 DEF set_cdr
  <1>2. CASE type_of(v) = "CONS"
    <2>1. PICK p : p = dec_ptr(v) OBVIOUS
    <2>2. p \in Cell \ F BY <1>2, <2>1 DEF Kept, is_ptr, PtrType
    <2>3. PICK g : g = set_cdr(h, v, d) OBVIOUS
    <2>4. DOMAIN h = {"car", "cdr", "mark", "freelist", "num_alloc"} BY DEF Sound, SoundHeap
    <2>5. g = [h EXCEPT !.cdr = [h.cdr EXCEPT ![p] = d]] BY <1>2, <2>1, <2>3 DEF set_cdr
    <2>6. /\ DOMAIN g = DOMAIN h /\ g.car = h.car /\ g.mark = h.mark /\ g.freelist = h.freelist
          /\ g.num_alloc = h.num_alloc /\ g.cdr = [h.cdr EXCEPT ![p] = d]
      BY <2>4, <2>5
    <2>7. DOMAIN h.cdr = Cell BY DEF Sound, SoundHeap
    <2>8. DOMAIN g.cdr = Cell /\ \A c \in Cell : g.cdr[c] = IF c = p THEN d ELSE h.cdr[c]
      BY <2>2, <2>6, <2>7
    <2>9. SoundHeap(g, F) BY <2>2, <2>6, <2>8, KeptIn DEF Sound, SoundHeap
    <2>10. PICK fl : FreeListIs(h, fl) /\ F = Listed(fl) BY DEF Sound
    <2>11. \A c \in F : g.cdr[c] = h.cdr[c] BY <2>2, <2>8, SoundIn
    <2>12. FreeListIs(g, fl) BY <2>6, <2>10, <2>11, SameFreeList
    <2> QED BY <2>3, <2>9, <2>10, <2>12 DEF Sound
  <1> QED BY <1>1, <1>2

\* res is what an operation on h has returned: less is free now, and the result is kept.
Leaves(res, F) == \E E : E \subseteq F /\ Sound(res.h, E) /\ Kept(E, res.v)

\* g is h with the free cell p taken out of the free list: it holds a and d.
Takes(h, F, a, d, g, p, E) ==
  /\ p \in F /\ E = F \ {p} /\ Well(g, E)
  /\ \A c \in Cell : /\ g.car[c] = IF c = p THEN a ELSE h.car[c]
                    /\ g.cdr[c] = IF c = p THEN d ELSE h.cdr[c]

\* cons
LEMMA ConsTakes ==
  ASSUME NEW h, NEW F, Well(h, F), NEW a, InHeap(a), NEW d, InHeap(d)
  PROVE  \/ cons_result(h, a, d).h = h /\ \A E : Kept(E, cons_result(h, a, d).v)
         \/ \E p, E : /\ Takes(h, F, a, d, cons_result(h, a, d).h, p, E)
                     /\ cons_result(h, a, d).v = enc_cons_ptr(p)
  <1>1. CASE ~ CanAllocate(h)
    <2>1. cons_result(h, a, d).h = h /\ cons_result(h, a, d).v \in {MERROR, FATAL_ERROR}
      BY <1>1 DEF cons_result, cons_value, NoCell
    <2>2. \A E : Kept(E, cons_result(h, a, d).v) BY <2>1, Pointers DEF Kept
    <2> QED BY <2>1, <2>2
  <1>2. CASE CanAllocate(h)
    <2>1. PICK fl : FreeListIs(h, fl) /\ F = Listed(fl) BY DEF Well
    <2>2. PICK n : n = Len(fl) OBVIOUS
    <2>3. n \in Nat /\ \A i \in 1 .. n : fl[i] \in Cell BY <2>1, <2>2 DEF FreeListIs
    <2>4. h.freelist = IF n = 0 THEN NIL ELSE enc_cons_ptr(fl[n]) BY <2>1, <2>2 DEF FreeListIs
    <2>5. n # 0 /\ n \in 1 .. n
      <3>1. type_of(NIL) = "SYM" BY DEF NIL, sym, type_of
      <3> QED BY <1>2, <2>3, <2>4, <3>1 DEF CanAllocate
    <2>6. PICK p : p = fl[n] OBVIOUS
    <2>7. h.freelist = enc_cons_ptr(p) /\ p \in Cell /\ p \in F
      BY <2>1, <2>2, <2>3, <2>4, <2>5, <2>6 DEF Listed
    <2>8. PICK g : g = cons_heap(h, a, d) OBVIOUS
    <2>9. dec_ptr(h.freelist) = p BY <2>7, Pointers
    <2>10. /\ DOMAIN g = {"car", "cdr", "mark", "freelist", "num_alloc"}
           /\ g.car = [h.car EXCEPT ![p] = a] /\ g.cdr = [h.cdr EXCEPT ![p] = d]
           /\ g.mark = [h.mark EXCEPT ![p] = FALSE] /\ g.freelist = h.cdr[p]
           /\ g.num_alloc = h.num_alloc + 1
      BY <2>8, <2>9 DEF cons_heap
    <2>11. DOMAIN h.car = Cell /\ DOMAIN h.cdr = Cell /\ h.mark = [c \in Cell |-> FALSE]
      BY DEF Well
    <2>12. /\ DOMAIN g.car = Cell /\ DOMAIN g.cdr = Cell
           /\ \A c \in Cell : /\ g.car[c] = IF c = p THEN a ELSE h.car[c]
                              /\ g.cdr[c] = IF c = p THEN d ELSE h.cdr[c]
      BY <2>7, <2>10, <2>11
    <2>13. g.mark = [c \in Cell |-> FALSE] BY <2>10, <2>11
    <2>14. PICK E : E = F \ {p} OBVIOUS
    <2>15. Within(g) BY <2>12 DEF Well, Within
    <2>16. PICK gl : gl = SubSeq(fl, 1, n - 1) OBVIOUS
    <2>17. gl \in Seq(Cell) /\ Len(gl) = n - 1 /\ \A i \in 1 .. n - 1 : gl[i] = fl[i]
      <3>1. fl \in Seq(Cell) BY <2>1 DEF FreeListIs
      <3> QED BY <2>2, <2>3, <2>5, <2>16, <3>1
    <2>18. \A i, j \in 1 .. n : fl[i] = fl[j] => i = j BY <2>1, <2>2 DEF FreeListIs
    <2>19. E = Listed(gl)
      <3>1. F = {fl[i] : i \in 1 .. n} BY <2>1, <2>2 DEF Listed
      <3>2. \A i \in 1 .. n : i = n \/ i \in 1 .. n - 1 BY <2>3
      <3>3. \A i \in 1 .. n - 1 : i \in 1 .. n /\ fl[i] # p BY <2>3, <2>5, <2>6, <2>18
      <3>4. E = {fl[i] : i \in 1 .. n - 1} BY <2>6, <2>14, <3>1, <3>2, <3>3
      <3> QED BY <2>17, <3>4 DEF Listed
    <2>20. FreeListIs(g, gl)
      <3>1. \A i \in 1 .. n : h.cdr[fl[i]] = IF i = 1 THEN NIL ELSE enc_cons_ptr(fl[i - 1])
        BY <2>1, <2>2 DEF FreeListIs
      <3>2. g.freelist = IF gl = <<>> THEN NIL ELSE enc_cons_ptr(gl[n - 1])
        <4>1. g.freelist = IF n = 1 THEN NIL ELSE enc_cons_ptr(fl[n - 1]) BY <2>5, <2>6, <2>10, <3>1
        <4>2. gl = <<>> <=> n = 1 BY <2>3, <2>17
        <4>3. n # 1 => n - 1 \in 1 .. n - 1 BY <2>3, <2>5
        <4> QED BY <2>17, <4>1, <4>2, <4>3
      <3>3. g.num_alloc = heap_size - (n - 1)
        <4>1. h.num_alloc = heap_size - n BY <2>1, <2>2 DEF FreeListIs
        <4> QED BY <2>3, <2>10, <4>1, HeapSizeAssumption
      <3>4. ASSUME NEW i \in 1 .. n - 1
            PROVE  g.cdr[gl[i]] = IF i = 1 THEN NIL ELSE enc_cons_ptr(gl[i - 1])
        <4>1. i \in 1 .. n /\ fl[i] # p /\ fl[i] \in Cell BY <2>3, <2>5, <2>6, <2>18
        <4>2. g.cdr[gl[i]] = h.cdr[fl[i]] BY <2>12, <2>17, <4>1
        <4>3. i # 1 => i - 1 \in 1 .. n - 1 BY <2>3
        <4> QED BY <2>17, <3>1, <4>1, <4>2, <4>3
      <3>5. \A i, j \in 1 .. n - 1 : gl[i] = gl[j] => i = j BY <2>3, <2>17, <2>18
      <3> QED BY <2>17, <3>2, <3>3, <3>4, <3>5 DEF FreeListIs
    <2>21. Well(g, E) BY <2>10, <2>12, <2>13, <2>15, <2>19, <2>20 DEF Well
    <2>22. Takes(h, F, a, d, g, p, E) BY <2>7, <2>12, <2>14, <2>21 DEF Takes
    <2>23. cons_result(h, a, d).h = g /\ cons_result(h, a, d).v = h.freelist
      BY <1>2, <2>8 DEF cons_result, cons_value
    <2> QED BY <2>7, <2>22, <2>23
  <1> QED BY <1>1, <1>2

LEMMA ConsLeaves ==
  ASSUME NEW h, NEW F, Sound(h, F), NEW a, Kept(F, a), NEW d, Kept(F, d)
  PROVE  Leaves(cons_result(h, a, d), F)
  <1>1. PICK res : res = cons_result(h, a, d) OBVIOUS
  <1>2. Well(h, F) /\ InHeap(a) /\ InHeap(d) BY SoundIsWell, KeptIn
  <1>3. \/ res.h = h /\ \A E : Kept(E, res.v)
        \/ \E p, E : Takes(h, F, a, d, res.h, p, E) /\ res.v = enc_cons_ptr(p)
    BY <1>1, <1>2, ConsTakes
  <1>4. CASE res.h = h /\ \A E : Kept(E, res.v) BY <1>1, <1>4 DEF Leaves
  <1>5. ASSUME NEW p, NEW E, Takes(h, F, a, d, res.h, p, E), res.v = enc_cons_ptr(p)
        PROVE  Leaves(res, F)
    <2>1. PICK g : g = res.h OBVIOUS
    <2>2. /\ p \in F /\ E = F \ {p} /\ Well(g, E)
          /\ \A c \in Cell : /\ g.car[c] = IF c = p THEN a ELSE h.car[c]
                            /\ g.cdr[c] = IF c = p THEN d ELSE h.cdr[c]
      BY <1>5, <2>1 DEF Takes
    <2>3. Kept(E, a) /\ Kept(E, d) BY <2>2, KeptMore
    <2>4. \A c \in Cell \ F : Kept(E, h.car[c]) /\ Kept(E, h.cdr[c])
      BY <2>2, KeptMore DEF Sound, SoundHeap
    <2>5. \A c \in Cell \ E : c = p \/ c \in Cell \ F BY <2>2
    <2>6. \A c \in Cell \ E : Kept(E, g.car[c]) /\ Kept(E, g.cdr[c])
      BY <2>2, <2>3, <2>4, <2>5
    <2>7. Sound(g, E) BY <2>2, <2>6, SoundIsWell
    <2>8. p \in Cell BY <2>2, SoundIn
    <2>9. Kept(E, res.v) BY <1>5, <2>2, <2>8, Pointers DEF Kept
    <2> QED BY <2>1, <2>2, <2>7, <2>9 DEF Leaves
  <1> QED BY <1>1, <1>3, <1>4, <1>5

(***************************************************************************)
(* Collections                                                             *)
(***************************************************************************)
Dead(live, n) == {c \in Cell \ live : c < n}

SweptBody(h, live, f, n) ==
  IF Dead(live, n) = {} THEN [h EXCEPT !.mark = [c \in Cell |-> FALSE]]
  ELSE sweep_cell(f[Max(Dead(live, n))], Max(Dead(live, n)))

SweptFun(h, live, n, f) == f = [k \in 0 .. n |-> SweptBody(h, live, f, k)]

LEMMA MaxDead ==
  ASSUME NEW live, NEW n \in Nat, Dead(live, n) # {}
  PROVE  Max(Dead(live, n)) \in Dead(live, n) /\ Max(Dead(live, n)) \in 0 .. n - 1
  <1>1. PICK D : D = Dead(live, n) OBVIOUS
  <1>2. \A c \in D : c \in Nat /\ c < n BY <1>1, HeapSizeAssumption DEF Dead, Cell
  <1>3. PICK A : A = {n - c : c \in D} OBVIOUS
  <1>4. A \subseteq Nat /\ A # {} BY <1>1, <1>2, <1>3
  <1>5. PICK a \in A : \A b \in A : a <= b BY <1>4, LeastNat
  <1>6. PICK x \in D : a = n - x BY <1>3
  <1>7. ASSUME NEW y \in D PROVE x >= y
    <2>1. a <= n - y BY <1>3, <1>5
    <2> QED BY <1>2, <1>6, <2>1
  <1>8. Max(D) \in D BY <1>7 DEF Max
  <1> QED BY <1>1, <1>2, <1>8

LEMMA SweptExists ==
  ASSUME NEW h, NEW live, NEW n \in Nat
  PROVE  \E f : SweptFun(h, live, n, f)
  <1> DEFINE S == {m \in 0 .. n : \E f : f = [k \in 0 .. m |-> SweptBody(h, live, f, k)]}
  <1>1. 0 \in S
    <2>1. PICK f : f = [k \in 0 .. 0 |-> SweptBody(h, live, <<>>, 0)] OBVIOUS
    <2>2. \A k \in 0 .. 0 : k = 0 OBVIOUS
    <2>3. Dead(live, 0) = {} BY HeapSizeAssumption DEF Dead, Cell
    <2>4. SweptBody(h, live, f, 0) = SweptBody(h, live, <<>>, 0) BY <2>3 DEF SweptBody
    <2>5. f = [k \in 0 .. 0 |-> SweptBody(h, live, f, k)] BY <2>1, <2>2, <2>4
    <2> QED BY <2>5
  <1>2. ASSUME NEW m \in 0 .. n - 1, m \in S PROVE m + 1 \in S
    <2>1. PICK f : f = [k \in 0 .. m |-> SweptBody(h, live, f, k)] BY <1>2
    <2>2. PICK g : g = [k \in 0 .. m + 1 |-> SweptBody(h, live, f, k)] OBVIOUS
    <2>3. \A k \in 0 .. m : g[k] = f[k] BY <2>1, <2>2
    <2>4. ASSUME NEW k \in 0 .. m + 1 PROVE SweptBody(h, live, f, k) = SweptBody(h, live, g, k)
      <3>1. PICK x : x = Max(Dead(live, k)) OBVIOUS
      <3>2. Dead(live, k) = {} \/ g[x] = f[x]
        <4>1. CASE Dead(live, k) = {} BY <4>1
        <4>2. CASE Dead(live, k) # {}
          <5>1. k \in Nat OBVIOUS
          <5>2. x \in 0 .. k - 1 BY <3>1, <4>2, <5>1, MaxDead
          <5>3. x \in 0 .. m BY <5>1, <5>2
          <5> QED BY <2>3, <5>3
        <4> QED BY <4>1, <4>2
      <3> QED BY <3>1, <3>2 DEF SweptBody
    <2>5. g = [k \in 0 .. m + 1 |-> SweptBody(h, live, g, k)] BY <2>2, <2>4
    <2>6. m + 1 \in 0 .. n OBVIOUS
    <2> QED BY <2>5, <2>6
  <1>3. \A m \in 0 .. n : m \in S
    <2> HIDE DEF S
    <2> QED BY <1>1, <1>2, Upto
  <1>4. \E f : f = [k \in 0 .. n |-> SweptBody(h, live, f, k)] BY <1>3
  <1> QED BY <1>4, Zenon DEF SweptFun

\* The heap g when the sweep of h has come to cell n: F were the free cells.
SweptTo(h, F, live, g, n) ==
  /\ DOMAIN g = {"car", "cdr", "mark", "freelist", "num_alloc"}
  /\ DOMAIN g.car = Cell /\ DOMAIN g.cdr = Cell /\ g.mark = [c \in Cell |-> FALSE]
  /\ \A c \in Cell : IF c \in live \/ n <= c THEN g.car[c] = h.car[c] /\ g.cdr[c] = h.cdr[c]
                     ELSE g.car[c] = RECOVERED
  /\ \E gl : FreeListIs(g, gl) /\ Listed(gl) = F \cup {c \in Cell : c < n /\ c \notin live}

LEMMA SweptFirst ==
  ASSUME NEW h, NEW F, Well(h, F), NEW live, NEW f
  PROVE  SweptTo(h, F, live, SweptBody(h, live, f, 0), 0)
  <1>1. PICK g : g = SweptBody(h, live, f, 0) OBVIOUS
  <1>2. DOMAIN h = {"car", "cdr", "mark", "freelist", "num_alloc"} BY DEF Well
  <1>3. \A c \in Cell : 0 <= c /\ ~ c < 0 /\ c \in Int BY HeapSizeAssumption DEF Cell
  <1>4. Dead(live, 0) = {} BY <1>3 DEF Dead
  <1>5. /\ DOMAIN g = DOMAIN h /\ g.car = h.car /\ g.cdr = h.cdr /\ g.freelist = h.freelist
        /\ g.num_alloc = h.num_alloc /\ g.mark = [c \in Cell |-> FALSE]
    BY <1>1, <1>2, <1>4 DEF SweptBody
  <1>6. PICK gl : FreeListIs(h, gl) /\ F = Listed(gl) BY DEF Well
  <1>7. FreeListIs(g, gl) BY <1>5, <1>6, SameFreeList
  <1>8. Listed(gl) = F \cup {c \in Cell : c < 0 /\ c \notin live} BY <1>3, <1>6
  <1>9. DOMAIN h.car = Cell /\ DOMAIN h.cdr = Cell BY DEF Well
  <1> QED BY <1>1, <1>2, <1>3, <1>5, <1>7, <1>8, <1>9 DEF SweptTo

\* In k the cell c is in front of the free list of g.
InFront(g, gl, c, k) ==
  /\ FreeListIs(g, gl) /\ c \in Cell /\ c \notin Listed(gl)
  /\ \A d \in Listed(gl) : k.cdr[d] = g.cdr[d]
  /\ k.cdr[c] = g.freelist /\ k.freelist = enc_cons_ptr(c) /\ k.num_alloc = g.num_alloc - 1

LEMMA OneMoreFree ==
  ASSUME NEW g, NEW gl, NEW c, NEW k, InFront(g, gl, c, k)
  PROVE  \E hl : FreeListIs(k, hl) /\ Listed(hl) = Listed(gl) \cup {c}
  <1> USE DEF InFront
  <1>0. PICK hl : hl = Append(gl, c) OBVIOUS
  <1>1. PICK n : n = Len(gl) OBVIOUS
  <1>2. gl \in Seq(Cell) BY DEF FreeListIs
  <1>3. /\ hl \in Seq(Cell) /\ Len(hl) = n + 1 /\ n \in Nat /\ hl[n + 1] = c
        /\ \A i \in 1 .. n : hl[i] = gl[i] /\ gl[i] \in Listed(gl)
    BY <1>0, <1>1, <1>2 DEF Listed
  <1>4. \A i \in 1 .. n + 1 : i = n + 1 \/ i \in 1 .. n BY <1>3
  <1>5. Listed(hl) = Listed(gl) \cup {c}
    <2>1. Listed(hl) = {hl[i] : i \in 1 .. n + 1} /\ Listed(gl) = {gl[i] : i \in 1 .. n}
      BY <1>1, <1>3 DEF Listed
    <2>2. n + 1 \in 1 .. n + 1 /\ \A i \in 1 .. n : i \in 1 .. n + 1 BY <1>3
    <2> QED BY <1>3, <1>4, <2>1, <2>2
  <1>6. k.num_alloc = heap_size - (n + 1)
    <2>1. g.num_alloc = heap_size - n BY <1>1 DEF FreeListIs
    <2> QED BY <1>3, <2>1, HeapSizeAssumption
  <1>7. \A i, j \in 1 .. n + 1 : hl[i] = hl[j] => i = j
    <2>1. \A i, j \in 1 .. n : gl[i] = gl[j] => i = j BY <1>1 DEF FreeListIs
    <2> QED BY <1>3, <1>4, <2>1
  <1>8. k.freelist = IF hl = <<>> THEN NIL ELSE enc_cons_ptr(hl[n + 1])
    <2>1. hl # <<>> BY <1>3
    <2> QED BY <1>3, <2>1
  <1>9. ASSUME NEW i \in 1 .. n + 1
        PROVE  k.cdr[hl[i]] = IF i = 1 THEN NIL ELSE enc_cons_ptr(hl[i - 1])
    <2>1. CASE i = n + 1
      <3>1. g.freelist = IF n = 0 THEN NIL ELSE enc_cons_ptr(gl[n])
        <4>1. gl = <<>> <=> n = 0 BY <1>1, <1>2
        <4> QED BY <1>1, <4>1 DEF FreeListIs
      <3>2. n # 0 => hl[n] = gl[n] BY <1>3
      <3> QED BY <1>3, <2>1, <3>1, <3>2
    <2>2. CASE i \in 1 .. n
      <3>1. g.cdr[gl[i]] = IF i = 1 THEN NIL ELSE enc_cons_ptr(gl[i - 1]) BY <1>1, <2>2 DEF FreeListIs
      <3>2. k.cdr[hl[i]] = g.cdr[gl[i]] BY <1>3, <2>2
      <3>3. i # 1 => i - 1 \in 1 .. n BY <1>3, <2>2
      <3> QED BY <1>3, <3>1, <3>2, <3>3
    <2> QED BY <1>4, <2>1, <2>2
  <1> HIDE DEF InFront
  <1>10. FreeListIs(k, hl) BY <1>3, <1>6, <1>7, <1>8, <1>9 DEF FreeListIs
  <1> QED BY <1>5, <1>10

\* A cell that is not live is recovered; a live one is passed over.
LEMMA SweptStep ==
  ASSUME NEW h, NEW F, NEW live, live \in SUBSET Cell, F \subseteq live,
         NEW n \in 0 .. heap_size - 1, NEW g, SweptTo(h, F, live, g, n)
  PROVE  SweptTo(h, F, live, IF n \in live THEN g ELSE sweep_cell(g, n), n + 1)
  <1>1. PICK k : k = IF n \in live THEN g ELSE sweep_cell(g, n) OBVIOUS
  <1>2. n \in Cell /\ n \in Int /\ \A c \in Cell : c \in Int BY HeapSizeAssumption DEF Cell
  <1>3. \A c \in Cell : (n <= c <=> c = n \/ n + 1 <= c) /\ (c < n + 1 <=> c = n \/ c < n)
    BY <1>2
  <1>4. PICK gl : FreeListIs(g, gl) /\ Listed(gl) = F \cup {c \in Cell : c < n /\ c \notin live}
    BY DEF SweptTo
  <1>5. /\ DOMAIN g = {"car", "cdr", "mark", "freelist", "num_alloc"}
        /\ DOMAIN g.car = Cell /\ DOMAIN g.cdr = Cell /\ g.mark = [c \in Cell |-> FALSE]
    BY DEF SweptTo
  <1>6. \A c \in Cell : IF c \in live \/ n <= c THEN g.car[c] = h.car[c] /\ g.cdr[c] = h.cdr[c]
                        ELSE g.car[c] = RECOVERED
    BY DEF SweptTo
  <1>7. CASE n \in live
    <2>1. k = g BY <1>1, <1>7
    <2>2. \A c \in Cell : IF c \in live \/ n + 1 <= c THEN k.car[c] = h.car[c] /\ k.cdr[c] = h.cdr[c]
                          ELSE k.car[c] = RECOVERED
      BY <1>3, <1>6, <1>7, <2>1
    <2>3. Listed(gl) = F \cup {c \in Cell : c < n + 1 /\ c \notin live} BY <1>3, <1>4, <1>7
    <2> QED BY <1>1, <1>4, <1>5, <2>1, <2>2, <2>3 DEF SweptTo
  <1>8. CASE n \notin live
    <2>1. /\ DOMAIN k = {"car", "cdr", "mark", "freelist", "num_alloc"}
          /\ k.car = [g.car EXCEPT ![n] = RECOVERED] /\ k.cdr = [g.cdr EXCEPT ![n] = g.freelist]
          /\ k.mark = g.mark /\ k.freelist = enc_cons_ptr(n) /\ k.num_alloc = g.num_alloc - 1
      <3>1. g.mark[n] = FALSE BY <1>2, <1>5
      <3> QED BY <1>1, <1>8, <3>1 DEF sweep_cell
    <2>2. /\ DOMAIN k.car = Cell /\ DOMAIN k.cdr = Cell
          /\ \A c \in Cell : /\ k.car[c] = IF c = n THEN RECOVERED ELSE g.car[c]
                             /\ k.cdr[c] = IF c = n THEN g.freelist ELSE g.cdr[c]
      BY <1>2, <1>5, <2>1
    <2>3. k.mark = [c \in Cell |-> FALSE] BY <1>5, <2>1
    <2>4. \A c \in Cell : IF c \in live \/ n + 1 <= c THEN k.car[c] = h.car[c] /\ k.cdr[c] = h.cdr[c]
                          ELSE k.car[c] = RECOVERED
      <3>1. ~ n + 1 <= n BY <1>2
      <3> QED BY <1>3, <1>6, <1>8, <2>2, <3>1
    <2>5. n \notin Listed(gl) BY <1>2, <1>4, <1>8
    <2>6. \A d \in Listed(gl) : k.cdr[d] = g.cdr[d] BY <1>4, <2>2, <2>5
    <2>7. k.cdr[n] = g.freelist BY <1>2, <2>2
    <2>8. PICK hl : FreeListIs(k, hl) /\ Listed(hl) = Listed(gl) \cup {n}
      <3>1. InFront(g, gl, n, k) BY <1>2, <1>4, <2>1, <2>5, <2>6, <2>7 DEF InFront
      <3> QED BY <3>1, OneMoreFree
    <2>9. Listed(hl) = F \cup {c \in Cell : c < n + 1 /\ c \notin live} BY <1>2, <1>3, <1>4, <1>8, <2>8
    <2> QED BY <1>1, <2>1, <2>2, <2>3, <2>4, <2>8, <2>9 DEF SweptTo
  <1> QED BY <1>7, <1>8

LEMMA SweptNext ==
  ASSUME NEW h, NEW live, live \in SUBSET Cell, NEW f, SweptFun(h, live, heap_size, f),
         NEW n \in 0 .. heap_size - 1
  PROVE  f[n + 1] = IF n \in live THEN f[n] ELSE sweep_cell(f[n], n)
  <1>1. n \in 0 .. heap_size /\ n + 1 \in 0 .. heap_size /\ n \in Cell /\ n \in Nat /\ n + 1 \in Nat
    BY HeapSizeAssumption DEF Cell
  <1>2. f[n] = SweptBody(h, live, f, n) /\ f[n + 1] = SweptBody(h, live, f, n + 1) BY <1>1 DEF SweptFun
  <1>3. \A c \in Cell : c \in Nat /\ (c < n + 1 <=> c = n \/ c < n) BY <1>1, HeapSizeAssumption DEF Cell
  <1>4. CASE n \in live
    <2>1. Dead(live, n + 1) = Dead(live, n) BY <1>3, <1>4 DEF Dead
    <2> QED BY <1>2, <1>4, <2>1 DEF SweptBody
  <1>5. CASE n \notin live
    <2>1. PICK D : D = Dead(live, n + 1) OBVIOUS
    <2>2. n \in D /\ \A y \in D : y \in Nat /\ y <= n BY <1>1, <1>3, <1>5, <2>1 DEF Dead
    <2>3. \A x \in D : (\A y \in D : x >= y) <=> x = n BY <2>2
    <2>4. Max(D) = n BY <2>2, <2>3 DEF Max
    <2>5. D # {} BY <2>2
    <2> QED BY <1>2, <1>5, <2>1, <2>4, <2>5 DEF SweptBody
  <1> QED BY <1>4, <1>5

\* gc leaves what its roots lead to, and the free list has all other cells.
LEMMA GcSweeps ==
  ASSUME NEW h, NEW F, Well(h, F), NEW vs, \A v \in vs : InHeap(v)
  PROVE  \E E : /\ E = F \cup (Cell \ Reachable(h, vs)) /\ Well(gc(h, vs), E)
               /\ \A c \in Cell \ E : gc(h, vs).car[c] = h.car[c] /\ gc(h, vs).cdr[c] = h.cdr[c]
  <1>1. PICK R : R = Reachable(h, vs) OBVIOUS
  <1>2. Within(h) /\ F \in SUBSET Cell BY WellIn
  <1>3. R \in SUBSET Cell /\ Cells(vs) \subseteq R /\ Succ(h, R) = R BY <1>1, <1>2, ReachableIs
  <1>4. PICK live : live = R \cup F OBVIOUS
  <1>5. live = Reachable(h, vs) \cup FreeCells(h) BY <1>1, <1>4, FreeCellsAre
  <1>6. live \in SUBSET Cell /\ F \subseteq live BY <1>2, <1>3, <1>4
  <1>7. PICK f : f = CHOOSE w : SweptFun(h, live, heap_size, w) OBVIOUS
  <1>8. heap_size \in Nat BY HeapSizeAssumption
  <1>9. SweptFun(h, live, heap_size, f)
    <2>1. \E w : SweptFun(h, live, heap_size, w) BY <1>8, SweptExists, Zenon
    <2> QED BY <1>7, <2>1, Zenon
  <1>10. PICK g : g = f[heap_size] OBVIOUS
  <1>11. gc(h, vs) = g BY <1>5, <1>7, <1>10 DEF gc, SweptFun, SweptBody, Dead
  <1>12. SweptTo(h, F, live, g, heap_size)
    <2> DEFINE S == {n \in 0 .. heap_size : SweptTo(h, F, live, f[n], n)}
    <2>1. 0 \in S
      <3>1. 0 \in 0 .. heap_size BY <1>8
      <3>2. f[0] = SweptBody(h, live, f, 0) BY <1>9, <3>1 DEF SweptFun
      <3>3. SweptTo(h, F, live, f[0], 0) BY <3>2, SweptFirst
      <3> QED BY <3>1, <3>3
    <2>2. ASSUME NEW n \in 0 .. heap_size - 1, n \in S PROVE n + 1 \in S
      <3>1. n + 1 \in 0 .. heap_size BY <1>8
      <3>2. f[n + 1] = IF n \in live THEN f[n] ELSE sweep_cell(f[n], n) BY <1>6, <1>9, SweptNext
      <3>3. SweptTo(h, F, live, f[n], n) BY <2>2
      <3>4. SweptTo(h, F, live, f[n + 1], n + 1) BY <1>6, <3>2, <3>3, SweptStep
      <3> QED BY <3>1, <3>4
    <2>3. \A n \in 0 .. heap_size : n \in S
      <3> HIDE DEF S
      <3> QED BY <1>8, <2>1, <2>2, Upto
    <2>4. heap_size \in 0 .. heap_size BY <1>8
    <2>5. heap_size \in S BY <2>3, <2>4
    <2> QED BY <1>10, <2>5
  <1>13. \A c \in Cell : c < heap_size /\ ~ heap_size <= c BY <1>8 DEF Cell
  <1>14. PICK E : E = F \cup (Cell \ live) OBVIOUS
  <1>15. PICK gl : FreeListIs(g, gl) /\ E = Listed(gl)
    <2>1. PICK gl : FreeListIs(g, gl) /\ Listed(gl) = F \cup {c \in Cell : c < heap_size /\ c \notin live}
      BY <1>12 DEF SweptTo
    <2>2. Listed(gl) = E BY <1>13, <1>14, <2>1
    <2> QED BY <2>1, <2>2
  <1>16. /\ DOMAIN g = {"car", "cdr", "mark", "freelist", "num_alloc"}
         /\ DOMAIN g.car = Cell /\ DOMAIN g.cdr = Cell
         /\ g.mark = [c \in Cell |-> FALSE]
         /\ \A c \in Cell : IF c \in live \/ heap_size <= c THEN g.car[c] = h.car[c] /\ g.cdr[c] = h.cdr[c]
                            ELSE g.car[c] = RECOVERED
    BY <1>12 DEF SweptTo
  <1>17. g.mark = [c \in Cell |-> FALSE] BY <1>16
  <1>18. \A c \in Cell : IF c \in live THEN g.car[c] = h.car[c] /\ g.cdr[c] = h.cdr[c]
                         ELSE g.car[c] = RECOVERED
    BY <1>13, <1>16
  <1>19. \A c \in E : InHeap(g.cdr[c])
    <2>1. gl \in Seq(Cell) BY <1>15 DEF FreeListIs
    <2>2. \A i \in 1 .. Len(gl) : gl[i] \in Cell /\ Len(gl) \in Nat BY <2>1
    <2>3. \A i \in 1 .. Len(gl) : g.cdr[gl[i]] = IF i = 1 THEN NIL ELSE enc_cons_ptr(gl[i - 1])
      BY <1>15 DEF FreeListIs
    <2>4. ASSUME NEW i \in 1 .. Len(gl) PROVE InHeap(g.cdr[gl[i]])
      <3>1. CASE i = 1 BY <2>3, <3>1, KeptSym
      <3>2. CASE i # 1
        <4>1. i - 1 \in 1 .. Len(gl) BY <2>2, <3>2
        <4>2. g.cdr[gl[i]] = enc_cons_ptr(gl[i - 1]) /\ gl[i - 1] \in Cell BY <2>2, <2>3, <3>2, <4>1
        <4> QED BY <4>2, Pointers DEF InHeap
      <3> QED BY <3>1, <3>2
    <2> QED BY <1>15, <2>4 DEF Listed
  <1>20. \A c \in Cell : InHeap(g.car[c]) /\ InHeap(g.cdr[c])
    <2>1. InHeap(RECOVERED) BY Pointers DEF InHeap
    <2> QED BY <1>2, <1>14, <1>18, <1>19, <2>1 DEF Within
  <1>21. Well(g, E) BY <1>15, <1>16, <1>17, <1>20 DEF Well, Within
  <1>22. E = F \cup (Cell \ R) BY <1>4, <1>14
  <1>23. \A c \in Cell \ E : g.car[c] = h.car[c] /\ g.cdr[c] = h.cdr[c] BY <1>14, <1>18
  <1> QED BY <1>1, <1>11, <1>21, <1>22, <1>23

\* gc recovers no cell that its roots lead to, unless that cell was free before.
LEMMA GcKeeps ==
  ASSUME NEW h, NEW F, Sound(h, F), NEW vs, \A v \in vs : InHeap(v)
  PROVE  \E E : F \subseteq E /\ Sound(gc(h, vs), E) /\ \A v \in vs : Kept(F, v) => Kept(E, v)
  <1>1. PICK R, g : R = Reachable(h, vs) /\ g = gc(h, vs) OBVIOUS
  <1>2. PICK E : /\ E = F \cup (Cell \ R) /\ Well(g, E)
                 /\ \A c \in Cell \ E : g.car[c] = h.car[c] /\ g.cdr[c] = h.cdr[c]
    BY <1>1, GcSweeps, SoundIsWell
  <1>3. R \in SUBSET Cell /\ Cells(vs) \subseteq R /\ Succ(h, R) = R BY <1>1, SoundIn, ReachableIs
  <1>4. ASSUME NEW v, Kept(F, v), is_ptr(v) => dec_ptr(v) \in R PROVE Kept(E, v)
    BY <1>2, <1>4 DEF Kept
  <1>5. ASSUME NEW c \in Cell \ E PROVE Kept(E, g.car[c]) /\ Kept(E, g.cdr[c])
    <2>1. c \notin F /\ c \in R BY <1>2
    <2>2. Kept(F, h.car[c]) /\ Kept(F, h.cdr[c]) BY <2>1 DEF Sound, SoundHeap
    <2>3. (is_ptr(h.car[c]) => dec_ptr(h.car[c]) \in R) /\ (is_ptr(h.cdr[c]) => dec_ptr(h.cdr[c]) \in R)
      BY <1>3, <2>1 DEF Succ, Cells
    <2>4. Kept(E, h.car[c]) /\ Kept(E, h.cdr[c]) BY <1>4, <2>2, <2>3
    <2> QED BY <1>2, <2>4
  <1>6. \A v \in vs : Kept(F, v) => Kept(E, v) BY <1>3, <1>4 DEF Cells
  <1>7. Sound(g, E) BY <1>2, <1>5, SoundIsWell
  <1> QED BY <1>1, <1>2, <1>6, <1>7

(***************************************************************************)
(* Heaps in which garbage leads to free cells                              *)
(***************************************************************************)
\* The cells of X are in use, and nothing leads from them to another cell.
Apart(h, F, X) == Well(h, F) /\ X \in SUBSET (Cell \ F) /\ Succ(h, X) = X

LEMMA CarIn ==
  ASSUME NEW h, Within(h), NEW v, InHeap(v)
  PROVE  InHeap(car(h, v)) /\ InHeap(cdr(h, v))
  <1>1. type_of(v) = "CONS" => is_ptr(v) BY DEF is_ptr, PtrType
  <1>2. InHeap(NIL) /\ InHeap(TERROR) BY Pointers DEF InHeap
  <1> QED BY <1>1, <1>2 DEF Within, InHeap, car, cdr

LEMMA SameSucc ==
  ASSUME NEW h, NEW g, NEW X, \A c \in X : g.car[c] = h.car[c] /\ g.cdr[c] = h.cdr[c]
  PROVE  Succ(g, X) = Succ(h, X)
  <1>1. {g.car[c] : c \in X} = {h.car[c] : c \in X} /\ {g.cdr[c] : c \in X} = {h.cdr[c] : c \in X}
    OBVIOUS
  <1> QED BY <1>1 DEF Succ

LEMMA SoundApart ==
  ASSUME NEW h, NEW F, Sound(h, F)
  PROVE  Apart(h, F, Cell \ F)
  <1>1. PICK X : X = Cell \ F OBVIOUS
  <1>2. \A c \in X : Kept(F, h.car[c]) /\ Kept(F, h.cdr[c]) BY <1>1 DEF Sound, SoundHeap
  <1>3. Succ(h, X) = X BY <1>1, <1>2 DEF Succ, Cells, Kept
  <1> QED BY <1>1, <1>3, SoundIsWell DEF Apart

LEMMA ConsApart ==
  ASSUME NEW h, NEW F, NEW X, Apart(h, F, X), NEW a, InHeap(a), NEW d, InHeap(d)
  PROVE  /\ InHeap(cons_result(h, a, d).v)
         /\ \E E : Apart(cons_result(h, a, d).h, E, X)
  <1>1. PICK res : res = cons_result(h, a, d) OBVIOUS
  <1>2. \/ res.h = h /\ \A E : Kept(E, res.v)
        \/ \E p, E : Takes(h, F, a, d, res.h, p, E) /\ res.v = enc_cons_ptr(p)
    BY <1>1, ConsTakes DEF Apart
  <1>3. CASE res.h = h /\ \A E : Kept(E, res.v) BY <1>1, <1>3, KeptIn
  <1>4. ASSUME NEW p, NEW E, Takes(h, F, a, d, res.h, p, E), res.v = enc_cons_ptr(p)
        PROVE  InHeap(res.v) /\ Apart(res.h, E, X)
    <2>1. PICK g : g = res.h OBVIOUS
    <2>2. /\ p \in F /\ E = F \ {p} /\ Well(g, E)
          /\ \A c \in Cell : /\ g.car[c] = IF c = p THEN a ELSE h.car[c]
                            /\ g.cdr[c] = IF c = p THEN d ELSE h.cdr[c]
      BY <1>4, <2>1 DEF Takes
    <2>3. p \in Cell /\ InHeap(res.v)
      <3>1. p \in Cell BY <2>2, WellIn DEF Apart
      <3> QED BY <1>4, <3>1, Pointers DEF InHeap
    <2>4. X \in SUBSET (Cell \ F) /\ Succ(h, X) = X BY DEF Apart
    <2>5. \A c \in X : g.car[c] = h.car[c] /\ g.cdr[c] = h.cdr[c] BY <2>2, <2>4
    <2>6. Succ(g, X) = X BY <2>4, <2>5, SameSucc
    <2>7. X \in SUBSET (Cell \ E) BY <2>2, <2>4
    <2> QED BY <2>1, <2>2, <2>3, <2>6, <2>7 DEF Apart
  <1> QED BY <1>1, <1>2, <1>3, <1>4

LEMMA GcApart ==
  ASSUME NEW h, NEW F, NEW X, Apart(h, F, X), NEW vs, \A v \in vs : InHeap(v), Cells(vs) \subseteq X
  PROVE  \E E, Y : Apart(gc(h, vs), E, Y) /\ Cells(vs) \subseteq Y
  <1>1. PICK R, g : R = Reachable(h, vs) /\ g = gc(h, vs) OBVIOUS
  <1>2. Well(h, F) /\ X \in SUBSET (Cell \ F) /\ Succ(h, X) = X BY DEF Apart
  <1>3. PICK E : /\ E = F \cup (Cell \ R) /\ Well(g, E)
                 /\ \A c \in Cell \ E : g.car[c] = h.car[c] /\ g.cdr[c] = h.cdr[c]
    BY <1>1, <1>2, GcSweeps
  <1>4. R \in SUBSET Cell /\ Cells(vs) \subseteq R /\ Succ(h, R) = R /\ R \subseteq X
    BY <1>1, <1>2, WellIn, ReachableIs
  <1>5. R \in SUBSET (Cell \ E) BY <1>2, <1>3, <1>4
  <1>6. Succ(g, R) = R BY <1>3, <1>4, <1>5, SameSucc
  <1> QED BY <1>1, <1>3, <1>4, <1>5, <1>6 DEF Apart

\* What X leads to is not free.
LEMMA ApartReach ==
  ASSUME NEW h, NEW F, NEW X, Apart(h, F, X), NEW vs, \A v \in vs : InHeap(v), Cells(vs) \subseteq X
  PROVE  Reachable(h, vs) \cap FreeCells(h) = {}
  <1>1. Well(h, F) /\ X \in SUBSET (Cell \ F) /\ Succ(h, X) = X BY DEF Apart
  <1>2. Reachable(h, vs) \subseteq X BY <1>1, WellIn, ReachableIs
  <1> QED BY <1>1, <1>2, FreeCellsAre


(***************************************************************************)
(* Lists                                                                   *)
(***************************************************************************)
KeptSeq(F, s) == IsSeq(s) /\ Len(s) \in Nat /\ \A k \in 1 .. Len(s) : Kept(F, s[k])

LEMMA MadeSeq ==
  ASSUME NEW n \in Nat, NEW s, DOMAIN s = 1 .. n, s = [k \in 1 .. n |-> s[k]]
  PROVE  IsSeq(s) /\ Len(s) = n
  <1>1. PICK S : S = {s[k] : k \in 1 .. n} OBVIOUS
  <1>2. \A k \in 1 .. n : s[k] \in S BY <1>1
  <1>3. s \in Seq(S) BY <1>2
  <1> QED BY <1>3 DEF IsSeq

SpineBody(h, f, n) ==
  [c \in Cell |->
    <<c>> \o (IF n > 0 /\ type_of(h.cdr[c]) = "CONS" THEN f[n - 1][dec_ptr(h.cdr[c])] ELSE <<>>)]

LEMMA SpineExists ==
  ASSUME NEW h, NEW n \in Nat
  PROVE  \E f : f = [k \in 0 .. n |-> SpineBody(h, f, k)]
  <1> DEFINE S == {m \in 0 .. n : \E f : f = [k \in 0 .. m |-> SpineBody(h, f, k)]}
  <1>1. 0 \in S
    <2>1. PICK f : f = [k \in 0 .. 0 |-> SpineBody(h, <<>>, 0)] OBVIOUS
    <2>2. \A k \in 0 .. 0 : k = 0 OBVIOUS
    <2>3. SpineBody(h, f, 0) = SpineBody(h, <<>>, 0) BY DEF SpineBody
    <2>4. f = [k \in 0 .. 0 |-> SpineBody(h, f, k)] BY <2>1, <2>2, <2>3
    <2> QED BY <2>4
  <1>2. ASSUME NEW m \in 0 .. n - 1, m \in S PROVE m + 1 \in S
    <2>1. PICK f : f = [k \in 0 .. m |-> SpineBody(h, f, k)] BY <1>2
    <2>2. PICK g : g = [k \in 0 .. m + 1 |-> SpineBody(h, f, k)] OBVIOUS
    <2>3. \A k \in 0 .. m : g[k] = f[k] BY <2>1, <2>2
    <2>4. ASSUME NEW k \in 0 .. m + 1 PROVE SpineBody(h, f, k) = SpineBody(h, g, k)
      <3>1. k = 0 \/ g[k - 1] = f[k - 1] BY <2>3
      <3> QED BY <3>1 DEF SpineBody
    <2>5. g = [k \in 0 .. m + 1 |-> SpineBody(h, g, k)] BY <2>2, <2>4
    <2>6. m + 1 \in 0 .. n OBVIOUS
    <2> QED BY <2>5, <2>6
  <1>3. \A m \in 0 .. n : m \in S
    <2> HIDE DEF S
    <2> QED BY <1>1, <1>2, Upto
  <1> QED BY <1>3

\* The cells of a list lead to no free cell when its head does not.
LEMMA SpineKept ==
  ASSUME NEW h, NEW F, Sound(h, F), NEW list, Kept(F, list)
  PROVE  spine(h, list) \in Seq(Cell \ F)
  <1>1. PICK f : f = CHOOSE w : w = [k \in 0 .. heap_size |-> SpineBody(h, w, k)] OBVIOUS
  <1>2. heap_size \in Nat BY HeapSizeAssumption
  <1>3. f = [k \in 0 .. heap_size |-> SpineBody(h, f, k)] BY <1>1, <1>2, SpineExists
  <1>4. spine(h, list) = IF type_of(list) = "CONS" THEN f[heap_size][dec_ptr(list)] ELSE <<>>
    BY <1>1 DEF spine, SpineBody
  <1>5. \A v : type_of(v) = "CONS" => is_ptr(v) BY DEF is_ptr, PtrType
  <1> DEFINE S == {n \in 0 .. heap_size : \A c \in Cell \ F : f[n][c] \in Seq(Cell \ F)}
  <1>6. ASSUME NEW n \in 0 .. heap_size, NEW c \in Cell \ F, n = 0 \/ n - 1 \in S
        PROVE  f[n][c] \in Seq(Cell \ F)
    <2>1. f[n][c] = <<c>> \o (IF n > 0 /\ type_of(h.cdr[c]) = "CONS" THEN f[n - 1][dec_ptr(h.cdr[c])]
                              ELSE <<>>)
      <3>1. f[n] = SpineBody(h, f, n) BY <1>3
      <3> QED BY <3>1 DEF SpineBody
    <2>2. PICK rest : rest = IF n > 0 /\ type_of(h.cdr[c]) = "CONS" THEN f[n - 1][dec_ptr(h.cdr[c])]
                             ELSE <<>>
      OBVIOUS
    <2>3. Kept(F, h.cdr[c]) BY DEF Sound, SoundHeap
    <2>4. type_of(h.cdr[c]) = "CONS" => dec_ptr(h.cdr[c]) \in Cell \ F BY <1>5, <2>3 DEF Kept
    <2>5. n > 0 => n - 1 \in S BY <1>6
    <2>6. rest \in Seq(Cell \ F) BY <2>2, <2>4, <2>5
    <2>7. <<c>> \in Seq(Cell \ F) OBVIOUS
    <2>8. <<c>> \o rest \in Seq(Cell \ F)
      <3> HIDE DEF S
      <3> QED BY <2>6, <2>7
    <2> QED BY <2>1, <2>2, <2>8
  <1>7. \A n \in 0 .. heap_size : n \in S
    <2>1. 0 \in S BY <1>2, <1>6
    <2>2. ASSUME NEW n \in 0 .. heap_size - 1, n \in S PROVE n + 1 \in S
      <3>1. n + 1 \in 0 .. heap_size /\ (n + 1) - 1 = n BY <1>2
      <3>2. (n + 1) - 1 \in S BY <2>2, <3>1
      <3>3. \A c \in Cell \ F : f[n + 1][c] \in Seq(Cell \ F)
        <4> HIDE DEF S
        <4> QED BY <1>6, <3>1, <3>2
      <3> QED BY <3>1, <3>3
    <2> HIDE DEF S
    <2> QED BY <1>2, <2>1, <2>2, Upto
  <1>8. heap_size \in S BY <1>2, <1>7
  <1>9. type_of(list) = "CONS" => dec_ptr(list) \in Cell \ F BY <1>5 DEF Kept
  <1> QED BY <1>4, <1>8, <1>9

LEMMA ElementsKept ==
  ASSUME NEW h, NEW F, Sound(h, F), NEW list, Kept(F, list)
  PROVE  KeptSeq(F, elements(h, list))
  <1>1. PICK cs : cs = spine(h, list) OBVIOUS
  <1>2. cs \in Seq(Cell \ F) BY <1>1, SpineKept
  <1>3. PICK n : n = Len(cs) OBVIOUS
  <1>4. n \in Nat /\ \A k \in 1 .. n : cs[k] \in Cell \ F BY <1>2, <1>3
  <1>5. PICK es : es = [k \in 1 .. n |-> h.car[cs[k]]] OBVIOUS
  <1>6. IsSeq(es) /\ Len(es) = n BY <1>4, <1>5, MadeSeq
  <1>7. \A c \in Cell \ F : Kept(F, h.car[c]) BY DEF Sound, SoundHeap
  <1>8. \A k \in 1 .. n : Kept(F, es[k]) BY <1>4, <1>5, <1>7
  <1>9. elements(h, list) = es BY <1>1, <1>3, <1>5 DEF elements
  <1> QED BY <1>4, <1>6, <1>8, <1>9 DEF KeptSeq

LEMMA LeavesMore ==
  ASSUME NEW F, NEW E, E \subseteq F, NEW res, Leaves(res, E)
  PROVE  Leaves(res, F)
  BY DEF Leaves

LEMMA KeptSeqMore ==
  ASSUME NEW F, NEW E, E \subseteq F, NEW s, KeptSeq(F, s)
  PROVE  KeptSeq(E, s)
  BY KeptMore DEF KeptSeq

LEMMA PushFrontLeaves ==
  ASSUME NEW F, NEW s, Leaves(s, F), NEW v, Kept(F, v)
  PROVE  Leaves(push_front(s, v), F)
  <1>1. PICK E : E \subseteq F /\ Sound(s.h, E) /\ Kept(E, s.v) BY DEF Leaves
  <1>2. Kept(E, v) BY <1>1, KeptMore
  <1>3. Leaves(cons_result(s.h, v, s.v), E) BY <1>1, <1>2, ConsLeaves
  <1>4. Leaves(cons_result(s.h, v, s.v), F) BY <1>1, <1>3, LeavesMore
  <1> QED BY <1>4 DEF push_front

PushBody(h, vals, which, tail, f, k) ==
  IF k = 0 THEN [h |-> h, v |-> tail]
  ELSE IF k \in which THEN push_front(f[k - 1], vals[k]) ELSE f[k - 1]

PushFun(h, vals, which, tail, n, f) == f = [k \in 0 .. n |-> PushBody(h, vals, which, tail, f, k)]

LEMMA PushExists ==
  ASSUME NEW h, NEW vals, NEW which, NEW tail, NEW n \in Nat
  PROVE  \E f : PushFun(h, vals, which, tail, n, f)
  <1> DEFINE S == {m \in 0 .. n : \E f : f = [k \in 0 .. m |-> PushBody(h, vals, which, tail, f, k)]}
  <1>1. 0 \in S
    <2>1. PICK f : f = [k \in 0 .. 0 |-> PushBody(h, vals, which, tail, <<>>, 0)] OBVIOUS
    <2>2. \A k \in 0 .. 0 : k = 0 OBVIOUS
    <2>3. PushBody(h, vals, which, tail, f, 0) = PushBody(h, vals, which, tail, <<>>, 0) BY DEF PushBody
    <2>4. f = [k \in 0 .. 0 |-> PushBody(h, vals, which, tail, f, k)] BY <2>1, <2>2, <2>3
    <2> QED BY <2>4
  <1>2. ASSUME NEW m \in 0 .. n - 1, m \in S PROVE m + 1 \in S
    <2>1. PICK f : f = [k \in 0 .. m |-> PushBody(h, vals, which, tail, f, k)] BY <1>2
    <2>2. PICK g : g = [k \in 0 .. m + 1 |-> PushBody(h, vals, which, tail, f, k)] OBVIOUS
    <2>3. \A k \in 0 .. m : g[k] = f[k] BY <2>1, <2>2
    <2>4. ASSUME NEW k \in 0 .. m + 1 PROVE PushBody(h, vals, which, tail, f, k) = PushBody(h, vals, which, tail, g, k)
      <3>1. k = 0 \/ g[k - 1] = f[k - 1] BY <2>3
      <3> QED BY <3>1 DEF PushBody
    <2>5. g = [k \in 0 .. m + 1 |-> PushBody(h, vals, which, tail, g, k)] BY <2>2, <2>4
    <2>6. m + 1 \in 0 .. n OBVIOUS
    <2> QED BY <2>5, <2>6
  <1>3. \A m \in 0 .. n : m \in S
    <2> HIDE DEF S
    <2> QED BY <1>1, <1>2, Upto
  <1>4. \E f : f = [k \in 0 .. n |-> PushBody(h, vals, which, tail, f, k)] BY <1>3
  <1> QED BY <1>4, Zenon DEF PushFun

LEMMA PushEachLeaves ==
  ASSUME NEW h, NEW F, Sound(h, F), NEW vals, KeptSeq(F, vals), NEW which, NEW tail, Kept(F, tail)
  PROVE  Leaves(push_each(h, vals, which, tail), F)
  <1>1. PICK n : n = Len(vals) OBVIOUS
  <1>2. n \in Nat BY <1>1 DEF KeptSeq
  <1>3. PICK f : f = CHOOSE w : PushFun(h, vals, which, tail, n, w) OBVIOUS
  <1>4. f = [k \in 0 .. n |-> PushBody(h, vals, which, tail, f, k)]
    <2>1. \E w : PushFun(h, vals, which, tail, n, w) BY <1>2, PushExists, Zenon
    <2>2. PushFun(h, vals, which, tail, n, f) BY <1>3, <2>1, Zenon
    <2> QED BY <2>2, Zenon DEF PushFun
  <1>5. push_each(h, vals, which, tail) = f[n] BY <1>1, <1>3 DEF push_each, PushFun, PushBody
  <1> DEFINE S == {k \in 0 .. n : Leaves(f[k], F)}
  <1>6. 0 \in S
    <2>1. f[0] = [h |-> h, v |-> tail] BY <1>2, <1>4 DEF PushBody
    <2>2. Leaves(f[0], F) BY <2>1 DEF Leaves
    <2> QED BY <1>2, <2>2
  <1>7. ASSUME NEW m \in 0 .. n - 1, m \in S PROVE m + 1 \in S
    <2>1. m + 1 \in 0 .. n /\ m + 1 \in 1 .. n /\ m + 1 # 0 /\ (m + 1) - 1 = m BY <1>2
    <2>2. f[m + 1] = PushBody(h, vals, which, tail, f, m + 1) BY <1>4, <2>1
    <2>3. f[m + 1] \in {push_front(f[m], vals[m + 1]), f[m]} BY <2>1, <2>2 DEF PushBody
    <2>4. Leaves(f[m], F) BY <1>7
    <2>5. Kept(F, vals[m + 1]) BY <1>1, <2>1 DEF KeptSeq
    <2>6. Leaves(f[m + 1], F) BY <2>3, <2>4, <2>5, PushFrontLeaves
    <2> QED BY <2>1, <2>6
  <1>8. n \in S
    <2>1. n \in 0 .. n BY <1>2
    <2> HIDE DEF S
    <2> QED BY <1>2, <1>6, <1>7, <2>1, Upto
  <1> QED BY <1>5, <1>8

LEMMA BindFrontLeaves ==
  ASSUME NEW F, NEW s, Leaves(s, F), NEW key, Kept(F, key), NEW val, Kept(F, val)
  PROVE  Leaves(bind_front(s, key, val), F)
  <1>1. PICK E : E \subseteq F /\ Sound(s.h, E) /\ Kept(E, s.v) BY DEF Leaves
  <1>2. Kept(E, key) /\ Kept(E, val) BY <1>1, KeptMore
  <1>3. PICK entry : entry = cons_result(s.h, key, val) OBVIOUS
  <1>4. Leaves(entry, E) BY <1>1, <1>2, <1>3, ConsLeaves
  <1>5. PICK D : D \subseteq E /\ Sound(entry.h, D) /\ Kept(D, entry.v) BY <1>4 DEF Leaves
  <1>6. Kept(D, s.v) BY <1>1, <1>5, KeptMore
  <1>7. Leaves(cons_result(entry.h, entry.v, s.v), D) BY <1>5, <1>6, ConsLeaves
  <1>8. D \subseteq F BY <1>1, <1>5
  <1>9. Leaves(cons_result(entry.h, entry.v, s.v), F) BY <1>7, <1>8, LeavesMore
  <1> QED BY <1>3, <1>9 DEF bind_front

BindBody(h, keys, vals, env0, f, k) ==
  IF k = 0 THEN [h |-> h, v |-> env0] ELSE bind_front(f[k - 1], keys[k], vals[k])

LEMMA BindExists ==
  ASSUME NEW h, NEW keys, NEW vals, NEW env0, NEW n \in Nat
  PROVE  \E f : f = [k \in 0 .. n |-> BindBody(h, keys, vals, env0, f, k)]
  <1> DEFINE S == {m \in 0 .. n : \E f : f = [k \in 0 .. m |-> BindBody(h, keys, vals, env0, f, k)]}
  <1>1. 0 \in S
    <2>1. PICK f : f = [k \in 0 .. 0 |-> BindBody(h, keys, vals, env0, <<>>, 0)] OBVIOUS
    <2>2. \A k \in 0 .. 0 : k = 0 OBVIOUS
    <2>3. BindBody(h, keys, vals, env0, f, 0) = BindBody(h, keys, vals, env0, <<>>, 0) BY DEF BindBody
    <2>4. f = [k \in 0 .. 0 |-> BindBody(h, keys, vals, env0, f, k)] BY <2>1, <2>2, <2>3
    <2> QED BY <2>4
  <1>2. ASSUME NEW m \in 0 .. n - 1, m \in S PROVE m + 1 \in S
    <2>1. PICK f : f = [k \in 0 .. m |-> BindBody(h, keys, vals, env0, f, k)] BY <1>2
    <2>2. PICK g : g = [k \in 0 .. m + 1 |-> BindBody(h, keys, vals, env0, f, k)] OBVIOUS
    <2>3. \A k \in 0 .. m : g[k] = f[k] BY <2>1, <2>2
    <2>4. ASSUME NEW k \in 0 .. m + 1 PROVE BindBody(h, keys, vals, env0, f, k) = BindBody(h, keys, vals, env0, g, k)
      <3>1. k = 0 \/ g[k - 1] = f[k - 1] BY <2>3
      <3> QED BY <3>1 DEF BindBody
    <2>5. g = [k \in 0 .. m + 1 |-> BindBody(h, keys, vals, env0, g, k)] BY <2>2, <2>4
    <2>6. m + 1 \in 0 .. n OBVIOUS
    <2> QED BY <2>5, <2>6
  <1>3. \A m \in 0 .. n : m \in S
    <2> HIDE DEF S
    <2> QED BY <1>1, <1>2, Upto
  <1> QED BY <1>3

LEMMA BindEachLeaves ==
  ASSUME NEW h, NEW F, Sound(h, F), NEW keys, KeptSeq(F, keys), NEW vals, KeptSeq(F, vals),
         Len(vals) = Len(keys), NEW env0, Kept(F, env0)
  PROVE  Leaves(bind_each(h, keys, vals, env0), F)
  <1>1. PICK n : n = Len(keys) OBVIOUS
  <1>2. n \in Nat BY <1>1 DEF KeptSeq
  <1>3. PICK f : f = CHOOSE w : w = [k \in 0 .. n |-> BindBody(h, keys, vals, env0, w, k)] OBVIOUS
  <1>4. f = [k \in 0 .. n |-> BindBody(h, keys, vals, env0, f, k)]
    <2>1. \E w : w = [k \in 0 .. n |-> BindBody(h, keys, vals, env0, w, k)] BY <1>2, BindExists
    <2> QED BY <1>3, <2>1
  <1>5. bind_each(h, keys, vals, env0) = f[n] BY <1>1, <1>3 DEF bind_each, BindBody
  <1> DEFINE S == {k \in 0 .. n : Leaves(f[k], F)}
  <1>6. 0 \in S
    <2>1. f[0] = [h |-> h, v |-> env0] BY <1>2, <1>4 DEF BindBody
    <2>2. Leaves(f[0], F) BY <2>1 DEF Leaves
    <2> QED BY <1>2, <2>2
  <1>7. ASSUME NEW m \in 0 .. n - 1, m \in S PROVE m + 1 \in S
    <2>1. m + 1 \in 0 .. n /\ m + 1 \in 1 .. n /\ m + 1 # 0 /\ (m + 1) - 1 = m BY <1>2
    <2>2. f[m + 1] = BindBody(h, keys, vals, env0, f, m + 1) BY <1>4, <2>1
    <2>3. f[m + 1] = bind_front(f[m], keys[m + 1], vals[m + 1]) BY <2>1, <2>2 DEF BindBody
    <2>4. Leaves(f[m], F) BY <1>7
    <2>5. Kept(F, keys[m + 1]) /\ Kept(F, vals[m + 1]) BY <1>1, <2>1 DEF KeptSeq
    <2>6. Leaves(f[m + 1], F) BY <2>3, <2>4, <2>5, BindFrontLeaves
    <2> QED BY <2>1, <2>6
  <1>8. n \in S
    <2>1. n \in 0 .. n BY <1>2
    <2> HIDE DEF S
    <2> QED BY <1>2, <1>6, <1>7, <2>1, Upto
  <1> QED BY <1>5, <1>8


(***************************************************************************)
(* Environments                                                            *)
(***************************************************************************)
LEMMA FirstBindingKept ==
  ASSUME NEW h, NEW F, Sound(h, F), NEW env, Kept(F, env), NEW key, bindings(h, env, key) # {}
  PROVE  Kept(F, first_binding(h, env, key))
  <1>1. PICK es : es = elements(h, env) OBVIOUS
  <1>2. KeptSeq(F, es) BY <1>1, ElementsKept
  <1>3. PICK B : B = bindings(h, env, key) OBVIOUS
  <1>4. B \subseteq 1 .. Len(es) BY <1>1, <1>3 DEF bindings
  <1>5. B \subseteq Nat BY <1>2, <1>4 DEF KeptSeq
  <1>6. \E x \in B : \A y \in B : x <= y BY <1>3, <1>5, LeastNat
  <1>7. Min(B) \in B BY <1>6 DEF Min
  <1>8. Kept(F, es[Min(B)]) BY <1>2, <1>4, <1>7 DEF KeptSeq
  <1> QED BY <1>1, <1>3, <1>8 DEF first_binding

LEMMA LookupKept ==
  ASSUME NEW h, NEW F, Sound(h, F), NEW env, Kept(F, env), NEW key
  PROVE  Kept(F, env_lookup(h, key, env))
  <1>1. Kept(F, NIL) /\ Kept(F, NOT_FOUND) BY KeptSym DEF NOT_FOUND
  <1>2. bindings(h, env, key) # {} => Kept(F, cdr(h, first_binding(h, env, key)))
    BY FirstBindingKept, CarKept
  <1> QED BY <1>1, <1>2 DEF env_lookup

LEMMA ModifySound ==
  ASSUME NEW h, NEW F, Sound(h, F), NEW env, Kept(F, env), NEW key, NEW val, Kept(F, val)
  PROVE  Sound(env_modify_binding(h, env, key, val), F)
  <1>1. bindings(h, env, key) # {} => Sound(set_cdr(h, first_binding(h, env, key), val), F)
    BY FirstBindingKept, SetCdrSound
  <1> QED BY <1>1 DEF env_modify_binding

LEMMA EnvSetLeaves ==
  ASSUME NEW h, NEW F, Sound(h, F), NEW env, Kept(F, env), NEW key, Kept(F, key), NEW val, Kept(F, val)
  PROVE  Leaves(env_set(h, env, key, val), F)
  <1>1. PICK keyval : keyval = cons_result(h, key, val) OBVIOUS
  <1>2. PICK new_env : new_env = cons_result(keyval.h, keyval.v, env) OBVIOUS
  <1>3. PICK set : set = [h |-> set_cdr(h, first_binding(h, env, key), val), v |-> env] OBVIOUS
  <1>4. PICK half : half = [h |-> new_env.h, v |-> keyval.v] OBVIOUS
  <1>5. env_set(h, env, key, val) = IF bindings(h, env, key) # {} THEN set
                                    ELSE IF ~ is_ptr(keyval.v) THEN keyval
                                    ELSE IF ~ is_ptr(new_env.v) THEN half
                                    ELSE new_env
    BY <1>1, <1>2, <1>3, <1>4 DEF env_set
  <1>6. Leaves(keyval, F) BY <1>1, ConsLeaves
  <1>7. PICK E : E \subseteq F /\ Sound(keyval.h, E) /\ Kept(E, keyval.v) BY <1>6 DEF Leaves
  <1>8. Kept(E, env) BY <1>7, KeptMore
  <1>9. Leaves(new_env, E) BY <1>2, <1>7, <1>8, ConsLeaves
  <1>10. Leaves(new_env, F) BY <1>7, <1>9, LeavesMore
  <1>11. PICK D : D \subseteq E /\ Sound(new_env.h, D) BY <1>9 DEF Leaves
  <1>12. Kept(D, keyval.v) /\ D \subseteq F BY <1>7, <1>11, KeptMore
  <1>13. Leaves(half, F) BY <1>4, <1>11, <1>12 DEF Leaves
  <1>14. bindings(h, env, key) # {} => Leaves(set, F)
    <2> SUFFICES ASSUME bindings(h, env, key) # {} PROVE Leaves(set, F) OBVIOUS
    <2>1. Sound(set_cdr(h, first_binding(h, env, key), val), F) BY FirstBindingKept, SetCdrSound
    <2> QED BY <1>3, <2>1 DEF Leaves
  <1> QED BY <1>5, <1>6, <1>10, <1>13, <1>14

LEMMA CopyLeaves ==
  ASSUME NEW h, NEW F, Sound(h, F), NEW env, Kept(F, env)
  PROVE  Leaves(env_copy_shallow(h, env), F)
  <1>1. KeptSeq(F, elements(h, env)) BY ElementsKept
  <1>2. \A which : Leaves(push_each(h, elements(h, env), which, NIL), F)
    BY <1>1, KeptSym, PushEachLeaves
  <1> QED BY <1>2 DEF env_copy_shallow

LEMMA BuildLeaves ==
  ASSUME NEW h, NEW F, Sound(h, F), NEW params, Kept(F, params), NEW args, Kept(F, args),
         NEW env0, Kept(F, env0)
  PROVE  Leaves(env_build_params_args(h, params, args, env0), F)
  <1>1. PICK ps, as : ps = elements(h, params) /\ as = elements(h, args) OBVIOUS
  <1>2. KeptSeq(F, ps) /\ KeptSeq(F, as) BY <1>1, ElementsKept
  <1>3. Len(ps) = Len(as) => Leaves(bind_each(h, ps, as, env0), F) BY <1>2, BindEachLeaves
  <1>4. PICK no : no = [h |-> h, v |-> FATAL_ERROR] OBVIOUS
  <1>5. Leaves(no, F) BY <1>4, KeptSym DEF Leaves, FATAL_ERROR
  <1>6. env_build_params_args(h, params, args, env0) =
          IF Len(ps) # Len(as) THEN no ELSE bind_each(h, ps, as, env0)
    BY <1>1, <1>4 DEF env_build_params_args
  <1> QED BY <1>3, <1>5, <1>6

NthBody(v, f, k) == IF k = 0 THEN v ELSE cdr(heap, f[k - 1])

LEMMA NthExists ==
  ASSUME NEW v, NEW n \in Nat
  PROVE  \E f : f = [k \in 0 .. n |-> NthBody(v, f, k)]
  <1> DEFINE S == {m \in 0 .. n : \E f : f = [k \in 0 .. m |-> NthBody(v, f, k)]}
  <1>1. 0 \in S
    <2>1. PICK f : f = [k \in 0 .. 0 |-> NthBody(v, <<>>, 0)] OBVIOUS
    <2>2. \A k \in 0 .. 0 : k = 0 OBVIOUS
    <2>3. NthBody(v, f, 0) = NthBody(v, <<>>, 0) BY DEF NthBody
    <2>4. f = [k \in 0 .. 0 |-> NthBody(v, f, k)] BY <2>1, <2>2, <2>3
    <2> QED BY <2>4
  <1>2. ASSUME NEW m \in 0 .. n - 1, m \in S PROVE m + 1 \in S
    <2>1. PICK f : f = [k \in 0 .. m |-> NthBody(v, f, k)] BY <1>2
    <2>2. PICK g : g = [k \in 0 .. m + 1 |-> NthBody(v, f, k)] OBVIOUS
    <2>3. \A k \in 0 .. m : g[k] = f[k] BY <2>1, <2>2
    <2>4. ASSUME NEW k \in 0 .. m + 1 PROVE NthBody(v, f, k) = NthBody(v, g, k)
      <3>1. k = 0 \/ g[k - 1] = f[k - 1] BY <2>3
      <3> QED BY <3>1 DEF NthBody
    <2>5. g = [k \in 0 .. m + 1 |-> NthBody(v, g, k)] BY <2>2, <2>4
    <2>6. m + 1 \in 0 .. n OBVIOUS
    <2> QED BY <2>5, <2>6
  <1>3. \A m \in 0 .. n : m \in S
    <2> HIDE DEF S
    <2> QED BY <1>1, <1>2, Upto
  <1> QED BY <1>3

LEMMA NthKept ==
  ASSUME NEW F, Sound(heap, F), NEW v, Kept(F, v), NEW n \in Nat
  PROVE  Kept(F, nthcdr(v, n)) /\ Kept(F, nth(v, n))
  <1>1. PICK f : f = CHOOSE w : w = [k \in 0 .. n |-> NthBody(v, w, k)] OBVIOUS
  <1>2. f = [k \in 0 .. n |-> NthBody(v, f, k)] BY <1>1, NthExists
  <1>3. nthcdr(v, n) = f[n] BY <1>1 DEF nthcdr, NthBody
  <1> DEFINE S == {k \in 0 .. n : Kept(F, f[k])}
  <1>4. 0 \in S BY <1>2 DEF NthBody
  <1>5. ASSUME NEW m \in 0 .. n - 1, m \in S PROVE m + 1 \in S
    <2>1. m + 1 \in 0 .. n /\ m + 1 # 0 /\ (m + 1) - 1 = m OBVIOUS
    <2>2. f[m + 1] = NthBody(v, f, m + 1) BY <1>2, <2>1
    <2>3. f[m + 1] = cdr(heap, f[m]) BY <2>1, <2>2 DEF NthBody
    <2>4. Kept(F, f[m + 1]) BY <1>5, <2>3, CarKept
    <2> QED BY <2>1, <2>4
  <1>6. n \in S
    <2> HIDE DEF S
    <2> QED BY <1>4, <1>5, Upto
  <1>7. Kept(F, nthcdr(v, n)) BY <1>3, <1>6
  <1> QED BY <1>7, CarKept DEF nth

(***************************************************************************)
(* Fundamental operations                                                  *)
(***************************************************************************)
LEMMA OntoLeaves ==
  ASSUME NEW h, NEW F, Sound(h, F), NEW elems, KeptSeq(F, elems), NEW tail, Kept(F, tail)
  PROVE  Leaves(list_onto(h, elems, tail), F)
  <1>1. PICK n : n = Len(elems) OBVIOUS
  <1>2. n \in Nat /\ \A k \in 1 .. n : Kept(F, elems[k]) BY <1>1 DEF KeptSeq
  <1>3. PICK s : s = [k \in 1 .. n |-> elems[(n - k) + 1]] OBVIOUS
  <1>4. IsSeq(s) /\ Len(s) = n BY <1>2, <1>3, MadeSeq
  <1>5. \A k \in 1 .. n : (n - k) + 1 \in 1 .. n BY <1>2
  <1>6. KeptSeq(F, s) BY <1>2, <1>3, <1>4, <1>5 DEF KeptSeq
  <1>7. Reverse(elems) = s BY <1>1, <1>3 DEF Reverse
  <1> QED BY <1>6, <1>7, PushEachLeaves DEF list_onto

op2(op, a, b) ==
  CASE op = "+" -> add2(a, b) [] op = "-" -> sub2(a, b) [] op = "*" -> mul2(a, b)
    [] op = "/" -> div2(a, b) [] op = "mod" -> mod2(a, b)

LEMMA CalculatedNoPointer ==
  ASSUME NEW op \in {"+", "-", "*", "/", "mod"}, NEW a, NEW b
  PROVE  ~ is_ptr(op2(op, a, b))
  <1>1. \A n : ~ is_ptr(enc_i(n)) /\ ~ is_ptr(enc_u(n))
    BY DEF enc_i, enc_u, is_ptr, PtrType, type_of
  <1>2. \A n : ~ is_ptr(retval(a, b, n)) BY <1>1, Pointers DEF retval
  <1>3. ~ is_ptr(EERROR) /\ ~ is_ptr(DIVZERO) BY Pointers DEF EERROR, DIVZERO
  <1>4. ~ is_ptr(add2(a, b)) BY <1>2, <1>3 DEF add2
  <1>5. ~ is_ptr(sub2(a, b)) BY <1>2, Pointers DEF sub2
  <1>6. ~ is_ptr(mul2(a, b)) BY <1>2 DEF mul2
  <1>7. ~ is_ptr(div2(a, b)) BY <1>2, <1>3 DEF div2
  <1>8. ~ is_ptr(mod2(a, b)) BY <1>2, <1>3 DEF mod2
  <1> QED BY <1>4, <1>5, <1>6, <1>7, <1>8 DEF op2

ArithBody(op, args, f, k) ==
  IF k < 2 THEN args[1]
  ELSE IF k > 2 /\ type_of(f[k - 1]) = "SYM" THEN f[k - 1]
  ELSE op2(op, f[k - 1], args[k])

LEMMA ArithExists ==
  ASSUME NEW op, NEW args, NEW n \in Nat
  PROVE  \E f : f = [k \in 0 .. n |-> ArithBody(op, args, f, k)]
  <1> DEFINE S == {m \in 0 .. n : \E f : f = [k \in 0 .. m |-> ArithBody(op, args, f, k)]}
  <1>1. 0 \in S
    <2>1. PICK f : f = [k \in 0 .. 0 |-> ArithBody(op, args, <<>>, 0)] OBVIOUS
    <2>2. \A k \in 0 .. 0 : k = 0 OBVIOUS
    <2>3. ArithBody(op, args, f, 0) = ArithBody(op, args, <<>>, 0) BY DEF ArithBody
    <2>4. f = [k \in 0 .. 0 |-> ArithBody(op, args, f, k)] BY <2>1, <2>2, <2>3
    <2> QED BY <2>4
  <1>2. ASSUME NEW m \in 0 .. n - 1, m \in S PROVE m + 1 \in S
    <2>1. PICK f : f = [k \in 0 .. m |-> ArithBody(op, args, f, k)] BY <1>2
    <2>2. PICK g : g = [k \in 0 .. m + 1 |-> ArithBody(op, args, f, k)] OBVIOUS
    <2>3. \A k \in 0 .. m : g[k] = f[k] BY <2>1, <2>2
    <2>4. ASSUME NEW k \in 0 .. m + 1 PROVE ArithBody(op, args, f, k) = ArithBody(op, args, g, k)
      <3>1. k = 0 \/ g[k - 1] = f[k - 1] BY <2>3
      <3> QED BY <3>1 DEF ArithBody
    <2>5. g = [k \in 0 .. m + 1 |-> ArithBody(op, args, g, k)] BY <2>2, <2>4
    <2>6. m + 1 \in 0 .. n OBVIOUS
    <2> QED BY <2>5, <2>6
  <1>3. \A m \in 0 .. n : m \in S
    <2> HIDE DEF S
    <2> QED BY <1>1, <1>2, Upto
  <1> QED BY <1>3

LEMMA ArithKept ==
  ASSUME NEW F, NEW op \in {"+", "-", "*", "/", "mod"}, NEW args, Kept(F, args[1]), NEW nargs \in Nat
  PROVE  Kept(F, arith(op, args, nargs))
  <1>1. PICK f : f = CHOOSE w : w = [k \in 0 .. nargs |-> ArithBody(op, args, w, k)] OBVIOUS
  <1>2. f = [k \in 0 .. nargs |-> ArithBody(op, args, f, k)] BY <1>1, ArithExists
  <1>3. arith(op, args, nargs) = f[nargs] BY <1>1 DEF arith, ArithBody, op2
  <1>4. \A a, b : Kept(F, op2(op, a, b)) BY CalculatedNoPointer DEF Kept
  <1> DEFINE S == {k \in 0 .. nargs : Kept(F, f[k])}
  <1>5. 0 \in S BY <1>2 DEF ArithBody
  <1>6. ASSUME NEW m \in 0 .. nargs - 1, m \in S PROVE m + 1 \in S
    <2>1. m + 1 \in 0 .. nargs /\ (m + 1) - 1 = m OBVIOUS
    <2>2. f[m + 1] = ArithBody(op, args, f, m + 1) BY <1>2, <2>1
    <2>3. f[m + 1] \in {args[1], f[m], op2(op, f[m], args[m + 1])} BY <2>1, <2>2 DEF ArithBody
    <2>4. Kept(F, f[m]) BY <1>6
    <2>5. Kept(F, f[m + 1]) BY <1>4, <2>3, <2>4
    <2> QED BY <2>1, <2>5
  <1>7. nargs \in S
    <2> HIDE DEF S
    <2> QED BY <1>5, <1>6, Upto
  <1> QED BY <1>3, <1>7

\* The words that an operation uses lead to no free cell; there may be others.
ArgsKept(F, op, args, nargs) ==
  /\ IsSeq(args) /\ Len(args) \in Nat /\ nargs \in Nat /\ nargs <= Len(args)
  /\ \A k \in 1 .. Len(args) : k <= nargs \/ k <= ArgsRead(op) => Kept(F, args[k])
  /\ ArgsRead(op) <= Len(args)

LEMMA FundamentalLeaves ==
  ASSUME NEW h, NEW F, Sound(h, F), NEW op, NEW args, NEW nargs, ArgsKept(F, op, args, nargs)
  PROVE  Leaves(fundamental_exec(h, args, nargs, op), F)
  <1>0. PICK res : res = fundamental_exec(h, args, nargs, op) OBVIOUS
  <1>1. \A k \in 1 .. Len(args) : k <= nargs \/ k <= ArgsRead(op) => Kept(F, args[k]) BY DEF ArgsKept
  <1>2. IsSeq(args) /\ Len(args) \in Nat /\ nargs \in Nat /\ nargs <= Len(args) /\ ArgsRead(op) <= Len(args)
    BY DEF ArgsKept
  <1>3. CASE op = "cons"
    <2>1. res = cons_result(h, args[1], args[2]) BY <1>0, <1>3 DEF fundamental_exec
    <2>2. ArgsRead(op) = 2 BY <1>3 DEF ArgsRead
    <2>3. Kept(F, args[1]) /\ Kept(F, args[2]) BY <1>1, <1>2, <2>2
    <2> QED BY <1>0, <2>1, <2>3, ConsLeaves
  <1>4. CASE op = "list"
    <2>1. PICK s : s = SubSeq(args, 1, nargs) OBVIOUS
    <2>2. res = list_onto(h, s, NIL) BY <1>0, <1>4, <2>1 DEF fundamental_exec
    <2>3. nargs \in 0 .. Len(args) BY <1>2
    <2>4. IsSeq(s) /\ Len(s) = nargs /\ \A k \in 1 .. nargs : s[k] = args[k] BY <1>2, <2>1, <2>3, CutSeq
    <2>5. \A k \in 1 .. nargs : Kept(F, args[k]) BY <1>1, <1>2
    <2>6. KeptSeq(F, s) BY <1>2, <2>4, <2>5 DEF KeptSeq
    <2> QED BY <1>0, <2>2, <2>6, KeptSym, OntoLeaves
  <1>5. CASE op = "append"
    <2>1. PICK no : no = [h |-> h, v |-> EERROR] OBVIOUS
    <2>2. res = IF nargs # 2 THEN no ELSE list_onto(h, elements(h, args[1]), args[2])
      BY <1>0, <1>5, <2>1 DEF fundamental_exec
    <2>3. Leaves(no, F) BY <2>1, KeptSym DEF Leaves, EERROR
    <2>4. ASSUME nargs = 2 PROVE Leaves(list_onto(h, elements(h, args[1]), args[2]), F)
      <3>1. Kept(F, args[1]) /\ Kept(F, args[2]) BY <1>1, <1>2, <2>4
      <3>2. KeptSeq(F, elements(h, args[1])) BY <3>1, ElementsKept
      <3> QED BY <3>1, <3>2, OntoLeaves
    <2> QED BY <1>0, <2>2, <2>3, <2>4
  <1>6. CASE op \notin {"cons", "list", "append"}
    <2>1. PICK v :
            /\ res = [h |-> h, v |-> v]
            /\ v = CASE op = "car" -> car(h, args[1])
                [] op = "cdr" -> cdr(h, args[1])
                [] op \in {"+", "*", "/", "mod"} -> arith(op, args, nargs)
                [] op = "-" -> IF nargs = 1 THEN negate(args[1]) ELSE arith(op, args, nargs)
                [] op = "=" -> bool(eq_all(h, args, nargs))
                [] op = "num-eq" -> compare_all(args, nargs, 0)
                [] op = ">" -> compare_all(args, nargs, 1)
                [] op = "<" -> compare_all(args, nargs, -1)
                [] op = "not" -> bool(nargs # 0 /\ args[1] = NIL)
                [] op = "is-fundamental" -> bool(nargs # 0 /\ is_fundamental(args[1]))
                [] op = "type-of" -> IF nargs = 1 THEN type_name(args[1]) ELSE NIL
                [] OTHER -> EERROR
      BY <1>0, <1>6 DEF fundamental_exec
    <2>2. Kept(F, T) /\ Kept(F, NIL) /\ Kept(F, TERROR) /\ Kept(F, EERROR) BY KeptSym DEF T, TERROR, EERROR
    <2>3. \A b : Kept(F, bool(b)) BY <2>2 DEF bool
    <2>4. \A k : Kept(F, compare_all(args, nargs, k)) BY <2>2, <2>3 DEF compare_all
    <2>5. Kept(F, type_name(args[1]))
      <3>1. \A s : Kept(F, sym(s)) BY KeptSym
      <3> QED BY <2>2, <3>1 DEF type_name
    <2>6. Kept(F, negate(args[1]))
      <3>1. \A n : ~ is_ptr(enc_i(n)) /\ ~ is_ptr(enc_u(n))
        BY DEF enc_i, enc_u, is_ptr, PtrType, type_of
      <3>2. \A n : ~ is_ptr(retval(args[1], args[1], n)) BY <3>1, Pointers DEF retval
      <3> QED BY <2>2, <3>2 DEF negate, Kept
    <2>7. op \in {"car", "cdr", "+", "-", "*", "/", "mod"} => Kept(F, args[1])
      <3>1. op \in {"car", "cdr", "+", "-", "*", "/", "mod"} => ArgsRead(op) = 1 BY DEF ArgsRead
      <3> QED BY <1>1, <1>2, <3>1
    <2>8. op \in {"+", "-", "*", "/", "mod"} => Kept(F, arith(op, args, nargs))
      BY <1>2, <2>7, ArithKept
    <2>9. op \in {"car", "cdr"} => Kept(F, car(h, args[1])) /\ Kept(F, cdr(h, args[1])) BY <2>7, CarKept
    <2>10. Kept(F, v) BY <2>1, <2>2, <2>3, <2>4, <2>5, <2>6, <2>8, <2>9
    <2>11. res.h = h /\ res.v = v BY <2>1
    <2>12. Leaves(res, F) BY <2>10, <2>11 DEF Leaves
    <2> QED BY <1>0, <2>12
  <1> QED BY <1>3, <1>4, <1>5, <1>6

=============================================================================
