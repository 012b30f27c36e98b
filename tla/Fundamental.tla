----------------------------- MODULE Fundamental -----------------------------
(***************************************************************************)
(* fundamental_exec of src/src/fundamental.c on lists, symbols and         *)
(* unboxed 28 bit numbers, signed and unsigned.  An operation is given the *)
(* words from its first argument on and the number of its arguments, and   *)
(* returns the heap it leaves behind and its result.                       *)
(***************************************************************************)
EXTENDS Env

EERROR == sym("eval_error")
DIVZERO == sym("division_by_zero")
T == sym("t")
bool(b) == IF b THEN T ELSE NIL

\* enc_i and enc_u keep the low 28 bits.
enc_i(n) == <<"I", ((n + 2^27) % 2^28) - 2^27>>
enc_u(n) == <<"U", n % 2^28>>
dec_i(v) == v[2]
is_number(v) == type_of(v) \in {"I", "U"}

\* The operands are exchanged when the first has the smaller type.
Rank(v) == CHOOSE k \in 1 .. 4 : <<"SYM", "I", "U", "CONS">>[k] = type_of(v)
swapped(a, b) == Rank(a) < Rank(b)
t_max(a, b) == IF swapped(a, b) THEN b ELSE a
t_min(a, b) == IF swapped(a, b) THEN a ELSE b

\* A word of 30 bits is enough to tell what becomes of a negative number as an
\* unsigned one: it is larger than any of 28 bits.  Of anything that is no number
\* as_i and as_u make 0.
as_i(v) == IF is_number(v) THEN v[2] ELSE 0
as_u(v) == as_i(v) % 2^30

\* What is calculated with, of the type of t_max: i0 and i1, or u0 and u1.
n0(a, b) == dec_i(t_max(a, b))
n1(a, b) == IF type_of(t_max(a, b)) = "I" THEN as_i(t_min(a, b)) ELSE as_u(t_min(a, b))
retval(a, b, n) ==
  CASE type_of(t_max(a, b)) = "I" -> enc_i(n)
    [] type_of(t_max(a, b)) = "U" -> enc_u(n)
    [] OTHER -> TERROR

add2(a, b) == IF is_number(t_min(a, b)) THEN retval(a, b, n0(a, b) + n1(a, b)) ELSE EERROR

\* - and / do not undo the exchange.
sub2(a, b) ==
  IF type_of(t_min(a, b)) = "SYM" THEN TERROR ELSE retval(a, b, n0(a, b) - n1(a, b))

\* The other three do not return when t_min is no number, and take it for 0.
mul2(a, b) == retval(a, b, n0(a, b) * n1(a, b))

\* Division of C: the quotient is cut towards zero.
quotient(m, n) ==
  LET abs(i) == IF i < 0 THEN -i ELSE i
      q == abs(m) \div abs(n)
  IN IF (m < 0) # (n < 0) THEN -q ELSE q

ByZero(a, b) == is_number(t_max(a, b)) /\ n1(a, b) = 0
div2(a, b) == IF ByZero(a, b) THEN DIVZERO ELSE retval(a, b, quotient(n0(a, b), n1(a, b)))
mod2(a, b) ==
  IF ByZero(a, b) THEN DIVZERO
  ELSE retval(a, b, n0(a, b) - n1(a, b) * quotient(n0(a, b), n1(a, b)))

\* The arguments are taken from the left, up to the first result that is a symbol.
arith(op, args, nargs) ==
  LET op2(a, b) == CASE op = "+" -> add2(a, b) [] op = "-" -> sub2(a, b)
                     [] op = "*" -> mul2(a, b) [] op = "/" -> div2(a, b)
                     [] op = "mod" -> mod2(a, b)
      res[k \in 0 .. nargs] ==
        IF k < 2 THEN args[1]
        ELSE IF k > 2 /\ type_of(res[k - 1]) = "SYM" THEN res[k - 1]
        ELSE op2(res[k - 1], args[k])
  IN res[nargs]

negate(a) == IF is_number(a) THEN retval(a, a, - dec_i(a)) ELSE TERROR

struct_eq(h, a, b) ==
  LET eq[c \in Cell, d \in Cell] ==
        LET same(x, y) ==
              IF type_of(x) = "CONS" /\ type_of(y) = "CONS"
                THEN eq[dec_ptr(x), dec_ptr(y)] ELSE x = y
        IN same(h.car[c], h.car[d]) /\ same(h.cdr[c], h.cdr[d])
  IN IF type_of(a) = "CONS" /\ type_of(b) = "CONS" THEN eq[dec_ptr(a), dec_ptr(b)] ELSE a = b

\* = of several arguments compares the first with each of the others.
eq_all(h, args, nargs) == \A k \in 2 .. nargs : struct_eq(h, args[1], args[k])

\* Fault: the exchange is not undone.
compare_Exchanged(a, b) ==
  IF n0(a, b) = n1(a, b) THEN 0 ELSE IF n0(a, b) > n1(a, b) THEN 1 ELSE -1

\* Here the exchange is undone.
compare(a, b) ==
  IF n0(a, b) = n1(a, b) THEN 0 ELSE IF (n0(a, b) > n1(a, b)) # swapped(a, b) THEN 1 ELSE -1

compare_all(args, nargs, cmp_res) ==
  IF \E k \in {1} \cup 2 .. nargs : ~ is_number(args[k]) THEN TERROR
  ELSE bool(\A k \in 2 .. nargs : compare(args[1], args[k]) = cmp_res)

\* list and append cons from the last element to the first, and stop when an
\* allocation fails.
list_onto(h, elems, tail) == push_each(h, Reverse(elems), 1 .. Len(elems), tail)

Fundamentals == {"cons", "car", "cdr", "list", "append", "+", "-", "*", "/", "mod",
                 "=", "num-eq", ">", "<", "not", "type-of", "is-fundamental"}

\* The symbols between FUNDAMENTALS_START and FUNDAMENTALS_END; of some of them
\* fundamental_exec knows nothing.
is_fundamental(v) ==
  v \in {sym(s) : s \in Fundamentals \cup {"eval", "and", "or", "yield", "wait", "spawn"}}

type_name(v) == CASE type_of(v) = "CONS" -> sym("type-list") [] type_of(v) = "SYM" -> sym("type-symbol")
                  [] type_of(v) = "I" -> sym("type-i28") [] type_of(v) = "U" -> sym("type-u28")
                  [] OTHER -> TERROR

\* The words that an operation reads whatever nargs is.
ArgsRead(op) ==
  CASE op = "cons" -> 2
    [] op \in {"car", "cdr", "+", "-", "*", "/", "mod", "num-eq", ">", "<"} -> 1
    [] OTHER -> 0

\* Only some operations look at nargs; the others read the words that follow the
\* arguments when there are too few.
fundamental_exec(h, args, nargs, op) ==
  CASE op = "cons" -> cons_result(h, args[1], args[2])
    [] op = "list" -> list_onto(h, SubSeq(args, 1, nargs), NIL)
    [] op = "append" -> IF nargs # 2 THEN [h |-> h, v |-> EERROR]
                        ELSE list_onto(h, elements(h, args[1]), args[2])
    [] OTHER ->
       [h |-> h,
        v |-> CASE op = "car" -> car(h, args[1])
                [] op = "cdr" -> cdr(h, args[1])
                [] op \in {"+", "*", "/", "mod"} -> arith(op, args, nargs)
                [] op = "-" -> IF nargs = 1 THEN negate(args[1]) ELSE arith(op, args, nargs)
                [] op = "=" -> bool(eq_all(h, args, nargs))
                [] op = "num-eq" -> compare_all(args, nargs, 0)
                [] op = ">" -> compare_all(args, nargs, 1)
                [] op = "<" -> compare_all(args, nargs, -1)
                [] op = "not" -> bool(nargs # 0 /\ args[1] = NIL)
                [] op = "is-fundamental" -> bool(nargs # 0 /\ is_fundamental(args[1]))
                [] op = "type-of" -> IF nargs = 1 THEN type_name(args[1]) ELSE NIL
                [] OTHER -> EERROR]
=============================================================================
