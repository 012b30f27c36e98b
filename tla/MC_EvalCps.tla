----------------------------- MODULE MC_EvalCps -----------------------------
(***************************************************************************)
(* Programs for the evaluators: tests/test_*.lisp, with smaller numbers,   *)
(* some that spawn others, and some that end in an error.  Each is read    *)
(* into a heap in which a tree bound to "data" leaves only `free' cells    *)
(* unused.                                                                 *)
(***************************************************************************)
EXTENDS Evaluators

CONSTANTS Tests,        \* names of the programs to run with eval_cps
          EcTests,      \* ... with ec_eval
          Free,         \* numbers of free cells to start with
          StackSize,    \* entries of K
          ShortTests,   \* programs that also run with ...
          ShortStack    \* ... a stack too small for them

MC_Garbage == {sym("nil"), enc_cons_ptr(heap_size - 1)}

I(n) == <<"I", n>>
U(n) == <<"U", n>>
S(s) == <<"SYM", s>>
L(exps) == <<"LIST", exps>>
Q(e) == L(<<S("quote"), e>>)
Op(f, a, b) == L(<<S(f), a, b>>)
Call(f, exps) == L(<<S(f)>> \o exps)
Lambda(ps, body) == L(<<S("lambda"), L(ps), body>>)
Let(binds, body) == L(<<S("let"), L([k \in 1 .. Len(binds) |-> L(binds[k])]), body>>)
If(c, a, b) == L(<<S("if"), c, a, b>>)
Define(x, e) == L(<<S("define"), x, e>>)
Spawn(programs) == L(<<S("spawn")>> \o [k \in 1 .. Len(programs) |-> L(programs[k])])
f == S("f")
g == S("g")
n == S("n")
x == S("x")
y == S("y")
xs == S("xs")
a == S("a")
b == S("b")

\* The cells of a list laid out from cell c on, as <<car, cdr>>, and its VALUE.
P(c) == enc_cons_ptr(c)
Val(e, c) == IF e[1] # "LIST" THEN e ELSE IF e[2] = <<>> THEN NIL ELSE P(c)

RECURSIVE Layout(_, _)
Layout(e, c) ==
  IF e[1] # "LIST" \/ e[2] = <<>> THEN <<>>
  ELSE LET first == Layout(Head(e[2]), c + 1)
           rest == L(Tail(e[2]))
           at == c + 1 + Len(first)
       IN <<<<Val(Head(e[2]), c + 1), Val(rest, at)>>>> \o first \o Layout(rest, at)

fib == Lambda(<<n>>, If(Op(">", I(2), n), n,
         Op("+", Call("f", <<Op("-", n, I(1))>>), Call("f", <<Op("-", n, I(2))>>))))
sum == Lambda(<<x>>, If(Op("=", x, I(0)), I(0), Op("+", x, Call("f", <<Op("-", x, I(1))>>))))
map == Lambda(<<g, xs>>, If(Op("=", xs, S("nil")), S("nil"),
         Op("cons", Call("g", <<Call("car", <<xs>>)>>), Call("f", <<g, Call("cdr", <<xs>>)>>))))
countdown == Lambda(<<n>>, If(Op("=", n, I(0)), I(0),
               Call("progn", <<I(1), Call("f", <<Op("-", n, I(1))>>)>>)))

Program == [
  define |-> <<Define(a, I(1)), Define(b, I(2)), Define(f, Lambda(<<>>, Op("+", a, b))),
               Define(a, I(3)), Op("=", Call("f", <<>>), I(5))>>,
  fib |-> <<Let(<<<<f, fib>>>>, Op("=", Call("f", <<I(3)>>), I(2)))>>,
  let |-> <<Let(<<<<x, I(0)>>, <<f, Lambda(<<y>>, Op("+", y, x))>>,
                  <<g, Lambda(<<x>>, Op("+", x, I(1)))>>>>,
                Op("=", Op("list", Call("f", <<I(10)>>), Call("g", <<I(10)>>)),
                        Q(L(<<I(10), I(11)>>))))>>,
  hof |-> <<Let(<<<<f, Lambda(<<y>>, Lambda(<<x>>, Op("+", x, y)))>>>>,
                Op("=", L(<<Call("f", <<I(2)>>), I(1)>>), I(3)))>>,
  progn |-> <<Define(f, sum),
              Op("=", Call("progn", <<Define(a, I(2)), Call("f", <<a>>), Define(a, I(1)),
                                      Call("f", <<a>>), Let(<<>>, Call("f", <<a>>))>>), I(1))>>,
  logic |-> <<Op("=", Call("list", <<Call("and", <<>>), Call("or", <<>>),
                                     Op("and", S("nil"), I(1)), Op("or", S("nil"), I(2)),
                                     Op("and", I(1), I(3)), Call("progn", <<>>), Call("print", <<>>)>>),
                      Q(L(<<S("t"), S("nil"), S("nil"), I(2), I(3), S("nil"), S("nil")>>)))>>,
  map |-> <<Define(f, map),
            Op("=", Op("f", Lambda(<<x>>, Op("+", x, I(1))), Op("list", I(1), I(2))),
                    Op("append", Q(L(<<I(2)>>)), Call("list", <<I(3)>>)))>>,
  eval |-> <<Op("=", Op("+", I(5), Call("eval", <<Q(Op("+", I(1), I(2)))>>)), I(8))>>,
  arith |-> <<Op("=", Call("list", <<Op("/", I(-7), I(2)), Op("mod", I(-7), I(2)),
                                     Call("*", <<I(2), I(3), Q(x)>>), Op("/", Q(x), I(2)),
                                     Call("-", <<I(2)>>), Op("-", I(-2^27), I(1))>>),
                      Q(L(<<I(-3), I(-1), I(0), S("division_by_zero"), I(-2), I(2^27 - 1)>>)))>>,
  mixed |-> <<Op("=", Call("list", <<Op(">", I(1), U(2)), Call("<", <<I(1), U(2), I(3)>>),
                                     Op("num-eq", I(2), U(2)), Op("+", I(1), U(2)),
                                     Op("-", U(5), I(3)), Call("type-of", <<U(2)>>)>>),
                      Q(L(<<S("nil"), S("t"), S("t"), U(3), U(2), S("type-u28")>>)))>>,
  tailrec |-> <<Let(<<<<f, countdown>>>>, Call("not", <<Op("<", Call("f", <<I(4)>>), I(0))>>))>>,
  spawn |-> <<Let(<<<<xs, Spawn(<<<<Op("list", I(1), I(2))>>,
                                   <<Call("yield", <<I(5)>>), Op("list", I(3), I(4))>>>>)>>>>,
                  Op("=", Op("list", Call("wait", <<Call("car", <<xs>>)>>),
                                     Call("wait", <<Call("car", <<Call("cdr", <<xs>>)>>)>>)),
                          Q(L(<<L(<<I(3), I(4)>>), L(<<I(1), I(2)>>)>>))))>>,
  shared |-> <<Define(f, Lambda(<<x>>, Op("list", x, x))),
               Let(<<<<x, I(1)>>>>, Define(a, Spawn(<<<<Define(b, I(2)), Call("f", <<x>>)>>>>))),
               Call("yield", <<I(0)>>), Call("print", <<a>>),
               Op("=", Op("cons", b, Call("wait", <<Call("car", <<a>>)>>)),
                       Q(L(<<I(2), I(1), I(1)>>)))>>,
  nospawn |-> <<Op("=", Call("spawn", <<>>), Call("eval", <<Call("cdr", <<Spawn(<<<<>>>>)>>)>>))>>,
  badyield |-> <<Call("yield", <<Q(x)>>)>>,
  badwait |-> <<Call("wait", <<>>)>>,
  unyielding |-> <<Op("=", Op("list", Call("is-fundamental", <<Q(S("yield"))>>), Call("yield", <<I(1)>>)),
                        Q(L(<<S("t"), S("eval_error")>>)))>>,
  badfun |-> <<L(<<I(1), I(2)>>)>>,
  unbound |-> <<Call("f", <<I(1)>>)>>,
  arity |-> <<Call("list", <<L(<<Lambda(<<x>>, x)>>)>>)>>,
  badkey |-> <<Op("list", I(1), Define(I(3), I(4)))>>,
  badarg |-> <<Op("+", I(1), Q(x))>>,
  baddot |-> <<Call("eval", <<Op("cons", Q(S("progn")), I(0))>>)>>,
  scope |-> <<Op("=", Let(<<<<a, I(5)>>>>,
                Call("progn", <<Let(<<<<a, I(3)>>>>, a), Op("+", a, I(10))>>)), I(15))>>,
  caller |-> <<Let(<<<<f, Lambda(<<a>>, a)>>, <<a, I(5)>>>>,
                  Op("=", Call("progn", <<Call("f", <<I(3)>>), Op("+", a, I(10))>>), I(15)))>>,
  shadow |-> <<Define(f, Lambda(<<y>>, Let(<<<<x, I(1)>>>>, Let(<<<<x, y>>>>, Lambda(<<a>>, x))))),
               Op("=", L(<<Call("f", <<I(2)>>), I(0)>>), I(2))>>,
  operand |-> <<Call("not", <<Op("=", Op("list", I(1), Q(S("and"))), Q(L(<<I(1), S("and")>>)))>>)>>,
  leftover |-> <<Op("=", Op("list", I(2), Q(S("or"))), Q(L(<<I(2), S("or")>>)))>>,
  lets |-> <<Call("list", <<I(1), I(2), I(3)>>),
             Let(<<<<x, I(1)>>, <<y, I(2)>>>>, Op("=", Op("+", x, y), I(3)))>>,
  junction |-> <<Op("=", Call("list", <<Call("or", <<>>), Op("and", S("nil"), I(1)),
                                        Op("or", S("nil"), I(2)), Op("and", I(1), I(3)),
                                        Call("print", <<Call("list", <<>>)>>), Call("print", <<>>)>>),
                         Q(L(<<S("nil"), S("nil"), I(2), I(3), S("t"), S("nil")>>)))>>
]

\* operand, leftover: eval_cps takes the argument and (or) for an operator without
\* operands, and the number before it, still on the stack, for DONE (SET_GLOBAL_ENV).
Expected(evaluator, t) ==
  CASE t \in {"unbound", "arity", "badkey", "badarg", "badyield", "badwait", "badfun"} -> EERROR
    [] t = "operand" /\ evaluator = "ec" -> NIL
    [] t = "leftover" /\ evaluator = "cps" -> NIL
    [] t = "baddot" -> I(0)
    [] OTHER -> T

\* What the first round of the tail recursive loop needs; elsewhere as much as leaves
\* ec_eval the room that EcRoom asks for.
Depth(evaluator, t, stack_size) ==
  CASE t = "tailrec" -> (IF evaluator = "cps" THEN 22 ELSE 18)
    [] evaluator = "ec" -> stack_size - 5
    [] OTHER -> stack_size

\* What the programs end with: the first one as t says, the ones it spawns with
\* a list.
Answers(answers) == [cid \in 1 .. 3 |-> IF cid = 1 THEN answers ELSE {P(c) : c \in Cell}]

\* The global environment ((data . tree) (nil . nil)), the program, data, and a
\* free list.
Image(evaluator, t, free, stack_size, answers) ==
  LET program == Layout(L(Program[t]), 4)
      used == 4 + Len(program)
      size == heap_size - used - free
      at(from, k, len) == IF k > len THEN NIL ELSE P(from + k - 1)
      tree(from, len) ==
        [k \in 1 .. len |-> <<at(from, 2 * k, len), at(from, 2 * k + 1, len)>>]
      chain(from, len) == [k \in 1 .. len |-> <<RECOVERED, at(from, k + 1, len)>>]
      cells == <<<<NIL, NIL>>, <<P(0), NIL>>, <<S("data"), P(used)>>, <<P(2), P(1)>>>>
               \o program \o tree(used, size) \o chain(used + size, free)
  IN [heap |-> [car |-> [c \in Cell |-> cells[c + 1][1]],
                cdr |-> [c \in Cell |-> cells[c + 1][2]],
                mark |-> [c \in Cell |-> FALSE],
                freelist |-> IF free = 0 THEN NIL ELSE P(used + size),
                num_alloc |-> heap_size - free],
      env |-> P(3), program |-> P(4), evaluator |-> evaluator, stack_size |-> stack_size, answers |-> Answers(answers),
      depth |-> Depth(evaluator, t, stack_size)]

MC_Images ==
  {Image("cps", t, k, StackSize, {Expected("cps", t)}) : t \in Tests, k \in Free} \cup
  {Image("cps", t, k, ShortStack, {Expected("cps", t), FATAL_ERROR, EERROR}) :
     t \in ShortTests, k \in Free} \cup
  {Image("ec", t, k, StackSize, {Expected("ec", t)}) : t \in EcTests, k \in Free}
=============================================================================
