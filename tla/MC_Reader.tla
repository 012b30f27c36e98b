----------------------------- MODULE MC_Reader -----------------------------
(***************************************************************************)
(* Texts for Reader: every short one over a few characters, some longer    *)
(* ones that are well formed and some that are not, and sessions that      *)
(* run out of cells or of memory.                                          *)
(***************************************************************************)
EXTENDS Reader

CONSTANTS FewCells,    \* free cells to begin with, where they are scarce
          FewWords     \* free words of memory, where they are scarce

\* One character of every kind that the tokenizer tells apart.
Alphabet == {"(", ")", "a", "x", "1", "'", "~", ",", "@", " ", ";", "\n", "\"", "\\", "#"}

Short == {""} \cup Alphabet \cup {c \o d : c, d \in Alphabet} \cup
         {c \o d \o e : c, d, e \in Alphabet}

Long == {
  "(define f (lambda (x y) (if (= x '()) y (f (cdr x) (+ y 1)))))",
  "  (let ((Foo 12) ; name\n\t(b \"two  words ; \n\"))\n (list foo b) ) ; end",
  "'(a 'b ,c (,@d \\#newline) \\#( 268435455 4294) nil",
  "(1u28 2u32 3i32 4.50 .5 0x1F 5u28x 6i)",
  "((a)) (b (c)) ((",
  "(a (b \"c d) e)",
  "(progn 12U 3) a",
  "a \"12 b",
  "(a) ) (b",
  "(a ') b",
  "(car . b)",
  "\"a\\\" (b  c) \"d",
  "(~)"}

Templates == {
  "~(+ 1 (+ 2 ,x))",
  "~(,x ,@ys a)",
  "~((,@ys) ,@zs (a ,@zs) ,x ,@ys)",
  "~(a '(b ',x) (,ys))",
  "~,x", "~a", "~()",
  "~(comma ,x)", "~(a splice x)", "~~(a ,x)", "(~(,x) ~ ,x)", "~,@ys"}

Reread == {"(b a)", "a \"bc\"", "(ab 'b \"", "car"}

\* A session with ample memory and no extensions.
Ample(texts, compressed) ==
  [texts |-> <<texts>>, compressed |-> compressed, extensions |-> {}, cells |-> heap_size,
   words |-> memory_size]

MC_Sessions ==
  {Ample(Short, BOOLEAN), Ample(Long \cup Templates, BOOLEAN)}
  \cup
  {[Ample({}, {FALSE}) EXCEPT !.cells = n,
                              !.texts = <<{"'(a (b)) (1i32)", "~(a ,x)", "(a \"b\") ) "}, Reread>>] :
   n \in FewCells}
  \cup
  {[Ample({}, {FALSE}) EXCEPT !.words = n, !.texts = <<Reread, Reread>>, !.extensions = {"a", "car"}] :
   n \in FewWords}
=============================================================================
