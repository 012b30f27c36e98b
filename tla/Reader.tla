------------------------------- MODULE Reader -------------------------------
(***************************************************************************)
(* How a text becomes a program in heap cells: the tokenizer and parser of *)
(* src/src/tokpar.c, on plain and on compressed text, and the expansion of *)
(* backquotes in src/src/qq_expand.c.  A session reads several texts; in   *)
(* between, extensions are registered, programs end, and the evaluator     *)
(* collects.  A read is one step: the programs under tests/ and examples/  *)
(* and repl-cps-nc read in the thread that evaluates.                      *)
(***************************************************************************)
EXTENDS Fundamental, SymRepr, Compression

CONSTANTS Sessions,    \* records of the texts that may be read first, second ...,
                       \* whether compressed or not, the names of extensions that
                       \* may be registered, and the free cells and the free words
                       \* of memory to begin with
          MaxSymbols   \* bound on the symbols after which extensions are registered

VARIABLES session,
          heap, table,
          program,    \* what tokpar_parse returned last
          reads,      \* texts read so far
          last,       \* auxiliary: the text, the characters the tokenizer got of it,
                      \* the cells that were free, and whether memory was refused
          expected,   \* auxiliary: the extensions that a program may count on
          named,      \* auxiliary: the names given to extensions_add
          wild        \* a string was written through a pointer nobody has set

vars == <<session, heap, table, program, reads, last, expected, named, wild>>

RERROR == sym("read_error")
COMMA == sym("comma")
COMMAAT == sym("splice")

(***************************************************************************)
(* The tokenizer.  str is what a tokenizer_char_stream delivers: a text,   *)
(* and whether it ends in bits that are no code.  A token is a pair of its *)
(* type and its data, together with the position behind it.                *)
(***************************************************************************)
Set(s) == {Char(s, k) : k \in 1 .. Len(s)}
Lower == "abcdefghijklmnopqrstuvwxyz"
Upper == "ABCDEFGHIJKLMNOPQRSTUVWXYZ"
Decimal == "0123456789"
Hex == Decimal \o "abcdef"
DecimalDigits == Set(Decimal)
HexDigits == Set(Hex \o "ABCDEF")
UpperLetters == Set(Upper)
symchar0 == Set(Lower \o Upper \o "+-*/=<>")
symchar == symchar0 \cup DecimalDigits
isspace == Whitespace
isgraph == Set(Printable) \ {" "}

\* How many characters from p on are in S.
Span(t, p, S) == Min({k \in 0 .. Len(t) : Char(t, p + k) \notin S})

IndexIn(s, c) == CHOOSE k \in 1 .. Len(s) : Char(s, k) = c
tolower(c) == IF c \in UpperLetters THEN Char(Lower, IndexIn(Upper, c)) ELSE c
LowerCase(s) ==
  LET to[k \in 0 .. Len(s)] == IF k = 0 THEN "" ELSE to[k - 1] \o tolower(Char(s, k))
  IN to[Len(s)]

\* The number that the n digits from p on denote.
Number(t, p, n, digits) ==
  LET acc[k \in 0 .. n] ==
        IF k = 0 THEN 0
        ELSE acc[k - 1] * Len(digits) + IndexIn(digits, tolower(Char(t, p + k - 1))) - 1
  IN acc[n]

Token(type, data, pos) == [tok |-> <<type, data>>, pos |-> pos]

\* Past whitespace and comments.
RECURSIVE Skip(_, _)
Skip(t, p) ==
  IF Char(t, p) = ";" THEN Skip(t, CommentEnd(t, p))
  ELSE IF Char(t, p) \in isspace THEN Skip(t, p + 1) ELSE p

tok_symbol(t, p) ==
  LET len == Span(t, p, symchar) IN
  Token("SYMBOL", LowerCase(SubSeq(t, p, p + len - 1)), p + len)

\* The numbers, longest forms first.  An integer may not go on with U, u, . or I.
\* A float is its digits and the number of them behind the point.
tok_number(t, p) ==
  LET n == Span(t, p, DecimalDigits)
      m == Span(t, p + n + 1, DecimalDigits)
      h == Span(t, p + 2, HexDigits)
      acc == Number(t, p, n, Decimal)
  IN IF Char(t, p + n) = "." /\ m > 0
       THEN Token("BOXEDFLOAT", <<acc, Number(t, p + n + 1, m, Decimal), m>>, p + n + 1 + m)
     ELSE IF Char(t, p) = "0" /\ Char(t, p + 1) \in {"x", "X"}
       THEN Token("BOXEDUINT", Number(t, p + 2, h, Hex), p + 2 + h)
     ELSE IF StartsWith(t, p + n, "u32") THEN Token("BOXEDUINT", acc, p + n + 3)
     ELSE IF StartsWith(t, p + n, "u28") THEN Token("UINT", acc, p + n + 3)
     ELSE IF StartsWith(t, p + n, "i32") THEN Token("BOXEDINT", acc, p + n + 3)
     ELSE IF n > 0 /\ Char(t, p + n) \notin {"U", "u", ".", "I"} THEN Token("INT", acc, p + n)
     ELSE Token("ERROR", "", p)

\* A string ends at the next ".  If there is none, the opening one is gone all
\* the same, and what follows may be a number.
tok_string(t, p) ==
  LET len == Span(t, p + 1, Set(t) \ {QUOTE}) IN
  IF Char(t, p + 1 + len) = QUOTE
    THEN Token("STRING", SubSeq(t, p + 1, p + len), p + len + 2)
    ELSE tok_number(t, p + 1)

Delimiter == [QUOTE |-> "'", BACKQUOTE |-> BACKQUOTE, COMMAAT |-> ",@", COMMA |-> ",",
              OPENPAR |-> "(", CLOSEPAR |-> ")"]

token_at(str, q) ==
  LET t == str.text
      delims == {type \in DOMAIN Delimiter : StartsWith(t, q, Delimiter[type])}
      type == IF "COMMAAT" \in delims THEN "COMMAAT" ELSE CHOOSE d \in delims : TRUE
  IN IF q > Len(t) THEN Token(IF str.broken THEN "ERROR" ELSE "END", "", q)
     ELSE IF delims # {} THEN Token(type, "", q + Len(Delimiter[type]))
     ELSE IF Char(t, q) \in symchar0 THEN tok_symbol(t, q)
     ELSE IF StartsWith(t, q, "\\#newline") THEN Token("CHAR", "\n", q + 9)
     ELSE IF StartsWith(t, q, "\\#") /\ Char(t, q + 2) \in isgraph
       THEN Token("CHAR", Char(t, q + 2), q + 3)
     ELSE IF Char(t, q) = QUOTE THEN tok_string(t, q)
     ELSE tok_number(t, q)

next_token(str, p) == token_at(str, Skip(str.text, p))

(***************************************************************************)
(* What a read has got to is a record m: the heap h, the symbol table, the *)
(* position pos of the next token, the VALUE v just made, and the flags    *)
(* refused and wild.  A cons that fails yields an error symbol, and so do  *)
(* all that come after it: nothing is recovered during a read.             *)
(***************************************************************************)
Made(m, v) == [m EXCEPT !.v = v]
Took(m, made) == [m EXCEPT !.h = made.h, !.v = made.v]

cons(m, a, d) == Took(m, cons_result(m.h, a, d))

\* Of the value v just made: (a . v), (v) and (s v).
onto(m, a) == cons(m, a, m.v)
enlist(m) == cons(m, m.v, NIL)
tag(m, s) == onto(enlist(m), s)

\* append of qq_expand.c: the list (append front v).
append(front, m) == onto(onto(enlist(m), front), sym("append"))

RECURSIVE qq_expand(_, _)
RECURSIVE qq_expand_list(_, _)

\* The expansion of a list with the elements first made and the rest d.
expand_rest(first, d) == append(first.v, qq_expand(first, d))

\* Fault: a spliced value goes into the list as one element.
qq_expand_list_NoSplice(m, l) ==
  LET car_val == car(m.h, l)
      arg == car(m.h, cdr(m.h, l))
  IN IF type_of(l) # "CONS" THEN tag(cons(m, l, NIL), sym("quote"))
     ELSE IF car_val \in {COMMA, COMMAAT} THEN tag(Made(m, arg), sym("list"))
     ELSE tag(expand_rest(qq_expand_list(m, car_val), cdr(m.h, l)), sym("list"))

\* The elements that l contributes to the list it is in.
qq_expand_list(m, l) ==
  LET car_val == car(m.h, l)
      arg == car(m.h, cdr(m.h, l))
  IN IF type_of(l) # "CONS" THEN tag(cons(m, l, NIL), sym("quote"))
     ELSE IF car_val = COMMA THEN tag(Made(m, arg), sym("list"))
     ELSE IF car_val = COMMAAT THEN Made(m, arg)
     ELSE tag(expand_rest(qq_expand_list(m, car_val), cdr(m.h, l)), sym("list"))

qq_expand(m, q) ==
  LET car_val == car(m.h, q)
  IN IF type_of(q) # "CONS" THEN tag(Made(m, q), sym("quote"))
     ELSE IF car_val = COMMA THEN Made(m, car(m.h, cdr(m.h, q)))
     ELSE IF car_val = COMMAAT THEN Made(m, RERROR)
     ELSE expand_rest(qq_expand_list(m, car_val), cdr(m.h, q))

(***************************************************************************)
(* The parser                                                              *)
(***************************************************************************)
\* A symbol that there is no room for is a read error.
parse_symbol(m, name) ==
  LET found == intern(m.table, name) IN
  IF found.v = NONE THEN [m EXCEPT !.v = RERROR, !.table = found.table, !.refused = TRUE]
  ELSE [m EXCEPT !.v = found.v, !.table = found.table]

\* heap_allocate_array and the copying of the characters.  The parser does not
\* look whether it has got an array: v is then not initialised.
parse_string(m, text) ==
  LET words == array_words("CHAR", Len(text) + 1)
      p == memory_allocate(m.table.blocks, words)
      handle == cons(m, <<"BLOCK", [at |-> p, text |-> text]>>, ARRAY_TYPE)
  IN IF ~ CanAllocate(m.h) \/ p = NULL THEN [m EXCEPT !.wild = TRUE]
     ELSE [handle EXCEPT !.v = set_ptr_type(@, "ARRAY"),
                         !.table = [@ EXCEPT !.blocks = @ \cup {Block(p, words)},
                                             !.arrays = @ \cup {Block(p, words)}]]

\* A boxed number: the word in car, its type in cdr.
parse_boxed(m, word) ==
  LET made == cons(m, word, BOXED_TYPE) IN Made(made, set_ptr_type(made.v, "BOXED"))

RECURSIVE parse_sexp(_, _, _)
RECURSIVE parse_sexp_list(_, _, _)
RECURSIVE parse_program(_, _)

\* The expression that begins with the token t, and the one at the position of m.
parse_from(str, m, t) == parse_sexp(str, t.tok, [m EXCEPT !.pos = t.pos])
parse_next(str, m) == parse_from(str, m, next_token(str, m.pos))

\* The list that goes on with the token t.
list_from(str, m, t) == parse_sexp_list(str, t.tok, [m EXCEPT !.pos = t.pos])

Sign == [QUOTE |-> sym("quote"), COMMA |-> COMMA, COMMAAT |-> COMMAAT]

\* What a quote, a comma or a backquote makes of the expression after it.
prefixed(type, arg) ==
  IF arg.v = RERROR THEN arg
  ELSE IF type = "BACKQUOTE" THEN qq_expand(arg, arg.v) ELSE tag(arg, Sign[type])

parse_sexp(str, tok, m) ==
  LET type == tok[1]
      data == tok[2]
  IN CASE type = "OPENPAR" -> list_from(str, m, next_token(str, m.pos))
       [] type = "SYMBOL" -> parse_symbol(m, data)
       [] type = "STRING" -> parse_string(m, data)
       [] type = "INT" -> Made(m, enc_i(data))
       [] type = "UINT" -> Made(m, enc_u(data))
       [] type = "CHAR" -> Made(m, <<"CHAR", data>>)
       [] type \in {"BOXEDINT", "BOXEDUINT", "BOXEDFLOAT"} -> parse_boxed(m, tok)
       [] type \in {"QUOTE", "COMMA", "COMMAAT", "BACKQUOTE"} -> prefixed(type, parse_next(str, m))
       [] type \in {"END", "ERROR", "CLOSEPAR"} -> Made(m, RERROR)

joined(head, tail) ==
  IF head.v = RERROR \/ tail.v = RERROR THEN Made(tail, RERROR) ELSE onto(tail, head.v)

\* The rest of a list is read even when the head was an error.
parse_tail(str, head) == joined(head, list_from(str, head, next_token(str, head.pos)))

\* Fault: an unfinished list ends where the text ends.
parse_sexp_list_EndsAnywhere(str, tok, m) ==
  CASE tok[1] = "ERROR" -> Made(m, RERROR)
    [] tok[1] \in {"END", "CLOSEPAR"} -> Made(m, NIL)
    [] OTHER -> parse_tail(str, parse_sexp(str, tok, m))

\* The list from tok on.
parse_sexp_list(str, tok, m) ==
  CASE tok[1] \in {"END", "ERROR"} -> Made(m, RERROR)
    [] tok[1] = "CLOSEPAR" -> Made(m, NIL)
    [] OTHER -> parse_tail(str, parse_sexp(str, tok, m))

\* An error at top level ends the program, an error inside an expression takes
\* the place of the expression.
parse_rest(str, head) == onto(parse_program(str, head), head.v)
program_from(str, m, t) ==
  CASE t.tok[1] = "ERROR" -> Made(m, RERROR)
    [] t.tok[1] = "END" -> Made(m, NIL)
    [] OTHER -> parse_rest(str, parse_from(str, m, t))
parse_program(str, m) == program_from(str, m, next_token(str, m.pos))

tokpar_parse(str) ==
  parse_program(str, [h |-> heap, table |-> table, pos |-> 1, v |-> NIL, refused |-> FALSE,
                      wild |-> FALSE])

(***************************************************************************)
(* Sessions                                                                *)
(***************************************************************************)
Plain(t) == [text |-> t, broken |-> FALSE]
Nothing == [text |-> "", stream |-> Plain(""), free |-> 0, refused |-> FALSE, compressed |-> FALSE]

\* What is in the heap and in memory before the session begins.
Resident(s) ==
  FoldLeft(push_front, [h |-> generate_freelist(RECOVERED), v |-> NIL],
           [k \in 1 .. heap_size - s.cells |-> NIL])
Fixed(s) == IF s.words = memory_size THEN {} ELSE {Block(0, memory_size - s.words)}

Init ==
  /\ session \in Sessions
  /\ heap = Resident(session).h
  /\ table = [symlist |-> <<>>, next_symbol_id |-> 0, extensions |-> <<>>,
              blocks |-> Fixed(session), arrays |-> {}]
  /\ program = NIL /\ reads = 0 /\ last = Nothing
  /\ expected = {} /\ named = {} /\ wild = FALSE

\* Of a text m has been read.
Read(m, text, stream, compressed) ==
  /\ ~ wild
  /\ heap' = m.h /\ table' = m.table /\ program' = m.v /\ wild' = m.wild
  /\ reads' = reads + 1
  /\ last' = [text |-> text, stream |-> stream, free |-> heap_size - heap.num_alloc,
              refused |-> m.refused, compressed |-> compressed]
  /\ UNCHANGED <<session, expected, named>>

NextTexts == IF reads < Len(session.texts) THEN session.texts[reads + 1] ELSE {}

ReadPlain ==
  /\ FALSE \in session.compressed
  /\ \E text \in NextTexts : Read(tokpar_parse(Plain(text)), text, Plain(text), FALSE)

\* A text is compressed, and what comes out is read.
tokpar_parse_compressed ==
  /\ TRUE \in session.compressed
  /\ \E text \in NextTexts :
       LET z == compression_compress(text)
           str == Stream(z)
       IN z.compressed_bits > 0 /\ Read(tokpar_parse(str), text, str, TRUE)

\* The context that had the program is done, and its result taken.
Finish ==
  /\ ~ wild /\ last # Nothing
  /\ program' = NIL /\ last' = Nothing
  /\ UNCHANGED <<session, heap, table, reads, expected, named, wild>>

\* The evaluator collects: handles of arrays that are swept free their blocks.
Collect ==
  LET swept == {c \in Cell : HandlesArray(heap, c)} \ Reachable(heap, {program, Resident(session).v})
      freed == {heap.car[c][2].at : c \in swept}
  IN /\ ~ wild
     /\ heap' = gc(heap, {program, Resident(session).v})
     /\ table' = [table EXCEPT !.blocks = {b \in @ : b[1] \notin freed},
                               !.arrays = {b \in @ : b[1] \notin freed}]
     /\ UNCHANGED <<session, program, reads, last, expected, named, wild>>

\* extensions_add from main(); malloc may have no record for the extension.
AddExtension ==
  \E name \in session.extensions, malloc \in BOOLEAN :
    LET added == extensions_add(table, name, malloc) IN
    /\ ~ wild /\ table.next_symbol_id < MaxSymbols
    /\ table' = added.table
    /\ named' = named \cup {name}
    /\ expected' = IF added.ok THEN expected \cup {name}
                   ELSE IF added.table # table THEN expected \ {name} ELSE expected
    /\ UNCHANGED <<session, heap, program, reads, last, wild>>

Next == ReadPlain \/ tokpar_parse_compressed \/ Finish \/ Collect \/ AddExtension

Spec == Init /\ [][Next]_vars

(***************************************************************************)
(* What a text says, from its tokens alone: no heap, no parser             *)
(***************************************************************************)
OPEN == <<"OPENPAR", "">>
CLOSE == <<"CLOSEPAR", "">>
Prefix == [QUOTE |-> "quote", COMMA |-> "comma", COMMAAT |-> "splice"]
Sugared(tok) == tok[1] \in DOMAIN Prefix

\* All tokens, an error that the tokenizer cannot get past being the last.
RECURSIVE TokensFrom(_, _)
TokensFrom(str, p) ==
  LET t == next_token(str, p) IN
  IF t.tok[1] = "END" THEN <<>>
  ELSE IF t.tok[1] = "ERROR" /\ t.pos = Skip(str.text, p) THEN <<t.tok>>
  ELSE <<t.tok>> \o TokensFrom(str, t.pos)

\* Integers have 28 bits, and () is another way to write nil.
Normal(toks) ==
  LET at(k) == IF k \in DOMAIN toks THEN toks[k] ELSE <<"END", "">>
      part(k) ==
        CASE at(k) = OPEN /\ at(k + 1) = CLOSE -> <<<<"SYMBOL", "nil">>>>
          [] at(k) = CLOSE /\ at(k - 1) = OPEN -> <<>>
          [] at(k)[1] = "INT" -> <<<<"INT", dec_i(enc_i(at(k)[2]))>>>>
          [] at(k)[1] = "UINT" -> <<<<"UINT", enc_u(at(k)[2])[2]>>>>
          [] OTHER -> <<at(k)>>
  IN FlattenSeq([k \in 1 .. Len(toks) |-> part(k)])

Tokens(str) == Normal(TokensFrom(str, 1))

Count(toks, i, j, tok) == Cardinality({k \in i .. j : toks[k] = tok})
Balanced(toks, i, j) == Count(toks, i, j, OPEN) = Count(toks, i, j, CLOSE)

\* The end of the expression that begins at k, 0 if it has none.
EndOf(toks, k) ==
  LET ends == {j \in k .. Len(toks) : ~ Sugared(toks[j]) /\ Balanced(toks, k, j)}
  IN IF ends = {} THEN 0 ELSE Min(ends)

WellFormed(toks) ==
  /\ \A k \in 1 .. Len(toks) :
       /\ toks[k][1] # "ERROR"
       /\ Count(toks, 1, k, OPEN) >= Count(toks, 1, k, CLOSE)
       /\ Sugared(toks[k]) => k < Len(toks) /\ toks[k + 1] # CLOSE
  /\ Balanced(toks, 1, Len(toks))

\* 'e, ,e and ,@e written out as (quote e), (comma e) and (splice e).
WrittenOut(toks, prefixes) ==
  LET sugared == {k \in 1 .. Len(toks) : toks[k][1] \in prefixes}
      part(k) == (IF k \in sugared THEN <<OPEN, <<"SYMBOL", Prefix[toks[k][1]]>>>> ELSE <<toks[k]>>)
                 \o [j \in 1 .. Cardinality({i \in sugared : EndOf(toks, i) = k}) |-> CLOSE]
  IN FlattenSeq([k \in 1 .. Len(toks) |-> part(k)])

\* One cell for every element of a list, one more for what does not fit in a word.
CellsFor(toks) ==
  LET weight(tok) == CASE Sugared(tok) \/ tok[1] \in {"STRING", "BOXEDINT", "BOXEDUINT", "BOXEDFLOAT"} -> 2
                       [] tok = CLOSE -> 0
                       [] OTHER -> 1
  IN FoldLeft(LAMBDA n, tok : n + weight(tok), 0, toks)

(***************************************************************************)
(* A VALUE as tokens                                                       *)
(***************************************************************************)
RECURSIVE Written(_)
Written(v) ==
  LET es == elements(heap, v) IN
  CASE type_of(v) = "CONS" ->
       <<OPEN>> \o FlattenSeq([k \in DOMAIN es |-> Written(es[k])]) \o <<CLOSE>>
    [] type_of(v) \in {"SYM", "ID"} -> <<<<"SYMBOL", symrepr_lookup_name(table, v)>>>>
    [] type_of(v) = "I" -> <<<<"INT", v[2]>>>>
    [] type_of(v) = "U" -> <<<<"UINT", v[2]>>>>
    [] type_of(v) = "BOXED" -> <<heap.car[dec_ptr(v)]>>
    [] type_of(v) = "ARRAY" -> <<<<"STRING", heap.car[dec_ptr(v)][2].text>>>>
    [] OTHER -> <<v>>

Expressions == elements(heap, program)
WrittenProgram == FlattenSeq([k \in DOMAIN Expressions |-> Written(Expressions[k])])

\* Where the cdrs of the program end.
ProgramEnd ==
  LET end[c \in Cell] == IF type_of(heap.cdr[c]) = "CONS" THEN end[dec_ptr(heap.cdr[c])] ELSE heap.cdr[c]
  IN IF type_of(program) = "CONS" THEN end[dec_ptr(program)] ELSE program

IsPart(s, t) == \E k \in 1 .. Len(t) : k + Len(s) - 1 <= Len(t) /\ SubSeq(t, k, k + Len(s) - 1) = s

(***************************************************************************)
(* Properties                                                              *)
(***************************************************************************)
HasProgram == last # Nothing /\ ~ wild
NoBackquotes(toks) == \A k \in DOMAIN toks : toks[k][1] # "BACKQUOTE"

\* What is read is what is written: a well-formed text becomes a program that
\* says the same, in exactly the cells it takes, or an out-of-memory error if it
\* takes more than there are, never a part of it; and it stays that program while
\* extensions are registered and the evaluator collects.  A text that is not well
\* formed, or has a symbol that there is no room for, becomes a program with a
\* read error in it, and the rest of that program is made of pieces of the text.
ReadsWhatIsWritten ==
  LET toks == Tokens(last.stream)
      right == WellFormed(toks) /\ ~ last.refused
      says == WrittenOut(toks, DOMAIN Prefix)
  IN HasProgram /\ NoBackquotes(toks) =>
       CASE program = MERROR -> last.free < CellsFor(toks) + (IF right THEN 0 ELSE Len(toks))
         [] program # MERROR /\ right ->
              last.free >= CellsFor(toks) /\ WrittenProgram = says /\ ProgramEnd = NIL
         [] OTHER ->
              /\ RERROR \in Range(Expressions) \cup {ProgramEnd}
              /\ \A e \in Range(Expressions) \ {RERROR} : IsPart(Written(e), says)

\* The compressor takes some characters for the beginning or the end of a string or
\* of a comment that the tokenizer does not.
Tame(t) ==
  \A i \in 1 .. Len(t) :
    ~ StartsWith(t, i, "\\\"") /\ ~ StartsWith(t, i, "\\#\"") /\ ~ StartsWith(t, i, "\\#;")

\* Compressed or not, a text reads the same: whitespace and comments are lost
\* where they do not matter, and the length in the header is that of the code.
CompressedReadsSame ==
  last.compressed /\ Tame(last.text) =>
    ~ last.stream.broken /\ Tokens(last.stream) = Tokens(Plain(last.text))

\* The variables of a backquoted text, and what they are bound to.
Bound == [x |-> <<<<"INT", 1>>>>,
          ys |-> <<OPEN, <<"INT", 2>>, <<"SYMBOL", "a">>, CLOSE>>,
          zs |-> <<<<"SYMBOL", "nil">>>>]
Lists == {"ys", "zs"}
Inside(toks) == IF toks[1] = OPEN THEN SubSeq(toks, 2, Len(toks) - 1) ELSE <<>>
Listed(toks) == Normal(<<OPEN>> \o toks \o <<CLOSE>>)

\* Texts of one backquoted expression in which commas stand before variables.
IsTemplate(toks) ==
  /\ WellFormed(toks) /\ toks # <<>> /\ toks[1][1] = "BACKQUOTE"
  /\ EndOf(toks, 2) = Len(toks) /\ toks[2][1] # "COMMAAT"
  /\ \A k \in 2 .. Len(toks) :
       /\ toks[k][1] # "BACKQUOTE"
       /\ toks[k][1] = "SYMBOL" => toks[k][2] \notin {"comma", "splice"}
       /\ toks[k][1] = "COMMA" => toks[k + 1][1] = "SYMBOL" /\ toks[k + 1][2] \in DOMAIN Bound
       /\ toks[k][1] = "COMMAAT" => toks[k + 1][1] = "SYMBOL" /\ toks[k + 1][2] \in Lists

\* The template with the values of the variables written in.
Filled(toks) ==
  LET body == WrittenOut(Tail(toks), {"QUOTE"})
      part(k) ==
        CASE body[k][1] \in {"COMMA", "COMMAAT"} -> <<>>
          [] k > 1 /\ body[k - 1][1] = "COMMA" -> Bound[body[k][2]]
          [] k > 1 /\ body[k - 1][1] = "COMMAAT" -> Inside(Bound[body[k][2]])
          [] OTHER -> <<body[k]>>
  IN Normal(FlattenSeq([k \in 1 .. Len(body) |-> part(k)]))

\* The value of an expansion: variables, quote, list and append.
RECURSIVE ValueOf(_)
ValueOf(v) ==
  LET es == elements(heap, v) IN
  CASE type_of(v) # "CONS" -> Bound[symrepr_lookup_name(table, v)]
    [] type_of(v) = "CONS" /\ es[1] = sym("quote") -> Written(es[2])
    [] type_of(v) = "CONS" /\ es[1] = sym("list") -> Listed(ValueOf(es[2]))
    [] type_of(v) = "CONS" /\ es[1] = sym("append") ->
         Listed(Inside(ValueOf(es[2])) \o Inside(ValueOf(es[3])))

\* A backquoted expression evaluates to itself with the values of the variables
\* in the places of the commas; splicing leaves out the parentheses.
BackquoteFills ==
  LET toks == Tokens(last.stream) IN
  HasProgram /\ IsTemplate(toks) /\ ~ last.refused =>
    IF program = MERROR THEN last.free < 12 * Len(toks)
    ELSE Len(Expressions) = 1 /\ ValueOf(Expressions[1]) = Filled(toks)

\* Every block of memory has exactly one owner, a symbol or the handle of an array
\* (or was there before), after every addition of a symbol that failed half way
\* and after every collection.
StorageOwned ==
  ~ wild =>
    /\ Stored(table, Fixed(session))
    /\ {b[1] : b \in table.arrays} = {heap.car[c][2].at : c \in {d \in Cell : HandlesArray(heap, d)}}

\* A name stands for one symbol from the first text it is read in to the last, and
\* a symbol for one name, except for what extensions_add enters a second time.
OneSymbolPerName ==
  /\ IdsUnique(table)
  /\ \A e, f \in Entries(table) : e.name = f.name /\ e # f => e.name \in named
  /\ \A e \in Entries(table) : e.name \in special_symbols => e.name \in named

\* An extension is what a text that names it will call, also when the name has
\* been read before or is registered again.  (Unless malloc then has no record for
\* the second one: its symbol stays, and hides the first.)
ExtensionsFound ==
  \A name \in expected \ special_symbols : extensions_lookup(table, symrepr_lookup(table, name))
=============================================================================
