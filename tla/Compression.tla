---------------------------- MODULE Compression ----------------------------
(***************************************************************************)
(* The code compression of src/src/compression.c.  A text is a string, a   *)
(* compressed one a record of the bits its header counts and the bits      *)
(* themselves, a string of "0" and "1" in the order they are written.      *)
(***************************************************************************)
EXTENDS Integers, Sequences, FiniteSetsExt

\* There is no backquote in the strings of TLA+ tools; ~, which the language does
\* not use, stands for it.
BACKQUOTE == "~"

KEY == 1
CODE == 2
codes ==
  <<<<"9", "010111">>, <<"8", "101110">>, <<"7", "100001">>, <<"6", "100010">>,
    <<"5", "100100">>, <<"4", "011000">>, <<"3", "100101">>, <<"2", "011001">>,
    <<"1", "011101">>, <<"0", "011011">>, <<",", "110101">>, <<BACKQUOTE, "110110">>,
    <<" ", "110000">>, <<"'", "110111">>, <<"\\", "101111">>, <<"\"", "111000">>,
    <<"#", "110010">>, <<".", "111001">>, <<">", "110011">>, <<"<", "111100">>,
    <<"=", "111101">>, <<"/", "111010">>, <<"*", "110001">>, <<"-", "111011">>,
    <<"+", "110100">>, <<"nil", "101000">>, <<"cdr", "101001">>, <<"car", "101010">>,
    <<"cons", "100110">>, <<"let", "100111">>, <<"define", "011110">>,
    <<"progn", "011111">>, <<"quote", "010110">>, <<"list", "101100">>, <<"if", "011100">>,
    <<"lambda", "100011">>, <<"((", "101101">>, <<"))", "011010">>, <<")", "101011">>,
    <<"(", "100000">>, <<"z", "001111">>, <<"y", "000100">>, <<"x", "000000">>,
    <<"w", "000001">>, <<"v", "010011">>, <<"u", "000010">>, <<"t", "001000">>,
    <<"s", "001001">>, <<"r", "010000">>, <<"q", "010001">>, <<"p", "1111111">>,
    <<"o", "001100">>, <<"n", "001110">>, <<"m", "1111100">>, <<"l", "000101">>,
    <<"k", "000110">>, <<"j", "000011">>, <<"i", "001010">>, <<"h", "1111110">>,
    <<"g", "001101">>, <<"f", "1111101">>, <<"e", "000111">>, <<"d", "001011">>,
    <<"c", "010100">>, <<"b", "010010">>, <<"a", "010101">>>>

\* The character at i, or "" where C has the 0 after the last one.
Char(t, i) == IF i \in 1 .. Len(t) THEN SubSeq(t, i, i) ELSE ""
StartsWith(t, i, s) == i + Len(s) - 1 <= Len(t) /\ SubSeq(t, i, i + Len(s) - 1) = s

Whitespace == {"\n", " ", "\t", "\r"}
QUOTE == "\""
BACKSLASH == "\\"

\* The indices of codes whose key, or code, the text goes on with at i; the
\* longest one counts.
Matching(t, i, column) == {ix \in DOMAIN codes : StartsWith(t, i, codes[ix][column])}
Longest(ixs, column) == CHOOSE ix \in ixs : \A j \in ixs : Len(codes[j][column]) <= Len(codes[ix][column])

match_longest_key(t, i) ==
  IF Matching(t, i, KEY) = {} THEN -1 ELSE Longest(Matching(t, i, KEY), KEY)
match_longest_code(bits, i) ==
  IF Matching(bits, i, CODE) = {} THEN -1 ELSE Longest(Matching(bits, i, CODE), CODE)

(***************************************************************************)
(* Characters of strings are stored as they are: eight bits, low one first *)
(***************************************************************************)
Printable ==
  " !\"#$%&'()*+,-./0123456789:;<=>?@ABCDEFGHIJKLMNOPQRSTUVWXYZ[\\]^_~abcdefghijklmnopqrstuvwxyz{|}"
Ascii == [n \in {9, 10} \cup 32 .. 125 |->
            CASE n = 9 -> "\t" [] n = 10 -> "\n" [] OTHER -> Char(Printable, n - 31)]
Bit(n, k) == IF (n \div 2^k) % 2 = 1 THEN "1" ELSE "0"
Byte(n) == Bit(n, 0) \o Bit(n, 1) \o Bit(n, 2) \o Bit(n, 3) \o Bit(n, 4) \o Bit(n, 5) \o Bit(n, 6)
           \o Bit(n, 7)
string_char_codes == [c \in {Ascii[n] : n \in DOMAIN Ascii} |->
                        Byte(CHOOSE n \in DOMAIN Ascii : Ascii[n] = c)]
read_character(bits, i) ==
  CHOOSE c \in DOMAIN string_char_codes : StartsWith(bits, i, string_char_codes[c])

(***************************************************************************)
(* compressed_length and compression_compress walk through the text alike. *)
(* A position of the walk is the index i and two flags; to take a step is  *)
(* to emit the code of a key, a character of a string, or nothing.         *)
(***************************************************************************)
Start == [i |-> 1, string_mode |-> FALSE, gobbling_whitespace |-> FALSE, emit |-> ""]

\* The end of the comment that i is in.
CommentEnd(t, i) ==
  Min({k \in i .. Len(t) : Char(t, k) = "\n"} \cup {Len(t) + 1})

\* Fault: the character behind whitespace does not go back.
Walk_Glues(t, s) ==
  LET c == Char(t, s.i)
      ix == match_longest_key(t, s.i)
  IN CASE s.string_mode ->
          [s EXCEPT !.i = @ + 1, !.emit = string_char_codes[c],
                    !.string_mode = ~ (c = QUOTE /\ Char(t, s.i - 1) # BACKSLASH)]
       [] ~ s.string_mode /\ c = ";" -> [s EXCEPT !.i = CommentEnd(t, s.i), !.emit = ""]
       [] ~ s.string_mode /\ c \in Whitespace -> [s EXCEPT !.i = @ + 1, !.emit = ""]
       [] OTHER ->
          IF ix = -1 THEN [s EXCEPT !.emit = "none"]
          ELSE [s EXCEPT !.i = @ + Len(codes[ix][KEY]), !.emit = codes[ix][CODE],
                         !.string_mode = (c = QUOTE)]

\* A comment goes up to its newline.  Whitespace is passed over, and the first
\* character behind it goes back one place to emit a single space.  A " begins a
\* string, which ends at the next " that has no backslash before it.
Walk(t, s) ==
  LET c == Char(t, s.i)
      ix == match_longest_key(t, s.i)
  IN CASE s.string_mode ->
          [s EXCEPT !.i = @ + 1, !.emit = string_char_codes[c],
                    !.string_mode = ~ (c = QUOTE /\ Char(t, s.i - 1) # BACKSLASH)]
       [] ~ s.string_mode /\ c = ";" -> [s EXCEPT !.i = CommentEnd(t, s.i), !.emit = ""]
       [] ~ s.string_mode /\ c \in Whitespace ->
          [s EXCEPT !.i = @ + 1, !.emit = "", !.gobbling_whitespace = TRUE]
       [] ~ s.string_mode /\ c \notin Whitespace \cup {";"} /\ s.gobbling_whitespace ->
          [s EXCEPT !.emit = codes[match_longest_key(" ", 1)][CODE], !.gobbling_whitespace = FALSE]
       [] OTHER ->
          IF ix = -1 THEN [s EXCEPT !.emit = "none"]
          ELSE [s EXCEPT !.i = @ + Len(codes[ix][KEY]), !.emit = codes[ix][CODE],
                         !.string_mode = (c = QUOTE)]

RECURSIVE LengthFrom(_, _, _)
LengthFrom(t, s, comp_len) ==
  IF s.i > Len(t) THEN comp_len
  ELSE IF Walk(t, s).emit = "none" THEN -1
  ELSE LengthFrom(t, Walk(t, s), comp_len + Len(Walk(t, s).emit))

compressed_length(t) == LengthFrom(t, Start, 0)

RECURSIVE EmitFrom(_, _, _)
EmitFrom(t, s, bits) ==
  IF s.i > Len(t) THEN bits
  ELSE IF Walk(t, s).emit = "none" THEN "none"
  ELSE EmitFrom(t, Walk(t, s), bits \o Walk(t, s).emit)

\* The bits are written into an array of compressed_length(t) bits.  NULL, here
\* an empty code, if there is nothing to emit or a character without a key.
compression_compress(t) ==
  IF EmitFrom(t, Start, "") = "none" THEN [compressed_bits |-> 0, bits |-> ""]
  ELSE [compressed_bits |-> compressed_length(t), bits |-> EmitFrom(t, Start, "")]

(***************************************************************************)
(* compression_decompress_incremental                                      *)
(***************************************************************************)
compression_init_state == [i |-> 1, string_mode |-> FALSE, last_string_char |-> "", out |-> ""]

\* The next characters, in out, and the state after them.
compression_decompress_incremental(z, s) ==
  LET c == read_character(z.bits, s.i)
      ix == match_longest_code(SubSeq(z.bits, 1, z.compressed_bits), s.i)
  IN IF s.string_mode
       THEN [i |-> s.i + 8, out |-> c, last_string_char |-> c,
             string_mode |-> ~ (c = QUOTE /\ s.last_string_char # BACKSLASH)]
     ELSE IF ix = -1 THEN [s EXCEPT !.out = "none"]
     ELSE [i |-> s.i + Len(codes[ix][CODE]), out |-> codes[ix][KEY],
           string_mode |-> codes[ix][KEY] = QUOTE, last_string_char |-> ""]

\* All characters a reader gets; broken when it then meets bits that are no code.
RECURSIVE StreamFrom(_, _, _)
StreamFrom(z, s, text) ==
  IF s.i > z.compressed_bits THEN [text |-> text, broken |-> FALSE]
  ELSE LET next == compression_decompress_incremental(z, s) IN
       IF next.out = "none" THEN [text |-> text, broken |-> TRUE]
       ELSE StreamFrom(z, next, text \o next.out)

Stream(z) == StreamFrom(z, compression_init_state, "")
=============================================================================
