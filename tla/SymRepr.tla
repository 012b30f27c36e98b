------------------------------ MODULE SymRepr ------------------------------
(***************************************************************************)
(* The symbol table of src/src/symrepr.c, the extensions that              *)
(* src/src/extensions.c registers under its names, and the memory that the *)
(* names share with the arrays of the heap.  The table is a record:        *)
(*   symlist         the entries, newest first: a name, its id, and where  *)
(*                   the node and the characters of the name are stored,   *)
(*   next_symbol_id  symbols added so far,                                 *)
(*   extensions      the ids that have a function, newest first,           *)
(*   blocks          the live blocks of memory, as in MemoryAbs,           *)
(*   arrays          those of them that hold the elements of an array.     *)
(***************************************************************************)
EXTENDS Integers, Sequences

CONSTANT memory_size   \* words that memory_allocate serves from
ASSUME MemorySizeAssumption == memory_size \in Nat \ {0}

MAX_SPECIAL_SYMBOLS == 4096
special_symbols ==
  {"nil", "quote", "t", "if", "lambda", "closure", "let", "define", "progn",
   "comma", "splice", "read_error", "type_error", "eval_error", "out_of_memory",
   "fatal_error", "division_by_zero", "sym_array", "sym_boxed_i", "sym_boxed_u",
   "sym_boxed_f", "sym_ref", "sym_recovered", "sym_bytecode", "sym_nonsense",
   "variable_not_bound", "type-list", "type-i28", "type-u28", "type-float",
   "type-i32", "type-u32", "type-array", "type-symbol", "type-char", "type-ref",
   "+", "-", "*", "/", "mod", "=", "<", ">", "eval", "and", "or", "not", "yield",
   "wait", "spawn", "num-eq", "car", "cdr", "cons", "list", "append", "array-read",
   "array-write", "array-create", "type-of", "sym-to-str", "str-to-sym",
   "sym-to-u", "u-to-sym", "mk-sym-indirect", "is-fundamental"}

NULL == -1
Word == 0 .. memory_size - 1

(***************************************************************************)
(* memory_allocate and memory_free as Memory implements them               *)
(***************************************************************************)
Block(p, n) == <<p, p + n - 1>>
Hole(blocks, p, n) ==
  p + n <= memory_size /\ \A b \in blocks : p + n - 1 < b[1] \/ b[2] < p
Holes(blocks, n) == {p \in Word : Hole(blocks, p, n)}

memory_allocate(blocks, n) ==
  IF n = 0 \/ Holes(blocks, n) = {} THEN NULL
  ELSE CHOOSE p \in Holes(blocks, n) : \A q \in Holes(blocks, n) : p <= q

memory_free(blocks, p) == {b \in blocks : b[1] # p}

(***************************************************************************)
(* symrepr.c                                                               *)
(***************************************************************************)
NODE_SIZE == 3

\* The value of a symbol: a special one stands for its name, the others for a
\* number.
enc_id(id) == <<"ID", id>>
NONE == enc_id(NULL)

\* The list is searched from its front: the newest entry of a name counts.
First(K) == CHOOSE k \in K : \A j \in K : k <= j
Named(table, name) == {k \in DOMAIN table.symlist : table.symlist[k].name = name}
Numbered(table, id) == {k \in DOMAIN table.symlist : table.symlist[k].id = id}

\* Fault: the oldest entry counts.
symrepr_lookup_Oldest(table, name) ==
  IF name \in special_symbols THEN <<"SYM", name>>
  ELSE IF Named(table, name) = {} THEN NONE
  ELSE enc_id(table.symlist[CHOOSE k \in Named(table, name) : \A j \in Named(table, name) : j <= k].id)

symrepr_lookup(table, name) ==
  IF name \in special_symbols THEN <<"SYM", name>>
  ELSE IF Named(table, name) = {} THEN NONE
  ELSE enc_id(table.symlist[First(Named(table, name))].id)

\* The name of a symbol VALUE, or "" (a NULL pointer in the code).
symrepr_lookup_name(table, v) ==
  IF v[1] = "SYM" THEN v[2]
  ELSE IF Numbered(table, v[2]) = {} THEN ""
  ELSE table.symlist[First(Numbered(table, v[2]))].name

\* Fault: the node is kept when there is no room for the name.
symrepr_addsym_KeepsNode(table, name) ==
  LET m == memory_allocate(table.blocks, NODE_SIZE)
      noded == table.blocks \cup {Block(m, NODE_SIZE)}
      storage == memory_allocate(noded, Len(name) + 1)
      id == MAX_SPECIAL_SYMBOLS + table.next_symbol_id
  IN IF name = "" \/ m = NULL THEN [table |-> table, v |-> NONE]
     ELSE IF storage = NULL THEN [table |-> [table EXCEPT !.blocks = noded], v |-> NONE]
     ELSE [table |-> [table EXCEPT
                        !.symlist = <<[name |-> name, id |-> id, node |-> m, str |-> storage]>> \o @,
                        !.next_symbol_id = @ + 1,
                        !.blocks = noded \cup {Block(storage, Len(name) + 1)}],
           v |-> enc_id(id)]

\* A node, then the characters of the name, one word for each and for the 0 at
\* the end (the code asks for n words where n bytes are meant).
symrepr_addsym(table, name) ==
  LET m == memory_allocate(table.blocks, NODE_SIZE)
      noded == table.blocks \cup {Block(m, NODE_SIZE)}
      storage == memory_allocate(noded, Len(name) + 1)
      id == MAX_SPECIAL_SYMBOLS + table.next_symbol_id
  IN IF name = "" \/ m = NULL THEN [table |-> table, v |-> NONE]
     ELSE IF storage = NULL
       THEN [table |-> [table EXCEPT !.blocks = memory_free(noded, m)], v |-> NONE]
     ELSE [table |-> [table EXCEPT
                        !.symlist = <<[name |-> name, id |-> id, node |-> m, str |-> storage]>> \o @,
                        !.next_symbol_id = @ + 1,
                        !.blocks = noded \cup {Block(storage, Len(name) + 1)}],
           v |-> enc_id(id)]

\* Fault: a name that is in the table is entered again.
intern_Always(table, name) ==
  IF name \in special_symbols THEN [table |-> table, v |-> <<"SYM", name>>]
  ELSE symrepr_addsym(table, name)

\* How the parser and str-to-sym use the two.
intern(table, name) ==
  IF symrepr_lookup(table, name) # NONE
    THEN [table |-> table, v |-> symrepr_lookup(table, name)]
    ELSE symrepr_addsym(table, name)

(***************************************************************************)
(* extensions.c                                                            *)
(***************************************************************************)
extensions_lookup(table, v) == \E k \in DOMAIN table.extensions : table.extensions[k] = v

\* The name is entered whether it is in the table or not.  If malloc then has no
\* record for the extension, the symbol stays.
extensions_add(table, name, malloc) ==
  LET added == symrepr_addsym(table, name) IN
  IF added.v = NONE \/ ~ malloc THEN [table |-> added.table, ok |-> FALSE]
  ELSE [table |-> [added.table EXCEPT !.extensions = <<added.v>> \o @], ok |-> TRUE]

(***************************************************************************)
(* Properties of a table                                                   *)
(***************************************************************************)
NodeOf(e) == Block(e.node, NODE_SIZE)
StringOf(e) == Block(e.str, Len(e.name) + 1)
Entries(table) == {table.symlist[k] : k \in DOMAIN table.symlist}

Disjoint(b, c) == b[2] < c[1] \/ c[2] < b[1]

\* Every block of memory is the node of one symbol, the characters of one name or
\* the elements of an array; nothing is stored twice in one place, and nothing
\* that an addition took before it failed is left behind.
Stored(table, fixed) ==
  /\ table.blocks = {NodeOf(e) : e \in Entries(table)} \cup
                    {StringOf(e) : e \in Entries(table)} \cup table.arrays \cup fixed
  /\ \A b, c \in table.blocks : b = c \/ Disjoint(b, c)
  /\ \A e, f \in Entries(table) :
       /\ NodeOf(e) # StringOf(f) /\ {NodeOf(e), StringOf(e)} \cap (table.arrays \cup fixed) = {}
       /\ e # f => NodeOf(e) # NodeOf(f) /\ StringOf(e) # StringOf(f)

\* An id is given to one symbol only.
IdsUnique(table) == \A e, f \in Entries(table) : e.id = f.id => e = f
=============================================================================
