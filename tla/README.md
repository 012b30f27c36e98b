# A specification of lispBM

lispBM is a small Lisp for microcontrollers, written in C. This directory holds
TLA+ specifications of it, TLC configurations that check them on small instances,
and TLAPS proofs for instances of every size. Paths below are relative to the
repository (`src/memory.c`, `include/heap.h`, ...).

## 1. The system

| Part | State | Operations | Used by |
|---|---|---|---|
| array memory, `src/memory.c` | an arena of words, two status bits per word | `memory_init`, `memory_allocate`, `memory_free`, `memory_num_free` | heap (array storage), symbol table |
| heap, `src/heap.c`, `include/heap.h` | cons cells, free list, mark bits, counters | `cons`, `car`, `cdr`, `set_cdr`, boxed numbers, `heap_allocate_array`, `gc_mark_*`, `gc_sweep_phase` | everything |
| environments, `src/env.c` | association lists on the heap, one global | copy, lookup, set, modify, bind parameters | evaluators |
| CPS evaluator, `src/eval_cps.c` | per context: program, expression, environment, result, stack `K` | `evaluation_step`, `apply_continuation`, `gc` | REPLs |
| scheduler, `src/eval_cps.c` | run queue, done list, running context, next CID, two gc flags | create, dequeue, yield, wait, finish, remove | evaluator, client threads |
| `ec_eval` evaluator, `src/ec_eval.c`, `src/exp_kind.c` | nine registers, one of them a stack | one handler per kind of expression and continuation | `repl-ec` |
| stack, `src/stack.c`, `include/stack.h` | array and fill level | push, pop, drop | evaluators, marking |
| fundamental operations, `src/fundamental.c` | none | arithmetic, lists, arrays, symbols | evaluators |
| symbol table, `src/symrepr.c` | names and ids, stored in array memory | intern, look up | reader, printer |
| extensions, `src/extensions.c` | list of C functions | add, look up | evaluators |
| reader: `src/tokpar.c`, `src/qq_expand.c` | none beyond the text position | tokens, expressions, quasiquotation; takes cells, symbols, arrays | REPLs |
| compression, `src/compression.c` | none | compress a text, decompress it bit by bit while it is read | REPLs |
| printer `src/print.c`, prelude `src/prelude.c` | local | formatting; a text | REPLs |

How the parts meet. A REPL reads a text into cells and hands the list of
expressions to an evaluator. The CPS evaluator allocates cells; when a cell cannot
be had the step returns with `perform_gc` set, the next step collects and does the
same work again, and a second failure in a row ends the context with
`out_of_memory`. `ec_eval` collects inside the handler and tries once more there.
The collector is given, as roots, the global environment and the fields and stacks
of every context in the two lists (or the registers); array storage is freed by
the sweep. Contexts run one at a time and give up the processor only by `yield`,
`wait` or their end. A client (a REPL) runs in a thread of its own and calls
`eval_cps_program` without a lock; a finished context is handed to
`ctx_done_callback` or fetched from the done list. Symbols are entered into the
table by the reader and by `extensions_add`, and stay; their names lie in the
memory that arrays come from.

What is hard in this code, and where the properties are aimed:

* scans over a bitmap that does not tell a free word from the inside of a block;
* marking with a stack of fixed size, results that callers ignore;
* a step that is abandoned half way and done again after a collection: what it had
  popped, half-built structures, values that no root holds in between;
* pointer surgery in two doubly linked lists, a clock that wraps, CIDs of 16 bits;
* flags shared by all contexts, environments left over from the expression before;
* several contexts on one heap: roots of all of them, CIDs of contexts that were
  never made, results that nobody has fetched yet;
* a second thread in the run queue;
* handlers that push what other handlers pop, with nobody looking at the result;
* reading with cells, memory or symbols running out in the middle of a list;
* compressor, decompressor and tokenizer each with a view of its own of strings,
  comments and blanks.

`PROJECT.json` lists each of these under `hazards` with its line.

## 2. Modules

| Module | Models | Notes |
|---|---|---|
| `MemoryAbs` | what `memory.c` promises: disjoint blocks, first fit, exact count | abstract specification |
| `Memory` | `memory.c`, one iteration of a scan per step | implements `MemoryAbs` |
| `Memory_proofs` | theorems about `Memory` | TLAPS |
| `HeapOps` | the heap as a record and the operations on it as operators | no variables |
| `Heap` | evaluator and collector on that record, array storage from `MemoryAbs` | composes heap and memory |
| `Heap_proofs` | theorems about `Heap`: types, free list, references | TLAPS |
| `Collector_proofs` | theorems about `Heap`: exact collection, array storage | TLAPS; extends `Heap_proofs` |
| `HeapGc` | a collection as one step: what `Heap` shows of it | no variables |
| `Env` | `env.c` as operators on the heap | |
| `Fundamental` | `fundamental.c` on lists, symbols and 28-bit numbers | |
| `Language` | what both evaluators share: heap, global environment, special symbols, extensions | |
| `EvalCps` | `evaluation_step` and `apply_continuation` for all contexts on one heap | extends `Language` |
| `EcEval` | the handlers of `ec_eval` | extends `Language` |
| `Evaluators` | a program given to one of the two | composes `EvalCps` and `EcEval` |
| `Language_proofs` | lemmas: what `gc`, `cons` and the operators of `Env` and `Fundamental` do to a heap | TLAPS |
| `EvalCps_proofs` | theorem about the stacks of `EvalCps`, in `Evaluators` | TLAPS; extends `Language_proofs` |
| `EcEval_proofs` | theorem about the stack of `EcEval`, in `Evaluators` | TLAPS; uses `EvalCps_proofs` |
| `Evaluators_proofs` | theorems about both evaluators: types, and no cell in use is recovered | TLAPS; extends `EcEval_proofs` |
| `Scheduler` | run queue, done list, clock, client thread | programs left open |
| `Scheduler_proofs` | theorems about `Scheduler` | TLAPS |
| `SymRepr` | `symrepr.c`, `extensions.c`, and the memory that names and arrays share | no variables |
| `Compression` | `compression.c` | no variables |
| `Reader` | `tokpar.c` and `qq_expand.c`, and sessions of reading, collecting and registering extensions | composes `HeapGc`, `SymRepr`, `Compression` |
| `MC_Heap`, `MC_EvalCps`, `MC_Reader` | values for the constants | `MC_EvalCps` holds the test programs, `MC_Reader` the texts |

A definition carries the name of the C function it models wherever there is one.
Where a C function is a loop whose intermediate states matter it is split into
actions for the call, one iteration, and the return; `pc` says which loop is
running. Operators that begin with the comment "Fault:" are not part of the
model: each is a variant of the definition that follows it, with a plausible
programming error, and shows that the property named for it in `PROJECT.json` can
fail.

### Memory
`bitmap` maps each word to one of the four statuses; `state`, `i` and the other
locals are the C variables. `memory_free` may be called on any word, also on one
that is not the start of a block. While `memory_free` is between erasing START
and erasing END, `View` shows the bitmap with the block still there; the blocks
that `View` describes are the refinement mapping to `MemoryAbs`. The packing of
statuses into 32-bit words and the address arithmetic are left out.

### Heap
A VALUE is a pair of a type and a payload. `roots` stands for everything the
evaluator holds; it may cons any two roots, load through a root, change a `cdr`,
make boxed numbers and arrays, and forget a root, so all heap shapes arise,
cycles included. An allocation that fails starts the collector, whose marking is
modelled pop by pop with its bounded stack. `overflow` records that a
`gc_mark_phase` has returned 0, a result the code drops. `fl` is an auxiliary
variable: the free list as a sequence. The car of a boxed or array cell is
`<<"RAW", n>>`; `load` can fetch it as a value, taken not to look like a pointer.

### Language, Fundamental
`Images` are the states after a program was read: its cells, a global environment
and a free list of chosen length. `promise` (what is expected of the program),
`env_lost` and `starved` are auxiliary. `Fundamental` computes with signed and
unsigned 28-bit numbers and with both together, as the code does: the operand of
the larger type decides, and `-` and `/` do not undo the exchange that puts it
first. Its words have 30 bits instead of 32, which no result can tell.
`fundamental_exec` is given the words from the first argument on, and how many of them
are arguments: most operations never look at the number and read what follows.
`ImageAssumption` says of an image what `Heap` shows of the heap after reading: the
free list is proper, and nothing in use leads into it. `GarbageAssumption` says of the
words that `malloc` leaves in a new context, and that lie above the stack of `ec_eval`,
that none of them looks like a pointer out of the heap: `gc` marks such a word
(`src/eval_cps.c:730`), and would mark outside of the heap.

### EvalCps
`ctx` has the fields of `eval_context_t` that evaluation uses. One action per
kind of expression and per continuation; `Collect` and `OutOfMemory` are the
prologue of `evaluation_step`, with the collection itself in one step (`Heap` has
it in detail). The stack does not grow (`EVAL_CPS_DEFAULT_STACK_GROW_POLICY` is
false); `FOF` and `FATAL_ON_FAIL` are the two macros around a push, which differ
in what they do when it fails. `cons` that fails leaves the cells taken before it
allocated. Programs may `spawn` others, `yield` and `wait`; `ctx_queue` and
`ctx_done` are sequences here, a sleeping context may be due or not, and
`create_ctx` may fail for want of `malloc`. `r` of a new context is an arbitrary
word (`Garbage`), since nothing sets it. The one extension is `ext_print` of
`repl-cps/repl.c`. `apply_continuation` switches on `dec_u` of the topmost word, which
shifts out the type and does not look at it (`include/heap.h:324`): a number or a
special symbol that has come to lie on top is taken for the continuation of that
number, and `ContUnknown` is left with all other words. `unborn` and `misread` are
auxiliary: a CID was reported and no context made; an argument with the value `and` or
`or` was taken for the operator (programs `operand` and `leftover`), which leaves
entries on `K` that belong to no continuation.

### EcEval, Evaluators
`rm` is `rm_state`; `es` says which of its three switches `ec_eval` enters next.
Pushes are not checked, so what does not fit is left out. `adrift` is auxiliary: a
handler has gone on with something it did not get, which happens in `eval_let`,
`cont_accumulate_last_arg` and `eval_apply_fundamental` (see the list below). The
evaluation goes on from there as it does in the code, over words left above the stack
(`Garbage`), and comes to an end (`EcTerminates`); the other properties claim nothing
about it. `eval_let` on bindings that do not end in nil never returns, and has no
step.
`tests/test_lisp_code_cps_nc.c` runs every test with either evaluator;
`Evaluators` does the same with the programs of `MC_EvalCps`.

### SymRepr, Compression, Reader
The table is a record; the blocks of memory are those of `MemoryAbs`. A text is a
TLA+ string, and the tokenizer and the parser are recursive functions on positions
in it, as the recursive descent of the code is; they return the heap, the table,
the value and the position behind it. Compressed code is a string of bits with the
length that its header counts. A session reads texts, plain or compressed, lets go
of programs, collects and registers extensions in any order. A backquote is written
`~`, a character the language does not use. `wild` says that a string was written
through a pointer nobody has set; nothing is claimed after it.

### Scheduler
Contexts are numbered records with the links, CID, time stamp and sleep time of
the C struct; `alive` is what `malloc` has given out. What a program does between
calls into the scheduler is left open (`Evaluate`, `AllocationFails`), so the
results hold for every program. `dequeue_ctx` and the search of the done list
advance one context per step, because the client's `enqueue_ctx` may come in
between; the client's accesses to shared variables are `SubmitTest`, `SubmitLink`
and `SubmitLast`. `elapsed`, `failures`, `qs`, `ds` and `raced` are auxiliary: real
time slept, failures of the running expression, the two lists as sequences, and
whether the evaluator has changed the queue in the middle of a client's
`enqueue_ctx`. `Removes` says whether `ctx_done_callback` may remove the context, as
the one of `repl-cps/repl.c` does.

## 3. Runs

| Run | Instance | Shows |
|---|---|---|
| `memory` | 8 words, requests 0, 1, 3, 4 | the scans are right and implement `MemoryAbs` |
| `heap` | 3 cells, 2 roots, mark stack 4 | exact collection, proper free list, no dangling reference |
| `heap_arrays` | 2 cells, 7 words of storage, arrays of 3 and 4 words | storage is owned by exactly one handle, collections end |
| `scheduler` | 3 contexts, one of them submitted by a client thread, clock and CIDs modulo 4, callback that may remove | lists intact, nobody lost, nobody early while calls of `enqueue_ctx` do not overlap with changes of the queue |
| `scheduler_live` | 3 contexts, clock modulo 3 | who is due runs, results are delivered |
| `eval` | 23 programs with `eval_cps`, 3 of them also with a stack of 10, and 21 with `ec_eval`; 25 sizes of free memory each, 100 cells | collections and retries do not change results, nothing in use is recovered, stacks are made of whole frames, both evaluators give the same answers and come to an end in spite of full stack and heap |
| `reader` | every text of up to 3 characters out of 15, 25 longer ones, plain and compressed; sessions with 0 to 14 free cells or 9 sizes of free memory | a text is read as what it says, compressed or not; a backquoted template yields what it stands for; one symbol per name, extensions are found, and every block of memory has one owner, also when cells or memory run out |

Runs that are expected to find a violation; `findings` in `PROJECT.json` quotes
what the repository says in each case:

| Run | What happens |
|---|---|
| `heap_deep` | marking runs out of stack, the sweep frees live cells |
| `scheduler_race` | a submitted context is in no list |
| `scheduler_memory` | a context that never failed is finished for want of memory |
| `eval_scope` | an expression sees a variable of the expression before it |
| `eval_globals` | a failing `define` loses all global definitions |

More peculiarities are in the models without a run of their own, because each can
be read off one or two lines of the code.

Heap, scheduler and CPS evaluator:

* `heap_allocate_array` returns the `out_of_memory` symbol, a nonzero number, when the
  heap is full (`src/heap.c:520-521`); its callers take nonzero for success
  (`src/fundamental.c:758`). Variable `array_ret` of `Heap` keeps the result, about
  which no property speaks.
* The guard against CIDs running out watches a 32-bit counter (`src/eval_cps.c:261`)
  while a CID has 16 bits (`include/typedefs.h:38`), so after 2^16 contexts a CID is
  0, the value for failure, or one in use.
* `spawn` reports a CID before its context is made, and whether or not it is
  (`src/eval_cps.c:389`). A program that waits for it waits for ever, which
  `Terminates` excepts (`unborn`).
* `APPLICATION_ARGS` compares every value it is given with the symbols `and` and `or`, the
  function of an application and each of its arguments (`src/eval_cps.c:625-654`). An
  argument with that value starts a conjunction of the arguments after it and leaves
  the function and the arguments before it on `K`, where the next word is taken for a
  continuation by its number. `(not (= (list 1 'and) '(1 and)))` answers t, because
  the 1 is `DONE` and the value of the empty conjunction is the result (program
  `operand`); `(= (list 2 'or) '(2 or))` answers nil, because the 2 is
  `SET_GLOBAL_ENV`, which gives the symbol `list`, the function below it, the value nil
  (program `leftover`). `ec_eval` looks at the head of the expression only
  (`src/exp_kind.c:41-44`) and answers nil and t. The attempt to prove
  `StackOfFrames` without a proviso failed at this case.
* `FATAL_ON_FAIL` (`src/eval_cps.c:42`) marks a context as done and leaves it running,
  so that its result is overwritten: the programs with the short stack may end with
  an error other than `fatal_error`.
* `env_copy_shallow` reverses the environment it copies (`src/env.c:46`): under
  `eval_cps` a closure below two variables of one name sees the outer one. `ec_eval`
  shares the environment, and its answer in program `shadow` is the inner one.
* `-` and `/` of numbers of different types do not undo the exchange of their
  operands (`src/fundamental.c:358-397`): `(- 1 2u28)` is `1u28`. Comparisons do undo
  it; program `mixed` has both sides.

`ec_eval`:

* `eval_let` asks for the result of the `cons` of the round before
  (`src/ec_eval.c:459`), and the environment it builds is no root of its collections
  (`:461`): bindings may be missing or recovered. Program `lets` reaches this. A variable
  lost so may be found among the globals: `(let ((x 1) (y 2)) ..)` after definitions of
  `x` and `y` may see the global `x`.
* `cont_accumulate_last_arg` (`:282`) applies the function even when the list of
  arguments could not be reversed: `argl` is then `out_of_memory`, for
  `eval_apply_fundamental` a list of no arguments: with three free cells
  `(list 1 2 3)` is nil.
* `eval_apply_fundamental` (`:302`) pushes the arguments for `fundamental_exec`, which
  takes as many words as the operation wants: `(cons 1)` answers with a word that is left
  over above the stack.
* The wrong number of arguments is not noticed, the body is evaluated with
  `fatal_error` as its environment. `((lambda () ..))` is given one argument, nil.
* `yield`, `wait` and `spawn` count as fundamental but are unknown to
  `fundamental_exec`: their value is `eval_error`, and evaluation goes on (program
  `unyielding`). `(and)` is nil here and t under `eval_cps`. `if` takes everything
  but nil for true here, only t under `eval_cps`. Every error is answered with
  `eval_error`.

Reading:

* `parse_string` ignores that there is no room for the string (`src/tokpar.c:561`).
* A string without an end loses its quotation mark, and digits behind it are read as
  a number.
* `extensions_add` enters the name before it asks `malloc` for the record
  (`src/extensions.c:50`); when that fails, an extension of the same name is hidden.
  An extension under the name of a special symbol is never found.
* The compressor and the tokenizer disagree about a string that begins after `\#` or
  ends after a backslash; `Tame` leaves such texts out. Upper case letters and `@`
  have no code.
* Names are given as many words as they have bytes (`src/symrepr.c:194-198`).

### Bounds
* 8 words hold up to eight blocks of one word, or two longer ones with a hole
  before, between or after them, and a request that fits only one hole; request 0
  is the case in which the scan runs over everything.
* 3 cells and 2 roots give shared data, cycles through car and cdr, garbage cycles
  and a full heap. A mark stack of 4 suffices for them (theorem
  `MarkStackSuffices`); 2 does not, as 1024 does not for deep enough data.
* 3 contexts have a middle one to unlink. `ClockModulus` 4 wraps within one sleep,
  `CidModulus` 4 after the fourth context. `MaxCreated` bounds contexts created,
  `MaxLag` how long a queued context goes unattended; it stays within one turn of
  the clock, as the C code assumes. `NoOverlap` ends behaviours of run `scheduler` at
  the step in which the evaluator meets a client's `enqueue_ctx` in the queue: what
  follows is the subject of `scheduler_race`, and the properties make no claim about
  it.
* 25 sizes of free memory put the first failing allocation on every step of each
  program, and the collections after it on many. The programs are the repository's
  `tests/test_*.lisp` with small numbers, programs that spawn and wait for others,
  and programs that end in an error. `StackSize` 60 is ample for them, `ShortStack`
  10 is not. `Depth` is what the first round of a tail recursive loop needs; the
  later rounds must not need more. `Garbage` has a word that is no pointer and one
  that points to a cell.
* The 15 characters have one of every class the tokenizer tells apart; three of them
  make each prefix, comment, string and bracket meet the end of the text and one
  another. `FewCells` fail a reading at every cell it takes, `FewWords` at every
  allocation of a node, a name or a string. `MaxSymbols` bounds registrations.

### Fairness
`heap_arrays`: the collector, once started, goes on (`WF` of `Collect`): it runs to
its end inside one call. `scheduler_live`: the evaluator's thread is scheduled, the
clock goes on, and the running context eventually gives up the processor. The last
is an assumption about programs: scheduling is cooperative, nothing in the code
enforces it (`EVAL_CPS_QUANTA_US` is not used). No fairness is assumed of
allocation failing or succeeding. `eval`: an evaluator keeps taking steps while
there is something to evaluate, as the loops of `eval_cps_run_eval` and `ec_eval`
do, and a context that sleeps is some day dequeued, which is what `ReadyRuns` of
`Scheduler` says.

Deadlock is checked in every run but `reader`, whose sessions are finite. In the
evaluators the end of a program is a step of its own, so freedom from deadlock means
that every expression and every continuation has its case.

## 4. Proofs

`Memory_proofs` (assuming only that the arena has a word and requests are
naturals). The inductive invariant joins `WellFormed` with what each scan knows at
index `i`: SKIP exactly when `i` is inside a block of the bitmap, the words from
`start_ix` up to `i` free and counted by `free_length`, no hole large enough
before `start_ix`, and for the count, the number of free words below `i`. The
state of the scan is what makes the two meanings of FREE_OR_USED come apart, so
`WellFormed` alone is not inductive with `HandsOutFreeWords` or
`FailsOnlyWhenFull`. From it: type correctness, the four safety invariants, and
`Refinement`: each step is an operation of `MemoryAbs` or a stutter.

`Heap_proofs` (assuming a nonempty heap, that every register is handed to the
collector, a mark stack with an entry). The invariant follows the collector: before
marking no cell is marked; while marking, a marked cell's children are marked or
on the stack or due from a later root; while sweeping, cells below `i` are
unmarked and above `i` what is marked is closed under references. It yields
`TypeCorrect`, `FreeListCorrect` and `ReferencesCorrect`, the last two as long as
no mark stack overflowed. `MarkStackSuffices` bounds the stack by the number of
marked cells plus one, and with it `DeepDataKept` gives `LiveDataKept` for every
heap smaller than the mark stack: the condition under which `heap_deep` cannot
happen.

`Collector_proofs` adds to that invariant what a collection has achieved. While
marking, the marked cells outside the free list and the pointers on the mark stack
are reachable, and while sweeping, so is what is kept (`Reached`; that everything
reachable is kept follows from the invariant of `Heap_proofs`). What has been marked
and recovered, and the cells that the sweep has still to recover, add up to the heap
(`Counted`). From these `CollectionCorrect`. `Storage` matches blocks and allocated
handles one to one; it is inductive because no two blocks begin at the same word, and
gives `StorageCorrect`, which also assumes that an array has a natural number of words
(`ArrayShapesAssumption`). Both hold as long as no mark stack overflowed; after it a
store through a dangling reference may turn a handle into a pair.

`Scheduler_proofs` (assuming at least one context, one program that is started, and
nonzero moduli). `TypeOK` needs `Control`, which of the evaluator's and the client's
locals are set where, and `FailuresFlagged`: each failed allocation of the running
context has left its trace in the gc flags, so there are at most two. `Proper` holds
until a race: `Lists`, the links and the ends of both lists are those of the sequences
`qs` and `ds`, with the client's context appended once it is linked but not yet last
(`Qs`); `Apart` and `Owned`, each context is in one place; `Scanning`, a search is at
a context of its list; `Slept`, the difference that `dequeue_ctx` computes from a time
stamp is never more than the time that has passed. The last is the reason why a sleep
never ends early, whatever the width of the clock: wrapping makes the difference
smaller, never larger. From these `TypeCorrect`, `ContextsCorrect` and
`NeverEarlyCorrect`. `Proper` cannot be had after a race (run `scheduler_race`).

`EvalCps_proofs` (assuming that stacks have at least one entry and fewer than 2^28,
`StackSizeAssumption`, so that the count of arguments does not wrap). `Whole`, which
`StackOfFrames` uses, reads a stack by recursion from its top; the proof keeps a set of
positions at which a continuation ends, each with the position under it also in the
set (`Ends`). A push adds a position, a pop removes one, and changing a continuation
in place (`ReplaceTop`) keeps those under it. `AllReady` says this of every context
that is queued or running and not given up, with its stack within bounds. That
`Whole` meets nothing but these positions is shown by the least position at which it
would (`LeastNat`); so this one recursion is within reach, since it needs no induction
over an operator. `AllReady` is inductive except in one case, an argument with the
value `and` or `or`: hence the proviso of `StackOfFrames` and program `operand`. The
switch on `dec_u` needs the invariant too: on top of a stack of whole continuations is
a tag (`TopTag`), no two tags have the same number (`OneTag`), so a handler is entered
with its own continuation on top (`Dispatched`). The theorem holds for every program and heap, including ones that no reader produces:
nothing is assumed of `Images` but the size of the stack.

`EcEval_proofs` makes the same argument for `ec_eval`. There the register `cont` and
not the stack says what the topmost frame is, and a frame is of a fixed size with the
next continuation at a fixed place (`EcFrame`), so the proof keeps a set of pairs of a
continuation and a height, each with the pair of the frame below (`Stands`). A frame
in the making, on whose bottom lies the continuation to return to, is `Bears`; it is
what `eval_arg_loop`, `eval_let_loop` and `eval_sequence` share with their callers.
`ec_eval` never looks at the result of a push, and once one is lost the next handler
pops another one's values: `EcFramesCorrect` is therefore about behaviours in which
there is always room for the five values that a handler pushes at most (`[]EcRoom`).
Run `eval` shows that its programs are such: `EcTailCallsConstantStack` bounds the
stack by `promise.depth`, which is at least five below its size. As with the other
evaluator, nothing is assumed of the programs and the heaps, and nothing is claimed
once a handler has gone on with what it did not get (`adrift`).

`Language_proofs` has no theorem that is listed, only what the next module is made
of. `Sound(h, F)` says that the free list of `h` has exactly the cells of `F`, that no cell
has a mark, and that no cell outside `F` leads into `F`; `Kept(F, v)` that `v` does not.
An operation that is given values that are kept `Leaves` a sound heap in which its
result is kept and fewer cells are free, whether or not it finds the cells it wants: so
for `cons`, `set_cdr`, `env_set`, `env_copy_shallow`, `env_build_params_args`, `append` and
the rest, however far they get. Lists of any length are within reach although each of
these is a recursive function: the set of indices up to which the claim holds
contains 0 and every successor (`Upto`), and this uses no theorem with an operator for
a parameter. For `gc`, `Reachable` is a recursive function on sets of cells; by the
number of cells that are still missing it is shown to be the least set that holds the
roots and is closed under references (`ReachableIs`), and the sweep is followed cell by
cell. After it the roots, and what they lead to, are kept, and the free list has the rest.

`Evaluators_proofs` (assuming `ImageAssumption`, `GarbageAssumption` and
`StackSizeAssumption`). For `eval_cps` the inductive invariant is `Safe` together with
`AllReady`: for one set `F` the heap is `Sound`, and the global environment, the results in
the done list and the fields and stack of every context in the queue or running are
`Kept`. `r` of a context is the exception, and the reason why the obvious invariant is
not inductive: until it is set it holds garbage, which may be the address of a free
cell; it is kept only while `app_cont` says that it is going to be used. A collection
may thus mark, and keep, cells that nobody uses. `AllReady` is needed because a handler
reads its frame from the stack: that what it pops as an environment or as a program
was pushed as one. Each of the 30 actions then uses the lemma about the operation it
calls. A step that fails for want of a cell has changed nothing but the heap, where
it leaves garbage that leads to no free cell; the next step collects and finds its
arguments where they were. This gives `InUseSafe`. `TypeCorrect` adds `Flags`: the gc
flags are Booleans. That `num_alloc` stays between 0 and `heap_size` follows because
`FreeListIs`, a part of `Sound`, keeps it at `heap_size` less the length of the free list,
and the cells in that list are distinct.

Both suppose `[]Sturdy`: no argument has been misread, and no context goes on although
it is marked as done. The latter is what `FATAL_ON_FAIL` makes of a push that fails
(`src/eval_cps.c:42`): the context stays the running one, and its next handler pops what
was never pushed, below the bottom of the stack too. Every program with a stack that
is ample for it has such behaviours only. Run `eval` also checks `NothingInUseRecovered`
and `TypeOK` for programs with too short a stack.

For `ec_eval` it is `EcSafe` together with `AllUpright` and `Alone` (while `ec_eval` has a
program, `eval_cps` is idle). `EcSafe` has two cases. As a rule the heap is `Sound` and every
register and entry of the stack is kept (`Holds`). But `eval_let` builds an environment
that is no root of its own collections; when it collects after the first binding and
then gives up for want of cells, the heap holds garbage that leads to free cells, and
is not `Sound`. Nothing worse comes of it, because it gives up: `Spared` says that
the registers lead, in any number of steps, to no free cell, and this suffices for
the one handler that follows, `cont_error`. When it does not give up, the environment
itself may be free, and `adrift` says so. `RegistersSafe` supposes room on the stack
(`[]EcRoom`), as `EcFramesCorrect` does and for the same reason.

Only model-checked, and why:

* all liveness (`CollectionEnds`, `ReadyRuns`, `ResultDelivered`, `Terminates`,
  `EcTerminates`): it needs fairness;
* `GcTransparent`, `EcAnswers`, `TailCallsConstantStack`, `EcTailCallsConstantStack`:
  they compare what particular programs compute, or need, with what is expected of
  them (`promise`), which for every program is no claim at all;
* everything about `Reader`, whose parser is recursive over texts and trees: the
  operators are RECURSIVE, which the provers cannot take, and what they return needs
  induction over the text.

## 5. Not modelled

* The printer and the prelude's text: formatting, and data. The visualiser, the REPL
  programs and examples (their calls into the library are the clients of
  `Scheduler` and the sessions of `Reader`). `bytecode.c` is empty. ChibiOS and the
  other vendored code is not part of the program.
* `fundamental.c`: boxed 32-bit numbers, whose words do not fit TLC's integers;
  floats; `array-read`, `array-write` and the conversions of symbols.
  `mk-sym-indirect` makes a value that counts as a pointer, and marking follows its
  number (`src/heap.c:237`).
* `heap.c`: `copy`, `set_car` and the `heap_perform_gc*` entry points, which nothing
  in the library calls. `stack.c`: growable stacks. `symrepr_del` and
  `extensions_del`.
* `ec_eval.c`: EXP_KIND_ERROR and a failing `stack_allocate`.
* `compression.c` changes the text it is given, every whitespace character into a
  space (`:475`); no session reads a text again after it was compressed.
* `tokpar.c`: the tokenizer's `malloc`, digit strings beyond 32 bits, the rounding of
  `strtod`; and reading in a client's thread while the evaluator collects
  (`repl-cps`): all cells of the text are unrooted until it has been read, as
  item 18 of the repository's README says.

`PROJECT.json` gives the reason for each under `components`.

## 6. Plan

Done: memory, heap, scheduler, environments, both evaluators with several contexts,
symbol table, extensions, reader, quasiquotation and compression, with proofs about
memory, heap, scheduler, and the stacks and collections of both evaluators. Next:

1. Proofs: of `SymRepr` that a refused symbol leaves the memory as it was.
2. Arrays and symbol conversion of `fundamental.c` on the memory of `SymRepr`, and
   boxed numbers with words scaled down.
3. Reading in a thread beside the evaluator.
