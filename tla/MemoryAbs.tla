------------------------------ MODULE MemoryAbs ------------------------------
(***************************************************************************)
(* What the word allocator of src/src/memory.c promises its callers, with  *)
(* no bitmap and no scanning: a set of live blocks, each an interval       *)
(* <<first word, last word>>.  Memory is shown to implement this module.   *)
(***************************************************************************)
EXTENDS Integers, FiniteSets

CONSTANTS memory_size,   \* words in the arena
          Requests       \* values of num_words that callers ask for

VARIABLES blocks,        \* the live blocks
          ret            \* <<operation, value>> of the last call to return

absVars == <<blocks, ret>>

NULL == -1
Word == 0 .. memory_size - 1

\* No live block holds word k.
FreeWord(k) == \A b \in blocks : k < b[1] \/ k > b[2]

\* The n words from p on lie in the arena and are all free.
Hole(p, n) == p + n <= memory_size /\ \A k \in p .. p + n - 1 : FreeWord(k)

AbsInit == blocks = {} /\ ret = <<"init", 1>>

\* A request is served from the lowest hole that is large enough ...
Allocate(n) ==
  \E p \in Word :
    /\ ret' = <<"allocate", p>>
    /\ n > 0
    /\ blocks' = blocks \cup {<<p, p + n - 1>>}
    /\ Hole(p, n)
    /\ \A q \in 0 .. p - 1 : ~ Hole(q, n)

\* ... and refused only when there is none (or when it asks for nothing).
Refuse(n) ==
  /\ ret' = <<"allocate", NULL>>
  /\ n = 0 \/ \A p \in Word : ~ Hole(p, n)
  /\ UNCHANGED blocks

\* The block that starts at word w, whole, is what memory_free gives back.
Free(w) ==
  /\ ret' = <<"free", 1>>
  /\ \E b \in blocks : b[1] = w /\ blocks' = blocks \ {b}

\* An address that starts no block is rejected and changes nothing.
Reject(w) ==
  /\ ret' = <<"free", 0>>
  /\ \A b \in blocks : b[1] # w
  /\ UNCHANGED blocks

NumFree ==
  /\ ret' = <<"num_free", Cardinality({k \in Word : FreeWord(k)})>>
  /\ UNCHANGED blocks

AbsNext ==
  \/ \E n \in Requests : Allocate(n) \/ Refuse(n)
  \/ \E w \in Word : Free(w) \/ Reject(w)
  \/ NumFree

AbsSpec == AbsInit /\ [][AbsNext]_absVars
=============================================================================
