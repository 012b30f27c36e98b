----------------------------- MODULE Scheduler -----------------------------
(***************************************************************************)
(* The concurrent evaluator of src/src/eval_cps.c: contexts wait in a      *)
(* doubly linked run queue, one at a time runs, finished ones sit in a     *)
(* second list until somebody collects their result.  The evaluator thread *)
(* executes eval_cps_run_eval; what a context does between two calls into  *)
(* the scheduler is left open, so that every Lisp program is covered.      *)
(* Client threads (a REPL) hand in programs with eval_cps_program and take *)
(* no lock.                                                                *)
(***************************************************************************)
EXTENDS Integers, Sequences, FiniteSets

CONSTANTS NumCtx,        \* contexts that malloc can provide at one time
          NumStarted,    \* programs handed in before the evaluator starts
          MaxCreated,    \* bound on the contexts created in a behaviour
          CidModulus,    \* CIDs are next_ctx_id modulo this, 2^16 in the code
          ClockModulus,  \* the microsecond clock wraps here, 2^32 in the code
          Sleeps,        \* arguments of yield
          WaitCids,      \* arguments of wait
          WaitSleep,     \* how long a waiting context sleeps, 50000 in the code
          MaxLag,        \* bound on the time a queued context goes unattended
          Removes,       \* may ctx_done_callback remove the context?  The one of
                         \* repl-cps always does: {TRUE}; without one: {FALSE}
          NumSubmitted   \* programs a client thread hands in later

ASSUME SchedulerAssumption ==
  /\ NumCtx \in Nat \ {0} /\ NumStarted \in 1 .. NumCtx
  /\ MaxCreated \in Nat /\ NumSubmitted \in Nat
  /\ CidModulus \in Nat \ {0} /\ ClockModulus \in Nat \ {0} /\ MaxLag \in Nat
  /\ Sleeps \subseteq Nat /\ WaitCids \subseteq Nat /\ WaitSleep \in Nat
  /\ Removes \subseteq BOOLEAN /\ Removes # {}

NULL == 0
Ptr == 1 .. NumCtx
NotWaiting == -1

VARIABLES
  \* struct eval_context_s, one function per field
  id, timestamp, sleep_us, prev, next,
  wait_for,                 \* the CID under WAIT on top of K, or NotWaiting
  alive,                    \* allocated contexts
  ctx_queue, ctx_queue_last, ctx_done, ctx_running, next_ctx_id,
  perform_gc, last_iteration_gc,
  pc, curr, t_now,          \* the evaluator thread: its place, loop variables
  now,                      \* what timestamp_us_callback returns
  cpc, cnew, submitted,     \* the client thread: its place, its new context
  elapsed,                  \* auxiliary: time spent in the queue since enqueue_ctx
  failures,                 \* auxiliary: ctx_running's successive failed allocations
  qs, ds,                   \* auxiliary: the run queue and the done list
  raced                     \* auxiliary: a step overlapped with the client's enqueue_ctx

lists == <<prev, next, ctx_queue, ctx_queue_last, ctx_done, qs, ds, raced>>
fields == <<id, timestamp, sleep_us, wait_for, alive, elapsed>>
client == <<cpc, cnew, submitted>>
gcFlags == <<perform_gc, last_iteration_gc, failures>>
vars == <<lists, fields, client, gcFlags, ctx_running, next_ctx_id, pc, curr, t_now, now>>

Elems(s) == {s[k] : k \in 1 .. Len(s)}
Without(s, p) ==
  IF p \in Elems(s)
    THEN LET k == CHOOSE j \in 1 .. Len(s) : s[j] = p IN
         [j \in 1 .. Len(s) - 1 |-> IF j < k THEN s[j] ELSE s[j + 1]]
    ELSE s

Init ==
  /\ id = [p \in Ptr |-> p % CidModulus]
  /\ timestamp = [p \in Ptr |-> 0] /\ sleep_us = [p \in Ptr |-> 0]
  /\ prev = [p \in Ptr |-> IF p <= NumStarted THEN p - 1 ELSE NULL]
  /\ next = [p \in Ptr |-> IF p < NumStarted THEN p + 1 ELSE NULL]
  /\ wait_for = [p \in Ptr |-> NotWaiting]
  /\ alive = 1 .. NumStarted
  /\ ctx_queue = 1 /\ ctx_queue_last = NumStarted /\ ctx_done = NULL /\ ctx_running = NULL
  /\ next_ctx_id = NumStarted + 1
  /\ perform_gc = FALSE /\ last_iteration_gc = FALSE
  /\ pc = "loop" /\ curr = NULL /\ t_now = 0 /\ now = 0
  /\ cpc = "ready" /\ cnew = NULL /\ submitted = 0
  /\ elapsed = [p \in Ptr |-> 0] /\ failures = 0
  /\ qs = [k \in 1 .. NumStarted |-> k] /\ ds = <<>> /\ raced = FALSE

(***************************************************************************)
(* The lists                                                               *)
(***************************************************************************)
\* The evaluator changes the run queue: is a client in the middle of enqueue_ctx?
Overlap == raced' = (raced \/ cpc \in {"first", "append", "last"})

enqueue_ctx(p) ==
  /\ prev' = [prev EXCEPT ![p] = ctx_queue_last]
  /\ IF ctx_queue_last = NULL
       THEN ctx_queue' = p /\ next' = [next EXCEPT ![p] = NULL]
       ELSE next' = [next EXCEPT ![p] = NULL, ![ctx_queue_last] = p] /\ UNCHANGED ctx_queue
  /\ ctx_queue_last' = p
  /\ qs' = Append(qs, p) /\ Overlap
  /\ UNCHANGED <<ctx_done, ds>>

\* Fault: removal from the middle leaves the successor pointing at p.
Unlink_OneWay(p) ==
  /\ ctx_queue' = IF prev[p] = NULL THEN next[p] ELSE ctx_queue
  /\ ctx_queue_last' = IF next[p] = NULL THEN prev[p] ELSE ctx_queue_last
  /\ next' = IF prev[p] = NULL THEN next ELSE [next EXCEPT ![prev[p]] = next[p]]
  /\ qs' = Without(qs, p) /\ Overlap
  /\ UNCHANGED <<prev, ctx_done, ds>>

\* dequeue_ctx takes p out of the queue; p keeps its own links.
Unlink(p) ==
  /\ IF p = ctx_queue_last
       THEN IF prev[p] # NULL
              THEN /\ ctx_queue_last' = prev[p]
                   /\ next' = [next EXCEPT ![prev[p]] = NULL]
                   /\ UNCHANGED <<ctx_queue, prev>>
              ELSE ctx_queue' = NULL /\ ctx_queue_last' = NULL /\ UNCHANGED <<next, prev>>
       ELSE IF prev[p] = NULL
         THEN /\ ctx_queue' = next[p]
              /\ prev' = IF next[p] # NULL THEN [prev EXCEPT ![next[p]] = NULL] ELSE prev
              /\ UNCHANGED <<ctx_queue_last, next>>
         ELSE /\ next' = [next EXCEPT ![prev[p]] = next[p]]
              /\ prev' = IF next[p] # NULL THEN [prev EXCEPT ![next[p]] = prev[p]] ELSE prev
              /\ UNCHANGED <<ctx_queue, ctx_queue_last>>
  /\ qs' = Without(qs, p) /\ Overlap
  /\ UNCHANGED <<ctx_done, ds>>

\* finish_ctx pushes p on the done list.  A callback that removes it at once
\* (done_callback of repl-cps/repl.c) leaves the list as it was.
finish_ctx(p) ==
  /\ ctx_running' = NULL
  /\ next' = [next EXCEPT ![p] = ctx_done]
  /\ \/ /\ TRUE \in Removes
        /\ alive' = alive \ {p}
        /\ prev' = [prev EXCEPT ![p] = NULL]
        /\ UNCHANGED <<ctx_done, ds>>
     \/ /\ FALSE \in Removes
        /\ ctx_done' = p
        /\ prev' = IF ctx_done = NULL THEN [prev EXCEPT ![p] = NULL]
                   ELSE [prev EXCEPT ![p] = NULL, ![ctx_done] = p]
        /\ ds' = <<p>> \o ds
        /\ UNCHANGED alive
  /\ UNCHANGED <<ctx_queue, ctx_queue_last, qs, raced>>

\* eval_cps_remove_done_ctx has found p: out of the done list, and freed.
RemoveDone(p) ==
  /\ IF p = ctx_done
       THEN /\ ctx_done' = next[p]
            /\ prev' = IF next[p] # NULL THEN [prev EXCEPT ![next[p]] = NULL] ELSE prev
            /\ UNCHANGED next
       ELSE /\ next' = IF prev[p] # NULL THEN [next EXCEPT ![prev[p]] = next[p]] ELSE next
            /\ prev' = IF next[p] # NULL THEN [prev EXCEPT ![next[p]] = prev[p]] ELSE prev
            /\ UNCHANGED ctx_done
  /\ alive' = alive \ {p}
  /\ ds' = Without(ds, p)
  /\ UNCHANGED <<ctx_queue, ctx_queue_last, qs, raced>>

(***************************************************************************)
(* dequeue_ctx, one context of the queue per step                          *)
(***************************************************************************)
\* Fault: the search starts at the youngest context.
DequeueBegin_AtLast ==
  /\ pc = "loop" /\ ctx_running = NULL
  /\ pc' = "dequeue" /\ curr' = ctx_queue_last /\ t_now' = now
  /\ UNCHANGED <<lists, fields, client, gcFlags, ctx_running, next_ctx_id, now>>

DequeueBegin ==
  /\ pc = "loop" /\ ctx_running = NULL
  /\ pc' = "dequeue" /\ curr' = ctx_queue /\ t_now' = now
  /\ UNCHANGED <<lists, fields, client, gcFlags, ctx_running, next_ctx_id, now>>

\* Fault: the difference is taken the wrong way round after a wrap.
t_diff_Backwards(p) ==
  IF timestamp[p] > t_now THEN timestamp[p] - t_now ELSE t_now - timestamp[p]

\* How long p has slept, by a clock that may have wrapped once.
t_diff(p) ==
  IF timestamp[p] > t_now
    THEN (ClockModulus - 1 - timestamp[p]) + t_now
    ELSE t_now - timestamp[p]

dequeue_ctx ==
  /\ pc = "dequeue" /\ curr # NULL
  /\ IF t_diff(curr) >= sleep_us[curr]
       THEN /\ Unlink(curr)
            /\ ctx_running' = curr /\ failures' = 0
            /\ elapsed' = [elapsed EXCEPT ![curr] = 0]
            /\ pc' = "loop" /\ curr' = NULL /\ t_now' = 0
       ELSE /\ curr' = next[curr]
            /\ UNCHANGED <<lists, ctx_running, failures, elapsed, pc, t_now>>
  /\ UNCHANGED <<id, timestamp, sleep_us, wait_for, alive, client, perform_gc,
                 last_iteration_gc, next_ctx_id, now>>

\* Nobody is due: the evaluator sleeps a little and looks again.
DequeueNone ==
  /\ pc = "dequeue" /\ curr = NULL
  /\ pc' = "loop" /\ t_now' = 0
  /\ UNCHANGED <<lists, fields, client, gcFlags, ctx_running, next_ctx_id, curr, now>>

(***************************************************************************)
(* evaluation_step                                                         *)
(***************************************************************************)
\* The prologue when it does not end the context: a collection if asked for.
Step(collectNext) ==
  /\ pc = "loop" /\ ctx_running # NULL
  /\ ~ (perform_gc /\ last_iteration_gc)
  /\ last_iteration_gc' = perform_gc
  /\ perform_gc' = collectNext

\* A step of the program; WAIT, when on top of K, comes before any other.
ProgramStep(collectNext) == Step(collectNext) /\ wait_for[ctx_running] = NotWaiting

\* The context is still short of memory after a collection: it is finished.
OutOfMemory ==
  /\ pc = "loop" /\ ctx_running # NULL
  /\ perform_gc /\ last_iteration_gc
  /\ finish_ctx(ctx_running)
  /\ UNCHANGED <<client, gcFlags, id, timestamp, sleep_us, wait_for, elapsed, next_ctx_id,
                 pc, curr, t_now, now>>

\* A step that does not concern the scheduler, its allocations served ...
Evaluate ==
  /\ ProgramStep(FALSE)
  /\ failures' = 0
  /\ UNCHANGED <<lists, fields, client, ctx_running, next_ctx_id, pc, curr, t_now, now>>

\* ... or not: it will be tried again after a collection.
AllocationFails ==
  /\ ProgramStep(TRUE)
  /\ failures' = failures + 1
  /\ UNCHANGED <<lists, fields, client, ctx_running, next_ctx_id, pc, curr, t_now, now>>

\* advance_ctx at the end of the program, or error_ctx.
Finish ==
  /\ ProgramStep(FALSE)
  /\ finish_ctx(ctx_running)
  /\ UNCHANGED <<client, failures, id, timestamp, sleep_us, wait_for, elapsed, next_ctx_id,
                 pc, curr, t_now, now>>

\* Fault: the time to wake up is stored, beyond the width of the clock.
yield_ctx_Deadline(us) ==
  /\ timestamp' = [timestamp EXCEPT ![ctx_running] = now + us]
  /\ sleep_us' = [sleep_us EXCEPT ![ctx_running] = us]
  /\ elapsed' = [elapsed EXCEPT ![ctx_running] = 0]
  /\ enqueue_ctx(ctx_running)
  /\ ctx_running' = NULL

yield_ctx(us) ==
  /\ timestamp' = [timestamp EXCEPT ![ctx_running] = now]
  /\ sleep_us' = [sleep_us EXCEPT ![ctx_running] = us]
  /\ elapsed' = [elapsed EXCEPT ![ctx_running] = 0]
  /\ enqueue_ctx(ctx_running)
  /\ ctx_running' = NULL

\* (yield us)
Yield(us) ==
  /\ ProgramStep(FALSE)
  /\ yield_ctx(us)
  /\ UNCHANGED <<client, failures, id, wait_for, alive, next_ctx_id, pc, curr, t_now, now>>

\* (wait cid): WAIT goes on K, the first look at the done list comes later.
Wait(cid) ==
  /\ ProgramStep(FALSE)
  /\ wait_for' = [wait_for EXCEPT ![ctx_running] = cid]
  /\ yield_ctx(WaitSleep)
  /\ UNCHANGED <<client, failures, id, alive, next_ctx_id, pc, curr, t_now, now>>

\* The fields create_ctx sets.
create_ctx(p) ==
  /\ p \in Ptr \ alive
  /\ next_ctx_id <= MaxCreated
  /\ id' = [id EXCEPT ![p] = next_ctx_id % CidModulus]
  /\ timestamp' = [timestamp EXCEPT ![p] = 0]
  /\ sleep_us' = [sleep_us EXCEPT ![p] = 0]
  /\ wait_for' = [wait_for EXCEPT ![p] = NotWaiting]
  /\ alive' = alive \cup {p}
  /\ elapsed' = [elapsed EXCEPT ![p] = 0]
  /\ next_ctx_id' = next_ctx_id + 1

\* SPAWN_ALL creates the context for one program of its list.
Spawn(p) ==
  /\ ProgramStep(FALSE)
  /\ create_ctx(p)
  /\ enqueue_ctx(p)
  /\ failures' = 0
  /\ UNCHANGED <<client, ctx_running, pc, curr, t_now, now>>

\* create_ctx finds no memory for the stack: the CID is used up, no context is
\* made, and SPAWN_ALL, which ignores the result, goes on.
SpawnFails ==
  /\ ProgramStep(FALSE)
  /\ next_ctx_id <= MaxCreated
  /\ next_ctx_id' = next_ctx_id + 1
  /\ failures' = 0
  /\ UNCHANGED <<lists, fields, client, ctx_running, pc, curr, t_now, now>>

\* Fault: the search leaves out the head of the done list.
SearchBegin_AfterHead ==
  /\ Step(FALSE)
  /\ wait_for[ctx_running] # NotWaiting
  /\ pc' = "search" /\ curr' = IF ctx_done = NULL THEN NULL ELSE next[ctx_done]
  /\ UNCHANGED <<lists, fields, client, failures, ctx_running, next_ctx_id, t_now, now>>

\* The WAIT continuation: eval_cps_remove_done_ctx searches the done list.
SearchBegin ==
  /\ Step(FALSE)
  /\ wait_for[ctx_running] # NotWaiting
  /\ pc' = "search" /\ curr' = ctx_done
  /\ UNCHANGED <<lists, fields, client, failures, ctx_running, next_ctx_id, t_now, now>>

eval_cps_remove_done_ctx ==
  /\ pc = "search" /\ curr # NULL
  /\ IF id[curr] = wait_for[ctx_running]
       THEN /\ RemoveDone(curr)
            /\ wait_for' = [wait_for EXCEPT ![ctx_running] = NotWaiting]
            /\ pc' = "loop" /\ curr' = NULL
       ELSE curr' = next[curr] /\ UNCHANGED <<lists, wait_for, alive, pc>>
  /\ UNCHANGED <<client, gcFlags, id, timestamp, sleep_us, elapsed, ctx_running, next_ctx_id,
                 t_now, now>>

SearchFails ==
  /\ pc = "search" /\ curr = NULL
  /\ yield_ctx(WaitSleep)
  /\ pc' = "loop"
  /\ UNCHANGED <<client, gcFlags, id, wait_for, alive, next_ctx_id, curr, t_now, now>>

(***************************************************************************)
(* A client thread in eval_cps_program: create_ctx and the accesses of     *)
(* enqueue_ctx to shared variables, one at a time                          *)
(***************************************************************************)
eval_cps_program(p) ==
  /\ cpc = "ready" /\ submitted < NumSubmitted
  /\ create_ctx(p)
  /\ cpc' = "test" /\ cnew' = p /\ submitted' = submitted + 1
  /\ UNCHANGED <<lists, gcFlags, ctx_running, pc, curr, t_now, now>>

SubmitTest ==
  /\ cpc = "test"
  /\ prev' = [prev EXCEPT ![cnew] = ctx_queue_last]
  /\ next' = [next EXCEPT ![cnew] = NULL]
  /\ cpc' = IF ctx_queue_last = NULL THEN "first" ELSE "append"
  /\ UNCHANGED <<ctx_queue, ctx_queue_last, ctx_done, qs, ds, raced, fields, cnew, submitted,
                 gcFlags, ctx_running, next_ctx_id, pc, curr, t_now, now>>

\* When the evaluator has emptied the queue since the test, "append" goes
\* through a null pointer; the model stops the client there.
SubmitLink ==
  /\ \/ cpc = "first" /\ ctx_queue' = cnew /\ UNCHANGED next
     \/ /\ cpc = "append" /\ ctx_queue_last # NULL
        /\ next' = [next EXCEPT ![ctx_queue_last] = cnew]
        /\ UNCHANGED ctx_queue
  /\ cpc' = "last"
  /\ UNCHANGED <<prev, ctx_queue_last, ctx_done, qs, ds, raced, fields, cnew, submitted, gcFlags,
                 ctx_running, next_ctx_id, pc, curr, t_now, now>>

SubmitLast ==
  /\ cpc = "last"
  /\ ctx_queue_last' = cnew /\ qs' = Append(qs, cnew)
  /\ cpc' = "ready" /\ cnew' = NULL
  /\ UNCHANGED <<prev, next, ctx_queue, ctx_done, ds, raced, fields, submitted, gcFlags,
                 ctx_running, next_ctx_id, pc, curr, t_now, now>>

(***************************************************************************)
(* Time                                                                    *)
(***************************************************************************)
Tick ==
  /\ \A p \in Elems(qs) : elapsed[p] < MaxLag
  /\ now' = (now + 1) % ClockModulus
  /\ elapsed' = [p \in Ptr |-> IF p \in Elems(qs) THEN elapsed[p] + 1 ELSE elapsed[p]]
  /\ UNCHANGED <<lists, id, timestamp, sleep_us, wait_for, alive, client, gcFlags,
                 ctx_running, next_ctx_id, pc, curr, t_now>>

Dequeue == DequeueBegin \/ dequeue_ctx \/ DequeueNone
Search == SearchBegin \/ eval_cps_remove_done_ctx \/ SearchFails

\* The steps by which a context gives up the processor.
Leave ==
  \/ OutOfMemory \/ Finish
  \/ \E us \in Sleeps : Yield(us)
  \/ \E cid \in WaitCids : Wait(cid)

Stay == Evaluate \/ AllocationFails \/ SpawnFails \/ \E p \in Ptr : Spawn(p)

Submit ==
  \/ \E p \in Ptr : eval_cps_program(p)
  \/ SubmitTest \/ SubmitLink \/ SubmitLast

Next == Dequeue \/ Search \/ Leave \/ Stay \/ Submit \/ Tick

Spec == Init /\ [][Next]_vars

\* The evaluator thread keeps running, time goes on, and the programs are
\* cooperative: whoever runs eventually gives up the processor.
FairSpec ==
  /\ Spec
  /\ WF_vars(Dequeue) /\ WF_vars(Search) /\ WF_vars(Leave) /\ WF_vars(Tick)

\* State constraint: after an overlap the lists may be tied in knots, and the
\* runs go no further (except to show what is lost then).
NoOverlap == ~ raced

(***************************************************************************)
(* Properties                                                              *)
(***************************************************************************)
TypeOK ==
  /\ id \in [Ptr -> 0 .. CidModulus - 1] /\ wait_for \in [Ptr -> Nat \cup {NotWaiting}]
  /\ timestamp \in [Ptr -> 0 .. ClockModulus - 1]
  /\ sleep_us \in [Ptr -> Sleeps \cup {0, WaitSleep}] /\ elapsed \in [Ptr -> 0 .. MaxLag]
  /\ prev \in [Ptr -> Ptr \cup {NULL}] /\ next \in [Ptr -> Ptr \cup {NULL}]
  /\ alive \subseteq Ptr
  /\ {ctx_queue, ctx_queue_last, ctx_done, ctx_running, curr, cnew} \subseteq Ptr \cup {NULL}
  /\ next_ctx_id \in Nat \ {0} /\ failures \in 0 .. 2 /\ submitted \in 0 .. NumSubmitted
  /\ perform_gc \in BOOLEAN /\ last_iteration_gc \in BOOLEAN
  /\ pc \in {"loop", "dequeue", "search"}
  /\ cpc \in {"ready", "test", "first", "append", "last"}
  /\ t_now \in 0 .. ClockModulus - 1 /\ now \in 0 .. ClockModulus - 1
  /\ qs \in Seq(Ptr) /\ ds \in Seq(Ptr) /\ raced \in BOOLEAN

\* s is the list that starts at h, linked both ways.
ListProper(h, s) ==
  /\ \A j, k \in 1 .. Len(s) : j # k => s[j] # s[k]
  /\ h = IF s = <<>> THEN NULL ELSE s[1]
  /\ \A k \in 1 .. Len(s) : next[s[k]] = IF k = Len(s) THEN NULL ELSE s[k + 1]
  /\ \A k \in 1 .. Len(s) : prev[s[k]] = IF k = 1 THEN NULL ELSE s[k - 1]

\* As long as the evaluator has not changed the run queue in the middle of a
\* client's enqueue_ctx, the run queue and the done list are proper doubly linked
\* lists, whatever contexts were taken from the middle of either, and every
\* allocated context is in exactly one of: the queue, the done list, ctx_running.
\* So nothing freed is linked, and gc, which walks both lists, sees the roots of
\* every context; mutual exclusion around the queue would be enough.
ContextsAccounted ==
  ~ raced /\ cpc = "ready" =>
    /\ ListProper(ctx_queue, qs)
    /\ ctx_queue_last = IF qs = <<>> THEN NULL ELSE qs[Len(qs)]
    /\ ListProper(ctx_done, ds)
    /\ alive = Elems(qs) \cup Elems(ds) \cup ({ctx_running} \ {NULL})
    /\ Elems(qs) \cap Elems(ds) = {}
    /\ ctx_running \notin Elems(qs) \cup Elems(ds)

\* No context runs before it has slept as long as it asked for, although
\* timestamps are compared on a clock that wraps (again unless a client's
\* enqueue_ctx was overlapped: a context may then be linked twice).
NeverEarly ==
  [][\A p \in Ptr : ~ raced' /\ ctx_running # p /\ ctx_running' = p
       => elapsed[p] >= sleep_us[p]]_vars

\* A context that has slept long enough is eventually run, although others keep
\* yielding and being created: the queue is scanned from its head.
ReadyRuns ==
  \A p \in Ptr : (p \in Elems(qs) /\ elapsed[p] > sleep_us[p]) ~> (ctx_running = p)

Waited(p) == \E q \in alive \ Elems(ds) : wait_for[q] = id[p]

\* A result somebody waits for does not stay in the done list for ever.
ResultDelivered == \A p \in Ptr : (p \in Elems(ds) /\ Waited(p)) ~> (p \notin Elems(ds) \/ ~ Waited(p))

\* The contexts met by following next from p.
Followed(p) ==
  LET f[n \in 0 .. NumCtx] ==
        IF n = 0 THEN p ELSE IF f[n - 1] = NULL THEN NULL ELSE next[f[n - 1]]
  IN {f[n] : n \in 0 .. NumCtx}

\* Every program that eval_cps_program has accepted is in the run queue, runs or
\* is finished: tests/test_lisp_code_cps.c waits for each one it hands in.
NothingLost ==
  cpc = "ready" =>
    \A p \in alive : p \in Followed(ctx_queue) \cup Followed(ctx_done) \cup {ctx_running}

\* A context is finished for want of memory only when its own expression has
\* failed, a collection was made, and the same expression, resumed, has failed
\* again.
OutOfMemoryIsOwn ==
  ctx_running # NULL /\ perform_gc /\ last_iteration_gc => failures >= 2
=============================================================================
