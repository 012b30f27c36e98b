----------------------------- MODULE Evaluators -----------------------------
(***************************************************************************)
(* The library with both evaluators: a program is handed to one of them,   *)
(* as the tests do, and the other one never starts.                        *)
(***************************************************************************)
EXTENDS EvalCps, EcEval

cps_only == <<ctx, running, ctx_queue, ctx_done, next_ctx_id, perform_gc, last_iteration_gc, unborn,
              misread>>
ec_only == <<rm, es, done, adrift>>
all_vars == <<vars, ec_only>>

BothInit == Init /\ EcInit

BothNext ==
  \/ Next /\ UNCHANGED ec_only
  \/ EcNext /\ UNCHANGED cps_only

BothSpec == BothInit /\ [][BothNext]_all_vars

\* An evaluator keeps taking steps while there is something to evaluate.  (There
\* is no deadlock, so this is WF_all_vars(BothNext); TLC evaluates it much faster.)
\* And whoever sleeps is run some day: ReadyRuns of Scheduler.
FairSpec ==
  /\ BothSpec
  /\ []<>(Idle /\ done) \/ []<><<TRUE>>_all_vars
  /\ \A cid \in 1 .. 3 : []<>(~ Queued(cid))
=============================================================================
