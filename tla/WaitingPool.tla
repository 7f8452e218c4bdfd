---------------------------- MODULE WaitingPool ----------------------------
(***************************************************************************)
(* What the evaluation loop expects of a waiting strategy, whatever its    *)
(* lists: contexts are pushed, a pop moves some of them to the ready list, *)
(* and a pop of a pool that is not empty returns.                          *)
(***************************************************************************)
VARIABLES
  pool,   \* the contexts that wait
  ready   \* the contexts popped and not evaluated yet

vars == <<pool, ready>>

Init == ready = {} /\ pool # {}

\* Evaluation of a ready context: its children, if any, are pushed.
Evaluate ==
  \E c \in ready :
    /\ ready' = ready \ {c}
    /\ pool \subseteq pool'
    /\ pool' \cap ready = {}

\* popTo: called when nothing is ready
Pop ==
  /\ ready = {}
  /\ \E S \in (SUBSET pool) \ {{}} : ready' = S /\ pool' = pool \ S

Next == Evaluate \/ Pop

\* A pop returns: popTo is a call the single thread waits for.
Spec == Init /\ [][Next]_vars /\ WF_vars(Pop)

=============================================================================
