---------------------------- MODULE SymbexLoop ----------------------------
(***************************************************************************)
(* The evaluation loop of one SymbexEngine: SymbexDispatcher::start, the   *)
(* two halves of SymbexController (analyseReady, analyseResult), the       *)
(* SymbexProcessor that evaluates contexts, the requests the processor     *)
(* units post and the controller fires, the filters of MainProcessorUnit,  *)
(* and the calls the loop makes to the other units.                        *)
(*                                                                         *)
(* The engine is one thread.  pc names the place in the code; a list a     *)
(* filter walks is walked one context per step, cur being the iterator.    *)
(*                                                                         *)
(* What is left to choice: what an evaluation produces (the statuses of    *)
(* the child contexts), which waiting context the strategy pops, whether a *)
(* context is redundant, what the units decide about a context.            *)
(***************************************************************************)
EXTENDS ExecutionQueues

CONSTANTS
  Units,       \* the processor units registered with the controller
  PreUnits,    \* mPrefilterControllerUnits, in order of precedence
  PostUnits,   \* mPostfilterControllerUnits, in order of precedence
  Filters,     \* units that use AbstractProcessorUnit::prefilter/postfilter
  Coverages,   \* TransitionCoverageFilter, AvmCoverageProcessor
  Selectors,   \* Projection, CoverageTestPurpose
  JumpUnits,   \* AvmHitOrJumpProcessor, if there is one
  JumpCount,   \* the greater of mHitCount and mJumpCount
  TrialsLimit, \* mJumpTrialsLimit
  Outcomes,    \* what an evaluation may produce: sequences of Status
  Leaves,      \* 0: a fresh root; k: k leaves of an earlier engine's graph
  LocalScope,  \* hit-or-jump searches from one initial context at a time
  PopsAll,     \* the ALL strategy: popTo empties the pool into ready
  Redundancy,  \* RedundancyFilter is enabled
  StopScript,  \* mInconditionalStopMarkerLocation is configured
  CheckPeriod, \* mInconditionalStopMarkerCheckingPeriod
  EvalLimit, StepLimit, NodeLimit, HeightLimit, WidthLimit

\* the unit that posts the stop of the user's stop script
Main == "main"
Posters == Units \cup {Main}

Requests == {"STOP", "REQUEUE_WAITING", "GOAL_ACHIEVED", "CONTINUE"}

\* The ending status (AEES) of an evaluation, by what the loop does with it:
\* OK: OK, STEP_MARK    JOIN: WAITING_JOIN_FORK    NOTHING: STMT_NOTHING with a trace
\* EXIT: RETURN, EXIT   EXIT_ALL: EXIT_ALL         ERROR: FATAL_ERROR, LIMITATION
Status == {"OK", "JOIN", "NOTHING", "EXIT", "EXIT_ALL", "ERROR"}

ASSUME UnitsAssumption ==
  /\ Main \notin Units
  /\ PreUnits \in Seq(Units) /\ PostUnits \in Seq(Units) /\ JumpUnits \in Seq(Units)
  /\ Len(JumpUnits) <= 1
  /\ Filters \subseteq Units /\ Coverages \subseteq Units /\ Selectors \subseteq Units

ASSUME LimitsAssumption ==
  /\ EvalLimit \in Nat /\ StepLimit \in Nat /\ NodeLimit \in Nat
  /\ HeightLimit \in Nat /\ WidthLimit \in Nat
  /\ CheckPeriod \in Nat \ {0} /\ Leaves \in Nat
  /\ JumpCount \in Nat /\ TrialsLimit \in Nat

ASSUME OutcomesAssumption == Outcomes \subseteq Seq(Status)

\* the scope is a parameter of the hit-or-jump unit
ASSUME ModesAssumption ==
  /\ {LocalScope, PopsAll, Redundancy, StopScript} \subseteq BOOLEAN
  /\ LocalScope => JumpUnits # <<>>

VARIABLES
  pc,         \* where the engine's thread is
  q,          \* the lists of contexts
  ec,         \* the contexts created so far: ec[id]; Len(ec) is ID_NUMBER
  requested,  \* mRequestStatus
  listeners,  \* mRequest*Listener, one list per request
  firing,     \* mFireRequestListener, shared by all requests
  static, dynamic,  \* lifecycle of the SymbexController
  stopMarker, \* mInconditionalStopMarkerFlag
  stepCount, evalNumber, graphWidth,  \* counters of the SymbexDispatcher
  cur,        \* ecQueueIt: the place in the list being filtered
  unit,       \* processorIt: the place in the list of units
  kids,       \* the children finalizePostfiltering has still to look at
  trials      \* mJumpTrialsCount

queueVars   == <<q, ec>>
requestVars == <<requested, listeners, firing>>
lifeVars    == <<static, dynamic, stopMarker>>
countVars   == <<stepCount, evalNumber, graphWidth>>
walkVars    == <<cur, unit, kids>>
vars == <<pc, queueVars, requestVars, lifeVars, countVars, walkVars, trials>>

Labels ==
  { "analyseReady", "requests", "mainPrefilter", "redundancyPrefilter",
    "unitPrefilter", "afterPrefilter", "goalReady", "refill", "continue",
    "handOver", "evaluate", "analyseResult", "unitPostfilter",
    "finalizeResult", "finalizeAnte", "push", "afterResult", "goalResult",
    "test", "done", "crashed" }

-----------------------------------------------------------------------------
(* Execution contexts (fml/runtime/ExecutionContext.h). *)

EC(p, h, w, s) ==
  [parent |-> p, height |-> h, width |-> w, eval |-> 0, aees |-> s, kids |-> <<>>]

Context == [parent : Nat, height : Nat, width : Nat, eval : Nat,
            aees : Status, kids : Seq(Nat)]

Known == DOMAIN ec
IsFirstChild(c) == ec[c].parent # 0 /\ ec[ec[c].parent].kids[1] = c

\* Mutant of NewWidth: the width is read before it is incremented.
NewWidth_PostIncrement(c) == IF IsFirstChild(c) THEN ec[ec[c].parent].width ELSE graphWidth

\* setContextWidth: the first child has its parent's width, another a new one
NewWidth(c) == IF IsFirstChild(c) THEN ec[ec[c].parent].width ELSE graphWidth + 1
SetsWidth(c) == ec[c].parent # 0 /\ ec[ec[c].parent].kids # <<>>
TakesNewWidth(c) == SetsWidth(c) /\ ~ IsFirstChild(c)

\* the initial graph: a fresh root, or leaves an earlier engine left
Inputs == IF Leaves = 0 THEN <<1>> ELSE [i \in 1 .. Leaves |-> i + 1]

InitialGraph ==
  IF Leaves = 0
  THEN << EC(0, 0, 1, "OK") >>
  ELSE [ c \in 1 .. Leaves + 1 |->
           IF c = 1
           THEN [EC(0, 0, 1, "OK") EXCEPT !.eval = 1, !.kids = Inputs]
           ELSE EC(1, 1, c - 1, "OK") ]

\* filteringInitialize: a local search keeps the first input and buffers the others
Searched == IF LocalScope THEN << Head(Inputs) >> ELSE Inputs
Parked == IF LocalScope THEN Tail(Inputs) ELSE <<>>

-----------------------------------------------------------------------------
(* Requests (sew/SymbexControllerRequestManager.h). *)

AddUnique(s, u) == IF Contains(s, u) THEN s ELSE Append(s, u)

\* the requests in R, posted by unit u
Post(u, R) ==
  /\ requested' = requested \cup R
  /\ listeners' = [r \in Requests |->
                     IF r \in R THEN AddUnique(listeners[r], u) ELSE listeners[r]]

\* Mutant of StartFiring: the bit of the request stays set.
StartFiring_KeepsBit(r) ==
  /\ UNCHANGED requested
  /\ firing' = listeners[r]
  /\ listeners' = [listeners EXCEPT ![r] = <<>>]

\* fireRequest*Initialize
StartFiring(r) ==
  /\ requested' = requested \ {r}
  /\ firing' = listeners[r]
  /\ listeners' = [listeners EXCEPT ![r] = <<>>]

\* a request whose listeners change no state the loop can see
FireAll(r) ==
  /\ requested' = requested \ {r}
  /\ firing' = <<>>
  /\ listeners' = [listeners EXCEPT ![r] = <<>>]

Goto(a, b) == pc = a /\ pc' = b

-----------------------------------------------------------------------------
(* preprocess and filteringInitialize have run *)

Init ==
  /\ pc = "analyseReady"
  /\ ec = InitialGraph
  /\ q = [[n \in Queues |-> <<>>] EXCEPT !["waiting"] = Searched, !["buffer"] = Parked,
                                           !["root"] = IF JumpUnits = <<>> THEN <<>> ELSE Searched]
  /\ requested = IF JumpUnits = <<>> THEN {} ELSE {"CONTINUE"}
  /\ listeners = [r \in Requests |-> IF r = "CONTINUE" THEN JumpUnits ELSE <<>>]
  /\ firing = <<>>
  /\ static = "STARTED" /\ dynamic = "IDLE" /\ stopMarker = FALSE
  /\ stepCount = 0 /\ evalNumber = 0 /\ graphWidth = 1
  /\ cur = 1 /\ unit = 1 /\ kids = <<>> /\ trials = 0

-----------------------------------------------------------------------------
(* SymbexController::analyseReady *)

\* Mutant of NoWork: SymbexJob::handleRequestWaiting is called instead.
NoWork_Waiting == dynamic' = "WAITING" /\ UNCHANGED <<static, stopMarker>>
NoWork == dynamic' = "SUSPENDED" /\ UNCHANGED <<static, stopMarker>>

\* Mutant of HasWork: a pending request alone is no work.
HasWork_QueuesOnly == q["waiting"] # <<>> \/ q["ready"] # <<>>
HasWork == requested # {} \/ q["waiting"] # <<>> \/ q["ready"] # <<>>

AnalyseReady ==
  /\ pc = "analyseReady"
  /\ IF HasWork
     THEN /\ pc' = "requests"
          /\ dynamic' = "RUNNING"
          /\ UNCHANGED <<static, stopMarker, stepCount>>
     ELSE pc' = "evaluate" /\ NoWork /\ stepCount' = stepCount + 1
  /\ UNCHANGED <<queueVars, requestVars, evalNumber, graphWidth, walkVars, trials>>

\* Mutant of FireStop: the ready contexts are kept.
FireStop_KeepsReady ==
  /\ Goto("requests", "handOver")
  /\ "STOP" \in requested
  /\ FireAll("STOP")
  /\ q' = Clear(q, {"waiting"})
  /\ static' = "STOPPED"
  /\ UNCHANGED <<ec, dynamic, stopMarker, countVars, walkVars, trials>>

FireStop ==
  /\ Goto("requests", "handOver")
  /\ "STOP" \in requested
  /\ FireAll("STOP")
  /\ q' = Clear(q, {"ready", "waiting"})
  /\ static' = "STOPPED"
  /\ UNCHANGED <<ec, dynamic, stopMarker, countVars, walkVars, trials>>

FireRequeueWaiting ==
  /\ Goto("requests", "mainPrefilter")
  /\ "STOP" \notin requested
  /\ "REQUEUE_WAITING" \in requested
  /\ FireAll("REQUEUE_WAITING")
  /\ cur' = 1
  /\ UNCHANGED <<queueVars, lifeVars, countVars, unit, kids, trials>>

NothingToFire ==
  /\ Goto("requests", "mainPrefilter")
  /\ requested \cap {"STOP", "REQUEUE_WAITING"} = {}
  /\ cur' = 1
  /\ UNCHANGED <<queueVars, requestVars, lifeVars, countVars, unit, kids, trials>>

(* The prefilters.  A filter ends when the iterator is past the end: it    *)
(* returns whether a ready context is left.                                *)

Ready == q["ready"]
Walking(l) == pc = l /\ cur <= Len(Ready)
Walked(l) == pc = l /\ cur > Len(Ready)

Keep ==
  /\ cur' = cur + 1
  /\ UNCHANGED <<pc, queueVars, unit, kids>>

\* the context at the iterator goes to the end of list b
Take(b) ==
  /\ q' = Move(q, "ready", cur, b)
  /\ UNCHANGED <<pc, ec, walkVars>>

EndPrefilter(l, next) ==
  /\ Walked(l)
  /\ pc' = IF Ready # <<>> THEN next ELSE "afterPrefilter"
  /\ cur' = 1 /\ unit' = 1
  /\ UNCHANGED <<queueVars, requestVars, lifeVars, countVars, kids, trials>>

\* Mutants of WithinLimits: the evaluation limit is included; the width is not tested.
WithinLimits_EvalIncluded(c) ==
  /\ EvalLimit >= evalNumber /\ StepLimit > stepCount /\ NodeLimit >= Len(ec)
  /\ HeightLimit >= ec[c].height /\ WidthLimit >= ec[c].width
WithinLimits_NoWidth(c) ==
  /\ EvalLimit > evalNumber /\ StepLimit > stepCount /\ NodeLimit >= Len(ec)
  /\ HeightLimit >= ec[c].height
WithinLimits(c) ==
  /\ EvalLimit > evalNumber /\ StepLimit > stepCount /\ NodeLimit >= Len(ec)
  /\ HeightLimit >= ec[c].height /\ WidthLimit >= ec[c].width

\* Mutant of MainPrefilter: the stop marker is not looked at.
MainPrefilter_IgnoresMarker ==
  /\ Walking("mainPrefilter")
  /\ IF WithinLimits(Ready[cur]) THEN Keep ELSE Take("failed")
  /\ UNCHANGED <<requestVars, lifeVars, countVars, trials>>

\* prefilter(anEC) when checkReadEvalStopScript finds nothing
MainPrefilter ==
  /\ Walking("mainPrefilter")
  /\ IF ~stopMarker /\ WithinLimits(Ready[cur]) THEN Keep ELSE Take("failed")
  /\ UNCHANGED <<requestVars, lifeVars, countVars, trials>>

\* checkReadEvalStopScript finds the user's stop file
ReadStopScript ==
  /\ Walking("mainPrefilter")
  /\ StopScript /\ ~stopMarker /\ evalNumber % CheckPeriod = 0
  /\ stopMarker' = TRUE
  /\ Post(Main, {"STOP"})
  /\ Take("failed")
  /\ UNCHANGED <<firing, static, dynamic, countVars, trials>>

EndMainPrefilter == EndPrefilter("mainPrefilter", "redundancyPrefilter")

RedundancyPrefilter ==
  /\ Walking("redundancyPrefilter")
  /\ \/ Keep
     \/ Redundancy /\ Take("failed")
  /\ UNCHANGED <<requestVars, lifeVars, countVars, trials>>

EndRedundancyPrefilter == EndPrefilter("redundancyPrefilter", "unitPrefilter")

Prefiltering(K) == unit <= Len(PreUnits) /\ PreUnits[unit] \in K

FilterPrefilter ==
  /\ Walking("unitPrefilter") /\ Prefiltering(Filters)
  /\ Keep \/ Take("failed")
  /\ UNCHANGED <<requestVars, lifeVars, countVars, trials>>

\* goalWillNeverAchieved: erased; height >= mJumpHeight: to mRelativeLeafEC
JumpPrefilter ==
  /\ Walking("unitPrefilter") /\ Prefiltering(Range(JumpUnits))
  /\ \/ Keep
     \/ Take("leaf")
     \/ q' = Drop(q, "ready", cur) /\ UNCHANGED <<pc, ec, walkVars>>
  /\ UNCHANGED <<requestVars, lifeVars, countVars, trials>>

\* the other prefilters of units walk no list
PassPrefilter ==
  /\ Walking("unitPrefilter") /\ Prefiltering(Units \ (Filters \cup Range(JumpUnits)))
  /\ Keep
  /\ UNCHANGED <<requestVars, lifeVars, countVars, trials>>

\* the coverage goal is achieved: post STOP and return false
CoveragePrefilterStop ==
  /\ Goto("unitPrefilter", "afterPrefilter")
  /\ cur = 1 /\ Prefiltering(Coverages)
  /\ Post(PreUnits[unit], {"STOP"})
  /\ UNCHANGED <<queueVars, firing, lifeVars, countVars, walkVars, trials>>

NextPrefilter ==
  /\ Walked("unitPrefilter") /\ unit <= Len(PreUnits)
  /\ IF Ready # <<>>
     THEN unit' = unit + 1 /\ pc' = pc
     ELSE unit' = unit /\ pc' = "afterPrefilter"
  /\ cur' = 1
  /\ UNCHANGED <<queueVars, requestVars, lifeVars, countVars, kids, trials>>

EndPrefiltering ==
  /\ pc = "unitPrefilter" /\ unit > Len(PreUnits)
  /\ pc' = IF Ready # <<>> THEN "handOver" ELSE "afterPrefilter"
  /\ UNCHANGED <<queueVars, requestVars, lifeVars, countVars, walkVars, trials>>

FireGoalReady ==
  /\ Goto("afterPrefilter", "goalReady")
  /\ "GOAL_ACHIEVED" \in requested
  /\ StartFiring("GOAL_ACHIEVED")
  /\ UNCHANGED <<queueVars, lifeVars, countVars, walkVars, trials>>

NoGoalReady ==
  /\ Goto("afterPrefilter", "refill")
  /\ "GOAL_ACHIEVED" \notin requested
  /\ UNCHANGED <<queueVars, requestVars, lifeVars, countVars, walkVars, trials>>

\* SymbexJob::handleRequestGoalAchieved, once every listener has been called
EndGoalReady ==
  /\ Goto("goalReady", "refill")
  /\ firing = <<>>
  /\ dynamic' = "IDLE"
  /\ UNCHANGED <<queueVars, requestVars, static, stopMarker, countVars, walkVars, trials>>

\* Mutant of PopWaiting: the strategy finds no context to give.
PopWaiting_Nothing ==
  /\ Goto("refill", "requests")
  /\ q["waiting"] # <<>>
  /\ UNCHANGED <<queueVars, requestVars, lifeVars, countVars, walkVars, trials>>

\* popWaiting2Ready
PopWaiting ==
  /\ Goto("refill", "requests")
  /\ q["waiting"] # <<>>
  /\ \/ PopsAll /\ q' = Splice(q, "waiting", "ready")
     \/ ~PopsAll /\ \E i \in DOMAIN q["waiting"] : q' = Move(q, "waiting", i, "ready")
  /\ UNCHANGED <<ec, requestVars, lifeVars, countVars, walkVars, trials>>

FireContinue ==
  /\ Goto("refill", "continue")
  /\ q["waiting"] = <<>> /\ "CONTINUE" \in requested
  /\ StartFiring("CONTINUE")
  /\ UNCHANGED <<queueVars, lifeVars, countVars, walkVars, trials>>

EndContinue ==
  /\ Goto("continue", "requests")
  /\ firing = <<>>
  /\ UNCHANGED <<queueVars, requestVars, lifeVars, countVars, walkVars, trials>>

NothingToRefill ==
  /\ Goto("refill", "handOver")
  /\ q["waiting"] = <<>> /\ "CONTINUE" \notin requested
  /\ UNCHANGED <<queueVars, requestVars, lifeVars, countVars, walkVars, trials>>

\* Mutant of HasReadyWork: a stop posted by a prefilter is not looked at.
HasReadyWork_IgnoresStop == Ready # <<>>
HasReadyWork == "STOP" \notin requested /\ Ready # <<>>

\* what passed every filter goes to the processor; then incrSymbexStepCount
HandOver ==
  /\ Goto("handOver", "evaluate")
  /\ IF HasReadyWork
     THEN q' = Splice(q, "ready", "working") /\ UNCHANGED lifeVars
     ELSE NoWork /\ UNCHANGED q
  /\ stepCount' = stepCount + 1
  /\ UNCHANGED <<ec, requestVars, evalNumber, graphWidth, walkVars, trials>>

-----------------------------------------------------------------------------
(* Handlers of the units, called while firing is walked. *)

Listener(l, K) == pc = l /\ firing # <<>> /\ Head(firing) \in K
Jumps == Range(JumpUnits)

\* BaseCoverageFilter::handleRequestGoalAchieved, and the default handlers
IgnoreGoal ==
  /\ \E l \in {"goalReady", "goalResult"} : Listener(l, Posters \ Jumps)
  /\ firing' = Tail(firing)
  /\ UNCHANGED <<pc, queueVars, requested, listeners, lifeVars, countVars, walkVars, trials>>

\* AvmHitOrJumpProcessor::handleRequestGoalAchieved: stop, or restart locally
\* from the next initial context
JumpGoal ==
  /\ \E l \in {"goalReady", "goalResult"} : Listener(l, Jumps)
  /\ firing' = Tail(firing)
  /\ IF q["buffer"] = <<>>
     THEN Post(Head(firing), {"STOP"}) /\ UNCHANGED <<q, trials>>
     ELSE /\ Post(Head(firing), {"CONTINUE"})
          /\ q' = [Move(Clear(q, {"ready", "waiting"}), "buffer", 1, "waiting")
                     EXCEPT !["root"] = << Head(q["buffer"]) >>]
          /\ trials' = 0
  /\ UNCHANGED <<pc, ec, lifeVars, countVars, walkVars>>

(***************************************************************************)
(* AvmHitOrJumpProcessor::handleRequestContinue.  HitOrJump models what    *)
(* hit finds and what hojSelection selects; here they are a choice among   *)
(* all that they may find and select, and three things may come of them.   *)
(***************************************************************************)

\* the contexts hit may look at: those below a root, or the root if there is one only
Above ==
  LET above[c \in Known] ==
        IF ec[c].parent = 0 THEN {} ELSE {ec[c].parent} \cup above[ec[c].parent]
  IN above
Met ==
  { c \in Known : \E r \in Held(q, "root") :
      r \in Above[c] \/ (r = c /\ Len(q["root"]) = 1) }

\* the leaves: those that are limited, and those that hit most or that reach the goal
Candidates == Met \cup Held(q, "leaf")

\* saveBacktrackable: contexts that were not continued
Savings ==
  LET childless == { c \in Met : ec[c].kids = <<>> }
  IN Draws(childless, Cardinality(childless))

\* Mutant of NextTrial: the jumps are not counted.
NextTrial_Uncounted == trials
NextTrial == trials + 1

\* The goal is achieved, or never will be, or ++mJumpTrialsCount > mJumpTrialsLimit.  Leaves
\* and saved contexts may stay for the next local search, which sets the roots and the count
\* anew; nobody looks at them after the last one.
JumpGivesUp ==
  /\ Listener("continue", Jumps)
  /\ firing' = Tail(firing)
  /\ Post(Head(firing), {"GOAL_ACHIEVED"})
  /\ IF q["buffer"] = <<>>
     THEN UNCHANGED q
     ELSE \E S \in SUBSET Candidates, saved \in Savings :
            q' = [q EXCEPT !["root"] = <<>>, !["leaf"] = SetToSeq(S),
                           !["backtrack"] = @ \o saved]
  /\ UNCHANGED <<pc, ec, lifeVars, countVars, walkVars, trials>>

\* hojBacktrack: the last context saved waits again.  It is counted where hojSelection has
\* found nothing to jump to, as when a root is saved: such a root is a leaf too.
JumpBacktracks ==
  /\ Listener("continue", Jumps)
  /\ firing' = Tail(firing)
  /\ \E saved \in Savings :
       LET b == Last(q["backtrack"] \o saved)
       IN /\ q["backtrack"] \o saved # <<>>
          /\ q' = [q EXCEPT !["waiting"] = Append(@, b), !["root"] = <<b>>, !["leaf"] = <<>>,
                            !["backtrack"] = Front(@ \o saved)]
          /\ \/ trials' = trials /\ Range(saved) \cap Held(q, "root") = {}
                /\ Post(Head(firing), {"CONTINUE"})
             \/ trials' = NextTrial /\ trials < TrialsLimit
                /\ \E G \in SUBSET {"GOAL_ACHIEVED"} : Post(Head(firing), G \cup {"CONTINUE"})
  /\ UNCHANGED <<pc, ec, lifeVars, countVars, walkVars>>

\* Leaves become the roots, and ready; also a context that reached the goal, evaluated already,
\* when the search goes on after it.  A leaf saved before leaves the list of what is saved,
\* unless something is hit; or another does, or none, when all the leaves are selected.
JumpSelects ==
  /\ Listener("continue", Jumps)
  /\ trials < TrialsLimit
  /\ firing' = Tail(firing)
  /\ \E G \in SUBSET {"GOAL_ACHIEVED"} : Post(Head(firing), G \cup {"CONTINUE"})
  /\ \E roots \in Draws(Candidates, JumpCount) \ {<<>>}, saved \in Savings :
       LET known == q["backtrack"] \o saved
       IN \E S \in {{}, Range(roots)} \cup { {b} : b \in Range(known) } :
          \E left \in Less(known, S) :
            q' = [q EXCEPT !["ready"] = @ \o roots, !["root"] = roots, !["leaf"] = <<>>,
                           !["backtrack"] = left]
  /\ trials' = NextTrial
  /\ UNCHANGED <<pc, ec, lifeVars, countVars, walkVars>>

-----------------------------------------------------------------------------
(* SymbexProcessor::initStep and runStep, one context per step *)

Child(c, s) == EC(c, ec[c].height + 1, ec[c].width, s)

\* in the first step of the engine, a context with a container is given its width
InitWidth(c) == IF stepCount = 1 /\ SetsWidth(c) THEN NewWidth(c) ELSE ec[c].width

Evaluate ==
  /\ pc = "evaluate" /\ q["working"] # <<>>
  /\ LET c == Head(q["working"])
         n == Len(ec)
     IN /\ evalNumber' = evalNumber + 1
        /\ graphWidth' = IF stepCount = 1 /\ TakesNewWidth(c) THEN graphWidth + 1 ELSE graphWidth
        /\ \E out \in Outcomes \cup {<<>>} :
             /\ ec[c].aees # "OK" => out = <<>>
             /\ ec' = [ec EXCEPT ![c].eval = evalNumber + 1,
                                 ![c].width = InitWidth(c),
                                 ![c].kids = @ \o [j \in 1 .. Len(out) |-> n + j]]
                      \o [j \in 1 .. Len(out) |-> [Child(c, out[j]) EXCEPT !.width = InitWidth(c)]]
        /\ q' = Move(q, "working", 1, "analysed")
  /\ UNCHANGED <<pc, requestVars, lifeVars, stepCount, walkVars, trials>>

EndEvaluate ==
  /\ Goto("evaluate", "analyseResult")
  /\ q["working"] = <<>>
  /\ UNCHANGED <<queueVars, requestVars, lifeVars, countVars, walkVars, trials>>

-----------------------------------------------------------------------------
(* SymbexController::analyseResult *)

AnalyseResult ==
  /\ Goto("analyseResult", "unitPostfilter")
  /\ q["analysed"] # <<>>
  /\ q' = Splice(q, "analysed", "result")
  /\ dynamic' = "RUNNING"
  /\ cur' = 1 /\ unit' = 1
  /\ UNCHANGED <<ec, requestVars, static, stopMarker, countVars, kids, trials>>

NoResult ==
  /\ Goto("analyseResult", "test")
  /\ q["analysed"] = <<>>
  /\ NoWork
  /\ UNCHANGED <<queueVars, requestVars, countVars, walkVars, trials>>

Postfiltering(K) ==
  pc = "unitPostfilter" /\ unit <= Len(PostUnits) /\ PostUnits[unit] \in K

\* AbstractProcessorUnit::postfilter on the context at the iterator
FilterPostfilter ==
  /\ Postfiltering(Filters) /\ cur <= Len(q["result"])
  /\ \/ cur' = cur + 1 /\ UNCHANGED q
     \/ q' = Move(q, "result", cur, "failed") /\ UNCHANGED cur
  /\ UNCHANGED <<pc, ec, requestVars, lifeVars, countVars, unit, kids, trials>>

\* Projection::postfilter(EC): children of a result that match the trace
SelectorPostfilter ==
  /\ Postfiltering(Selectors) /\ cur <= Len(q["result"])
  /\ \E s \in SomeOf(ec[q["result"][cur]].kids) : q' = [q EXCEPT !["ante"] = @ \o s]
  /\ cur' = cur + 1
  /\ UNCHANGED <<pc, ec, requestVars, lifeVars, countVars, unit, kids, trials>>

\* what the units post before they return: the end of the walk
MayPost(u) ==
  IF u \in Coverages THEN SUBSET {"STOP", "REQUEUE_WAITING", "GOAL_ACHIEVED"}
  ELSE IF u \in Selectors THEN SUBSET {"STOP"}
  ELSE {{}}

NextPostfilter ==
  /\ Postfiltering(Units)
  /\ PostUnits[unit] \in Filters \cup Selectors => cur > Len(q["result"])
  /\ \E R \in MayPost(PostUnits[unit]) : Post(PostUnits[unit], R)
  /\ IF q["result"] # <<>>
     THEN unit' = unit + 1 /\ pc' = pc
     ELSE unit' = unit /\ pc' = "afterResult"
  /\ cur' = 1
  /\ UNCHANGED <<queueVars, firing, lifeVars, countVars, kids, trials>>

\* finalizePostfiltering looks at the selected contexts if there are any, at the
\* children of the results otherwise
EndPostfiltering ==
  /\ pc = "unitPostfilter" /\ unit > Len(PostUnits)
  /\ pc' = IF q["result"] = <<>> THEN "afterResult"
           ELSE IF q["ante"] = <<>> THEN "finalizeResult" ELSE "finalizeAnte"
  /\ UNCHANGED <<queueVars, requestVars, lifeVars, countVars, walkVars, trials>>

PopResult ==
  /\ pc = "finalizeResult" /\ kids = <<>> /\ q["result"] # <<>>
  /\ kids' = ec[Head(q["result"])].kids
  /\ q' = Drop(q, "result", 1)
  /\ UNCHANGED <<pc, ec, requestVars, lifeVars, countVars, cur, unit, trials>>

\* Mutant of Explored: the contexts that wait for a join are not pushed.
Explored_NoJoin == {"OK"}
\* the children that wait for their own evaluation
Explored == {"OK", "JOIN"}

\* finalizePostfiltering(aChildEC), but for where the child is taken from
Finalize(c) ==
  /\ stopMarker' = (stopMarker \/ ec[c].aees = "EXIT_ALL")
  /\ graphWidth' =
       IF ec[c].aees \notin {"NOTHING", "ERROR"} /\ TakesNewWidth(c)
       THEN graphWidth + 1 ELSE graphWidth
  /\ ec' = IF ec[c].aees = "NOTHING"
           THEN [ec EXCEPT ![ec[c].parent].kids = Without(@, c)]
           ELSE IF ec[c].aees # "ERROR" /\ SetsWidth(c)
           THEN [ec EXCEPT ![c].width = NewWidth(c)]
           ELSE ec

FinalizeChild ==
  /\ pc = "finalizeResult" /\ kids # <<>>
  /\ LET c == Head(kids)
     IN /\ Finalize(c)
        /\ q' = IF ec[c].aees \in Explored THEN Add(q, "main", c) ELSE q
        \* the iterator of the loop is that of the child erased from the list
        /\ pc' \in IF ec[c].aees = "NOTHING" THEN {pc, "crashed"} ELSE {pc}
  /\ kids' = Tail(kids)
  /\ UNCHANGED <<requestVars, static, dynamic, stepCount, evalNumber, cur, unit, trials>>

FinalizeSelected ==
  /\ pc = "finalizeAnte" /\ q["ante"] # <<>>
  /\ LET c == Head(q["ante"])
     IN /\ Finalize(c)
        /\ q' = IF ec[c].aees \in Explored
                THEN Move(q, "ante", 1, "main") ELSE Drop(q, "ante", 1)
  /\ UNCHANGED <<pc, requestVars, static, dynamic, stepCount, evalNumber, walkVars, trials>>

EndFinalize ==
  /\ \/ pc = "finalizeResult" /\ kids = <<>> /\ q["result"] = <<>>
     \/ pc = "finalizeAnte" /\ q["ante"] = <<>>
  /\ pc' = "push"
  /\ UNCHANGED <<queueVars, requestVars, lifeVars, countVars, walkVars, trials>>

\* Mutant of PushWaiting: the lists are cleared before the push.
PushWaiting_ClearFirst ==
  /\ Goto("push", "afterResult")
  /\ q' = Splice(Clear(q, {"main", "result"}), "main", "waiting")
  /\ UNCHANGED <<ec, requestVars, lifeVars, countVars, walkVars, trials>>

\* Mutant of PushWaiting: the list pushed is not cleared.
PushWaiting_KeepsMain ==
  /\ Goto("push", "afterResult")
  /\ q' = Clear(Splice_Copies(q, "main", "waiting"), {"result"})
  /\ UNCHANGED <<ec, requestVars, lifeVars, countVars, walkVars, trials>>

\* smartPushWaiting(mAnteWaitingQueue), then both lists are cleared
PushWaiting ==
  /\ Goto("push", "afterResult")
  /\ q' = Clear(Splice(q, "main", "waiting"), {"result"})
  /\ UNCHANGED <<ec, requestVars, lifeVars, countVars, walkVars, trials>>

FireGoalResult ==
  /\ Goto("afterResult", "goalResult")
  /\ "GOAL_ACHIEVED" \in requested
  /\ StartFiring("GOAL_ACHIEVED")
  /\ UNCHANGED <<queueVars, lifeVars, countVars, walkVars, trials>>

NoGoalResult ==
  /\ Goto("afterResult", "test")
  /\ "GOAL_ACHIEVED" \notin requested
  /\ UNCHANGED <<queueVars, requestVars, lifeVars, countVars, walkVars, trials>>

\* Mutant of EndGoalResult: the step ends before every listener is called.
EndGoalResult_Early ==
  /\ Goto("goalResult", "test")
  /\ UNCHANGED <<queueVars, requestVars, lifeVars, countVars, walkVars, trials>>

EndGoalResult ==
  /\ Goto("goalResult", "test")
  /\ firing = <<>>
  /\ UNCHANGED <<queueVars, requestVars, lifeVars, countVars, walkVars, trials>>

\* while( mSymbexController.isLifecycleRunnable() )
IsLifecycleRunnable == dynamic \in {"IDLE", "RUNNING"} /\ static = "STARTED"

Loop ==
  /\ pc = "test"
  /\ pc' = IF IsLifecycleRunnable THEN "analyseReady" ELSE "done"
  /\ UNCHANGED <<queueVars, requestVars, lifeVars, countVars, walkVars, trials>>

Terminated == pc \in {"done", "crashed"} /\ UNCHANGED vars

-----------------------------------------------------------------------------
Prefilter ==
  \/ MainPrefilter \/ ReadStopScript \/ EndMainPrefilter
  \/ RedundancyPrefilter \/ EndRedundancyPrefilter
  \/ FilterPrefilter \/ JumpPrefilter \/ PassPrefilter \/ CoveragePrefilterStop
  \/ NextPrefilter \/ EndPrefiltering

Fire ==
  \/ FireStop \/ FireRequeueWaiting \/ NothingToFire
  \/ FireGoalReady \/ NoGoalReady \/ EndGoalReady
  \/ FireContinue \/ EndContinue
  \/ FireGoalResult \/ NoGoalResult \/ EndGoalResult

Handle ==
  \/ IgnoreGoal \/ JumpGoal
  \/ JumpGivesUp \/ JumpBacktracks \/ JumpSelects

Postfilter ==
  \/ FilterPostfilter \/ SelectorPostfilter \/ NextPostfilter \/ EndPostfiltering
  \/ PopResult \/ FinalizeChild \/ FinalizeSelected \/ EndFinalize \/ PushWaiting

Step ==
  \/ AnalyseReady \/ Prefilter \/ Fire \/ Handle \/ PopWaiting \/ NothingToRefill
  \/ HandOver \/ Evaluate \/ EndEvaluate \/ AnalyseResult \/ NoResult
  \/ Postfilter \/ Loop

Next == Step \/ Terminated

\* the engine runs until it ends: nothing blocks it
Spec == Init /\ [][Next]_vars /\ WF_vars(Step)

-----------------------------------------------------------------------------
(* Properties *)

\* listeners are called at these places only
FiringWhere == pc \notin {"goalReady", "goalResult", "continue"} => firing = <<>>

ContextsOK ==
  /\ ec \in Seq(Context)
  /\ \A c \in Known : ec[c].parent \in {0} \cup Known /\ ec[c].kids \in Seq(Known)
  /\ q \in [Queues -> Seq(Known)]
  /\ kids \in Seq(Known)

RequestsOK ==
  /\ requested \subseteq Requests
  /\ listeners \in [Requests -> Seq(Posters)]
  /\ firing \in Seq(Posters)

ControlOK ==
  /\ pc \in Labels
  /\ static \in {"STARTED", "STOPPED"}
  /\ dynamic \in {"IDLE", "RUNNING", "SUSPENDED"}
  /\ stopMarker \in BOOLEAN
  /\ stepCount \in Nat /\ evalNumber \in Nat /\ graphWidth \in Nat /\ trials \in Nat
  /\ cur \in Nat \ {0} /\ unit \in Nat \ {0}

\* Every variable holds a value of its kind, and no list, container or child list
\* holds a context that does not exist: the types of the members of the classes above.
TypeOK == ContextsOK /\ RequestsOK /\ ControlOK

\* One selecting unit at most is in the workflow: two that match the same trace would
\* select the same successors.
OneSelector ==
  \A i, j \in DOMAIN PostUnits : {PostUnits[i], PostUnits[j]} \subseteq Selectors => i = j

\* Nobody puts contexts back: no hit-or-jump unit, whose lists share contexts with ready
\* (its roots, and a leaf that hojSelection leaves to be backtracked to).
NoReturn == OneSelector /\ JumpUnits = <<>>

\* Without such a unit a context is never twice in the lists of the engine, whatever the
\* filters and the selecting unit do: nobody owns it twice.
NoDuplicate == NoReturn => Disjoint(q)

\* A request is set in the status mask exactly when a unit waits for it: the bits
\* and the listener lists of SymbexControllerRequestManager never disagree.
RequestsHaveListeners ==
  \A r \in Requests : r \in requested <=> listeners[r] # <<>>

\* The list of listeners being called is shared by all requests: a request is
\* never fired while a listener of another one is still to be called.
NoListenerSkipped ==
  [][firing # <<>> => firing' \in {firing, Tail(firing)}]_vars

\* Without a hit-or-jump unit a context is evaluated at most once: setEvalNumber never
\* overwrites a number.
EvaluatedOnce ==
  [][NoReturn => \A c \in Known : ec[c].eval # 0 => ec'[c].eval = ec[c].eval]_vars

\* Once a stop is requested or has been fired, or an EXIT ALL statement or the
\* user's stop file has set the stop marker, no context is evaluated any more.
StopIsFinal ==
  [][("STOP" \in requested \/ static = "STOPPED" \/ stopMarker)
     => evalNumber' = evalNumber]_vars

\* With a pool that gives one context at a time and no unit that puts contexts
\* back in ready, the number of evaluations never exceeds its limit.
EvalCountWithinLimit ==
  (~PopsAll /\ JumpUnits = <<>>) => evalNumber <= EvalLimit

\* The engine starts with a graph of its own (the leaves of an earlier one get a width after
\* the limits are tested, and only those of the first batch do), and nobody puts contexts back.
FreshRoot == Leaves = 0 /\ NoReturn

\* No context beyond the height or the width limit is evaluated.
EvaluatedWithinLimits ==
  FreshRoot =>
    \A c \in Known : ec[c].eval # 0 =>
      ec[c].height <= HeightLimit /\ ec[c].width <= WidthLimit

\* The contexts evaluated lie at distinct places of the graph: the first child
\* is in the column of its parent, any other opens a column.
DistinctPlaces ==
  FreshRoot =>
    \A c, d \in Known :
      (ec[c].eval # 0 /\ ec[d].eval # 0 /\
       ec[c].width = ec[d].width /\ ec[c].height = ec[d].height) => c = d

\* When no unit selects, jumps or stops, every runnable child of a context that
\* was evaluated and passed the postfilters is in some list until it is evaluated:
\* the exploration forgets no successor.
NothingForgotten ==
  (Selectors = {} /\ JumpUnits = <<>> /\ static = "STARTED") =>
    \A c \in Known :
      (/\ ec[c].aees \in {"OK", "JOIN"} /\ ec[c].eval = 0
       /\ c \notin Range(kids)
       /\ ec[c].parent \notin InSome(q, {"analysed", "result", "failed"}))
      => c \in InSome(q, {"waiting", "ready", "working", "main", "failed"})

\* A stop requested while the results of a step are analysed is fired.
StopIsFired ==
  (pc = "test" /\ dynamic = "RUNNING" /\ "STOP" \in requested) ~> static = "STOPPED"

\* The loop ends.
Termination == <>(pc \in {"done", "crashed"})
=============================================================================
