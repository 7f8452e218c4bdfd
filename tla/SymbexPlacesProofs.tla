------------------------- MODULE SymbexPlacesProofs -------------------------
(* The graph that is explored: every context evaluated is within the limits *)
(* and at a place of its own, and no successor is forgotten.                *)
EXTENDS SymbexOwnersProofs

-----------------------------------------------------------------------------
(* The invariants. *)

Increasing(s) == \A i, j \in DOMAIN s : i < j => s[i] < s[j]

\* a context whose place in the graph is final: it was evaluated, or finalized to be
Placed(c) == ec[c].eval # 0 \/ \E n \in Queues \ {"ante"} : c \in Held(q, n)

\* a context to finalize
Pending(c) == c \in Range(kids) \/ c \in Held(q, "ante")

\* a context that opens a column of the graph
Opens(c) == ec[c].parent = 0 \/ c # ec[ec[c].parent].kids[1]

\* The children of a context are numbered in their order, below it, and stay with it unless
\* they are STMT_NOTHING.
Kin ==
  /\ \A c \in Known : Increasing(ec[c].kids)
  /\ \A c \in Known : ec[c].parent # 0 =>
       LET p == ec[c].parent
       IN /\ ec[p].eval # 0 /\ ec[c].height = ec[p].height + 1
          /\ ec[c].aees # "NOTHING" => c \in Range(ec[p].kids)

\* What is to finalize comes in the order of the children, after those that have a place.
InTurn ==
  /\ Increasing(kids)
  /\ \A i, j \in DOMAIN q["ante"] :
       i < j /\ ec[q["ante"][i]].parent = ec[q["ante"][j]].parent => q["ante"][i] < q["ante"][j]
  /\ pc \in {"finalizeResult", "crashed"} => q["ante"] = <<>>
  /\ \A k \in Known : Pending(k) =>
       /\ ec[k].parent # 0 /\ k \in Children(ec[k].parent)
       /\ \A c \in Known : Placed(c) /\ ec[c].parent = ec[k].parent => c < k

\* The first step evaluates the root, whose width is not set.
FirstStep ==
  /\ ec[1].parent = 0
  /\ stepCount = 0 => Known = {1} /\ pc # "evaluate"
  /\ stepCount <= 1 => Held(q, "working") \subseteq {1}

\* A column: who opens it is above all others, and a first child is in that of its parent.
Columns ==
  /\ \A c \in Known : Placed(c) =>
       /\ ec[c].aees # "NOTHING" /\ ec[c].width <= graphWidth
       /\ ~ Opens(c) => ec[c].width = ec[ec[c].parent].width
  /\ \A c, d \in Known :
       Placed(c) /\ Placed(d) /\ c # d /\ ec[c].width = ec[d].width =>
         ec[c].height # ec[d].height /\ (Opens(d) => ec[d].height < ec[c].height)

PlacesInv == Kin /\ InTurn /\ FirstStep /\ Columns

Fits(c) == ec[c].height <= HeightLimit /\ ec[c].width <= WidthLimit

\* What the main prefilter let pass fits, until it is evaluated and ever after.
FitInv ==
  /\ \A c \in Known : ec[c].eval # 0 => Fits(c)
  /\ \A c \in Held(q, "working") : Fits(c)
  /\ pc = "mainPrefilter" => \A i \in DOMAIN q["ready"] : i < cur => Fits(q["ready"][i])
  /\ pc \in Filtered => \A c \in Held(q, "ready") : Fits(c)

\* The lists of what waits for its evaluation or was rejected, and of what was evaluated and
\* has its children still to finalize, or rejected.
Reached == {"waiting", "ready", "working", "main", "failed"}
Behind == {"analysed", "result", "failed"}

\* a context that is due for its evaluation
Due(c) ==
  /\ ec[c].aees \in {"OK", "JOIN"} /\ ec[c].eval = 0
  /\ c \notin Range(kids) /\ ec[c].parent \notin InSome(q, Behind)

\* With no selection and no jump: containers keep their children, and nobody forgets what is due.
ReachInv ==
  /\ q["ante"] = <<>> /\ pc # "finalizeAnte"
  /\ pc = "push" => q["result"] = <<>>
  /\ \A c \in Known :
       ec[c].parent # 0 /\ ec[c].aees # "NOTHING" => c \in Children(ec[c].parent)
  /\ static = "STARTED" => \A c \in Known : Due(c) => c \in InSome(q, Reached)

-----------------------------------------------------------------------------
(* Children in their order. *)

\* Erasing a place keeps the order, and every element but the one erased.
LEMMA RemoveAtIncreasing ==
  ASSUME NEW s \in Seq(Nat), NEW i \in 1 .. Len(s), Increasing(s)
  PROVE  /\ Increasing(RemoveAt(s, i))
         /\ \A x \in Range(s) : x # s[i] => x \in Range(RemoveAt(s, i))
         /\ i # 1 => RemoveAt(s, i)[1] = s[1]
<1> DEFINE t == RemoveAt(s, i)
<1>1. t \in Seq(Nat) /\ Len(t) = Len(s) - 1
  BY RemoveAtType
<1>2. \A j \in 1 .. Len(s) - 1 : t[j] = IF j < i THEN s[j] ELSE s[j + 1]
  BY RemoveAtElements
<1>3. DOMAIN t = 1 .. Len(s) - 1 /\ DOMAIN s = 1 .. Len(s) /\ Len(s) \in Nat
  BY <1>1, LenProperties
<1> HIDE DEF t
<1> DEFINE At(j) == IF j < i THEN j ELSE j + 1
<1>4. Increasing(t)
  <2>1. ASSUME NEW j \in DOMAIN t PROVE At(j) \in DOMAIN s /\ t[j] = s[At(j)]
    BY <1>2, <1>3
  <2>2. ASSUME NEW j \in DOMAIN t, NEW k \in DOMAIN t, j < k PROVE At(j) < At(k)
    BY <1>3, <2>2
  <2> HIDE DEF At
  <2> QED
    BY <2>1, <2>2 DEF Increasing
<1>5. ASSUME NEW x \in Range(s), x # s[i] PROVE x \in Range(t)
  <2>1. PICK j \in DOMAIN s : x = s[j]
    BY DEF Range
  <2>2. CASE j < i
    <3>1. j \in DOMAIN t /\ t[j] = x
      BY <1>2, <1>3, <2>1, <2>2
    <3> QED
      BY <3>1 DEF Range
  <2>3. CASE ~(j < i)
    <3>1. j - 1 \in DOMAIN t /\ t[j - 1] = x
      BY <1>2, <1>3, <1>5, <2>1, <2>3
    <3> QED
      BY <3>1 DEF Range
  <2> QED
    BY <2>2, <2>3
<1>6. i # 1 => t[1] = s[1]
  BY <1>2, <1>3
<1> QED
  BY <1>4, <1>5, <1>6 DEF t

\* Increasing numbers are different, and the first is the least.
LEMMA IncreasingFirst ==
  ASSUME NEW s \in Seq(Nat), Increasing(s)
  PROVE  /\ Different(s)
         /\ \A x \in Range(s) : s[1] \in Range(s) /\ s[1] <= x
         /\ s # <<>> => /\ Head(s) = s[1] /\ s[1] \in Range(s)
                        /\ Tail(s) \in Seq(Nat) /\ Increasing(Tail(s))
                        /\ \A x \in Range(Tail(s)) : x \in Range(s) /\ s[1] < x
<1>1. DOMAIN s = 1 .. Len(s) /\ Len(s) \in Nat /\ \A i \in 1 .. Len(s) : s[i] \in Nat
  BY LenProperties, ElementOfSeq
<1>2. Different(s)
  <2> SUFFICES ASSUME NEW i \in DOMAIN s, NEW j \in DOMAIN s, s[i] = s[j] PROVE i = j
    BY DEF Different
  <2>1. ~(i < j) /\ ~(j < i)
    BY <1>1 DEF Increasing
  <2> QED
    BY <1>1, <2>1
<1>3. ASSUME NEW x \in Range(s) PROVE s[1] \in Range(s) /\ s[1] <= x
  <2>1. PICK i \in DOMAIN s : x = s[i]
    BY DEF Range
  <2>2. 1 \in DOMAIN s /\ (i = 1 \/ 1 < i)
    BY <1>1
  <2>3. s[1] <= x
    BY <1>1, <2>1, <2>2 DEF Increasing
  <2> QED
    BY <2>2, <2>3 DEF Range
<1>4. ASSUME s # <<>>
      PROVE  /\ Head(s) = s[1] /\ s[1] \in Range(s)
             /\ Tail(s) \in Seq(Nat) /\ Increasing(Tail(s))
             /\ \A x \in Range(Tail(s)) : x \in Range(s) /\ s[1] < x
  <2>1. /\ Head(s) = s[1] /\ Tail(s) \in Seq(Nat) /\ Len(Tail(s)) = Len(s) - 1
        /\ \A i \in 1 .. Len(s) - 1 : Tail(s)[i] = s[i + 1]
    BY <1>4, HeadTailProperties
  <2>2. DOMAIN Tail(s) = 1 .. Len(s) - 1 /\ 1 \in DOMAIN s
    BY <1>1, <1>4, <2>1, LenProperties, EmptySeq
  <2>3. Increasing(Tail(s))
    <3> SUFFICES ASSUME NEW i \in DOMAIN Tail(s), NEW j \in DOMAIN Tail(s), i < j
                 PROVE  Tail(s)[i] < Tail(s)[j]
      BY DEF Increasing
    <3>1. i + 1 \in DOMAIN s /\ j + 1 \in DOMAIN s /\ i + 1 < j + 1
      BY <1>1, <2>2
    <3>2. s[i + 1] < s[j + 1]
      BY <3>1 DEF Increasing
    <3> QED
      BY <2>1, <2>2, <3>2
  <2>4. ASSUME NEW x \in Range(Tail(s)) PROVE x \in Range(s) /\ s[1] < x
    <3>1. PICK i \in DOMAIN Tail(s) : x = Tail(s)[i]
      BY DEF Range
    <3>2. i + 1 \in DOMAIN s /\ x = s[i + 1] /\ 1 < i + 1
      BY <1>1, <2>1, <2>2, <3>1
    <3> QED
      BY <2>2, <3>2 DEF Range, Increasing
  <2> QED
    BY <2>1, <2>2, <2>3, <2>4 DEF Range
<1> QED
  BY <1>2, <1>3, <1>4

\* What a unit selects from children comes in their order.
LEMMA SomeOfIncreasing ==
  ASSUME NEW s \in Seq(Nat), Increasing(s), NEW t \in SomeOf(s)
  PROVE  Increasing(t)
<1>1. PICK f \in [DOMAIN t -> DOMAIN s] :
        /\ \A i, j \in DOMAIN t : i < j => f[i] < f[j]
        /\ \A i \in DOMAIN t : t[i] = s[f[i]]
  BY Zenon DEF SomeOf
<1> SUFFICES ASSUME NEW i \in DOMAIN t, NEW j \in DOMAIN t, i < j PROVE t[i] < t[j]
  BY DEF Increasing
<1>2. f[i] \in DOMAIN s /\ f[j] \in DOMAIN s /\ f[i] < f[j]
  BY <1>1
<1> QED
  BY <1>1, <1>2 DEF Increasing

\* Removing an element keeps the order of the others, and the first if it is another.
LEMMA WithoutIncreasing ==
  ASSUME NEW s \in Seq(Nat), Increasing(s), NEW c
  PROVE  /\ Increasing(Without(s, c))
         /\ \A x \in Range(s) : x # c => x \in Range(Without(s, c))
         /\ s[1] # c => Without(s, c)[1] = s[1]
<1>1. CASE c \in Range(s)
  <2> DEFINE i == CHOOSE i \in DOMAIN s : s[i] = c
  <2>1. i \in DOMAIN s /\ s[i] = c /\ Without(s, c) = RemoveAt(s, i)
    BY <1>1 DEF Range, Without
  <2> HIDE DEF i
  <2>2. i \in 1 .. Len(s)
    BY <2>1, LenProperties
  <2> QED
    BY <2>1, <2>2, RemoveAtIncreasing
<1>2. CASE c \notin Range(s)
  BY <1>2 DEF Without
<1> QED
  BY <1>1, <1>2

\* finalizePostfiltering(aChildEC) gives the context a place, and takes it from its container
\* if it is STMT_NOTHING; everything else stays.
Settles(c) ==
  /\ Known' = Known
  /\ \A d \in Known :
       /\ ec'[d].parent = ec[d].parent /\ ec'[d].height = ec[d].height
       /\ ec'[d].eval = ec[d].eval /\ ec'[d].aees = ec[d].aees
       /\ d # c => ec'[d].width = ec[d].width
       /\ ec'[d].kids = ec[d].kids
          \/ (ec[c].aees = "NOTHING" /\ d = ec[c].parent /\ ec'[d].kids = Without(ec[d].kids, c))
  /\ graphWidth' \in {graphWidth, graphWidth + 1}
  /\ ec[c].aees \in Explored /\ SetsWidth(c) =>
       \/ /\ IsFirstChild(c)
          /\ graphWidth' = graphWidth /\ ec'[c].width = ec[ec[c].parent].width
       \/ ~IsFirstChild(c) /\ graphWidth' = graphWidth + 1 /\ ec'[c].width = graphWidth'

LEMMA FinalizeSettles ==
  ASSUME TypeOK, NEW c \in Known, Finalize(c)
  PROVE  Settles(c)
<1> DEFINE p == ec[c].parent
<1>1. /\ DOMAIN ec = Known /\ ec[c] \in Context /\ p \in {0} \cup Known /\ 0 \notin Known
      /\ \A d \in Known : ec[d] \in Context
  <2>1. ec \in Seq(Context) /\ Known = 1 .. Len(ec) /\ Len(ec) \in Nat
    BY LenProperties DEF TypeOK, ContextsOK, Known
  <2> QED
    BY <2>1 DEF TypeOK, ContextsOK, Known
<1>2. /\ graphWidth' = IF ec[c].aees \notin {"NOTHING", "ERROR"} /\ TakesNewWidth(c)
                       THEN graphWidth + 1 ELSE graphWidth
      /\ ec' = IF ec[c].aees = "NOTHING"
               THEN [ec EXCEPT ![p].kids = Without(@, c)]
               ELSE IF ec[c].aees # "ERROR" /\ SetsWidth(c)
               THEN [ec EXCEPT ![c].width = NewWidth(c)]
               ELSE ec
  BY Zenon DEF Finalize
<1>3. CASE ec[c].aees = "NOTHING"
  <2>1. ec' = [ec EXCEPT ![p].kids = Without(@, c)] /\ graphWidth' = graphWidth
    BY <1>2, <1>3
  <2>2. ASSUME NEW d \in Known
        PROVE  /\ ec'[d].parent = ec[d].parent /\ ec'[d].height = ec[d].height
               /\ ec'[d].eval = ec[d].eval /\ ec'[d].aees = ec[d].aees
               /\ ec'[d].width = ec[d].width
               /\ ec'[d].kids = IF d = p THEN Without(ec[d].kids, c) ELSE ec[d].kids
    <3> HIDE DEF p
    <3>1. ec'[d] = IF d = p THEN [ec[d] EXCEPT !.kids = Without(ec[d].kids, c)] ELSE ec[d]
      BY <1>1, <2>1
    <3>2. ec[d] \in Context
      BY <1>1
    <3> QED
      BY <3>1, <3>2 DEF Context
  <2>3. Known' = Known
    BY <1>1, <2>1 DEF Known
  <2> QED
    BY <1>3, <2>1, <2>2, <2>3 DEF Settles, Explored
<1>4. CASE ec[c].aees = "ERROR"
  <2>1. ec' = ec /\ graphWidth' = graphWidth
    BY <1>2, <1>4
  <2> QED
    BY <1>4, <2>1 DEF Settles, Explored, Known
<1>5. CASE ec[c].aees \notin {"NOTHING", "ERROR"} /\ ~SetsWidth(c)
  <2>1. ec' = ec /\ graphWidth' = graphWidth
    BY <1>2, <1>5 DEF TakesNewWidth
  <2> QED
    BY <1>5, <2>1 DEF Settles, Known
<1>6. CASE ec[c].aees \notin {"NOTHING", "ERROR"} /\ SetsWidth(c)
  <2>1. /\ ec' = [ec EXCEPT ![c].width = NewWidth(c)]
        /\ graphWidth' = IF IsFirstChild(c) THEN graphWidth ELSE graphWidth + 1
    BY <1>2, <1>6 DEF TakesNewWidth
  <2>2. ASSUME NEW d \in Known
        PROVE  /\ ec'[d].parent = ec[d].parent /\ ec'[d].height = ec[d].height
               /\ ec'[d].eval = ec[d].eval /\ ec'[d].aees = ec[d].aees
               /\ ec'[d].width = IF d = c THEN NewWidth(c) ELSE ec[d].width
               /\ ec'[d].kids = ec[d].kids
    <3>1. ec'[d] = IF d = c THEN [ec[d] EXCEPT !.width = NewWidth(c)] ELSE ec[d]
      BY <1>1, <2>1
    <3>2. ec[d] \in Context
      BY <1>1
    <3> QED
      BY <3>1, <3>2 DEF Context
  <2>3. Known' = Known
    BY <1>1, <2>1 DEF Known
  <2>4. ec'[c].width = IF IsFirstChild(c) THEN ec[p].width ELSE graphWidth + 1
    BY <2>2 DEF NewWidth
  <2> QED
    BY <2>1, <2>2, <2>3, <2>4 DEF Settles
<1> QED
  BY <1>3, <1>4, <1>5, <1>6

-----------------------------------------------------------------------------
(* The steps that change no context. *)

\* A context that gets no place disturbs no column.
LEMMA ColumnsKept ==
  ASSUME Kin, Columns, UNCHANGED <<ec, graphWidth>>, \A c \in Known : Placed(c)' => Placed(c)
  PROVE  Kin' /\ Columns'
<1>1. Known' = Known
  BY DEF Known
<1>2. Kin'
  BY <1>1 DEF Kin, Children
<1>3. \A c \in Known : Opens(c)' <=> Opens(c)
  BY DEF Opens
<1>4. Columns'
  BY <1>1, <1>3 DEF Columns
<1> QED
  BY <1>2, <1>4

\* Neither does it disturb the order of what is to finalize, if that stays.
LEMMA PlacesKept ==
  ASSUME Kin, InTurn, Columns, UNCHANGED <<ec, graphWidth, kids>>, q'["ante"] = q["ante"],
         \A c \in Known : Placed(c)' => Placed(c),
         pc' \in {"finalizeResult", "crashed"} => q["ante"] = <<>>
  PROVE  Kin' /\ InTurn' /\ Columns'
<1>1. Known' = Known /\ Held(q', "ante") = Held(q, "ante")
  BY DEF Known, Held
<1>2. \A k \in Known : Pending(k)' => Pending(k)
  BY <1>1 DEF Pending
<1>3. InTurn'
  BY <1>1, <1>2 DEF InTurn, Children
<1> QED
  BY <1>3, ColumnsKept

\* Contexts that flow get no place they had not.
LEMMA FlowPlaces ==
  ASSUME Kin, InTurn, Columns, Flows(Known, q, q'), UNCHANGED <<ec, kids, graphWidth>>,
         pc' \notin Late
  PROVE  Kin' /\ InTurn' /\ Columns'
<1>1. \A c \in Known : Placed(c)' => Placed(c)
  <2> SUFFICES ASSUME NEW c \in Known, NEW n \in Queues \ {"ante"}, c \in Held(q', n)
               PROVE  \E m \in Queues \ {"ante"} : c \in Held(q, m)
    BY DEF Placed
  <2>1. {"analysed", "failed", "result"} \subseteq Queues \ {"ante"} /\ Passing \subseteq Queues \ {"ante"}
    BY DEF Passing, Queues
  <2>2. CASE n \in Passing
    BY <2>1, <2>2 DEF Flows
  <2>3. CASE n = "failed"
    <3>1. \E m \in Passing \cup {"failed"} : c \in Held(q, m)
      BY <2>3 DEF Flows
    <3> QED
      BY <2>1, <3>1
  <2>4. CASE n \in {"analysed", "result"}
    <3>1. Held(q', n) = Held(q, n)
      BY <2>4 DEF Flows, Held
    <3> QED
      BY <3>1
  <2> QED
    BY <2>2, <2>3, <2>4 DEF Passing
<1> QED
  BY <1>1, PlacesKept DEF Flows, Late, Filtering

\* Where steps are counted and contexts put to work.
LEMMA WorkingFrame ==
  ASSUME TypeOK, Next
  PROVE  \/ AnalyseReady \/ HandOver \/ Evaluate
         \/ stepCount' = stepCount /\ q'["working"] = q["working"] /\ (pc' = "evaluate" => pc = "evaluate")
<1>1. CASE Prefilter
  <2>1. stepCount' = stepCount /\ pc' # "evaluate"
    BY <1>1 DEF Prefilter, MainPrefilter, ReadStopScript, EndMainPrefilter, RedundancyPrefilter,
       EndRedundancyPrefilter, FilterPrefilter, JumpPrefilter, PassPrefilter,
       CoveragePrefilterStop, NextPrefilter, EndPrefiltering, Keep, Take, EndPrefilter,
       Walking, Walked, Goto, countVars
  <2> QED
    BY <1>1, <2>1, PrefilterFrame DEF Frame
<1>2. CASE Handle
  <2>1. stepCount' = stepCount /\ pc' # "evaluate"
    BY <1>2 DEF Handle, IgnoreGoal, JumpGoal, JumpGivesUp, JumpBacktracks, JumpSelects,
       Listener, countVars
  <2> QED
    BY <1>2, <2>1, HandleFrame
<1>3. CASE Postfilter
  <2>1. stepCount' = stepCount /\ pc' # "evaluate"
    <3>1. CASE FinalizeChild
      BY <3>1, Zenon DEF FinalizeChild
    <3>2. CASE FinalizeSelected
      BY <3>2, Zenon DEF FinalizeSelected
    <3>3. CASE \/ FilterPostfilter \/ SelectorPostfilter \/ NextPostfilter \/ EndPostfiltering
               \/ PopResult \/ EndFinalize \/ PushWaiting
      BY <3>3 DEF FilterPostfilter, SelectorPostfilter, NextPostfilter, EndPostfiltering, PopResult,
         EndFinalize, PushWaiting, Postfiltering, Goto, countVars
    <3> QED
      BY <1>3, <3>1, <3>2, <3>3 DEF Postfilter
  <2> QED
    BY <1>3, <2>1, PostfilterFrame DEF Frame
<1>4. CASE Fire
  <2>1. /\ stepCount' = stepCount /\ pc' # "evaluate"
        /\ q' = q \/ q' = Clear(q, {"ready", "waiting"})
    BY <1>4 DEF Fire, FireStop, FireRequeueWaiting, NothingToFire, FireGoalReady, NoGoalReady,
       EndGoalReady, FireContinue, EndContinue, FireGoalResult, NoGoalResult, EndGoalResult,
       Goto, queueVars, countVars
  <2> QED
    BY <2>1 DEF Clear, Queues
<1>5. CASE PopWaiting \/ AnalyseResult
  <2>1. stepCount' = stepCount /\ pc' # "evaluate"
    BY <1>5 DEF PopWaiting, AnalyseResult, Goto, countVars
  <2> QED
    BY <1>5, <2>1, QueuesDomain DEF PopWaiting, AnalyseResult, Splice, Move, Add, Drop
<1>6. CASE NothingToRefill \/ EndEvaluate \/ NoResult \/ Loop \/ Terminated
  BY <1>6 DEF NothingToRefill, EndEvaluate, NoResult, Loop, Terminated, Goto, queueVars, countVars, vars
<1> QED
  BY <1>1, <1>2, <1>3, <1>4, <1>5, <1>6 DEF Next, Step

\* Which contexts a step changes: the one evaluated, the one finalized, or none.
LEMMA GraphFrame ==
  ASSUME TypeOK, OwnersInv, Next
  PROVE  /\ FinalizeChild => \E c \in Known : c = Head(kids) /\ Finalize(c) /\ Settles(c)
         /\ FinalizeSelected => \E c \in Known : c = Head(q["ante"]) /\ Finalize(c) /\ Settles(c)
         /\ Evaluate \/ FinalizeChild \/ FinalizeSelected \/ UNCHANGED <<ec, graphWidth>>
<1>1. ASSUME FinalizeChild PROVE \E c \in Known : c = Head(kids) /\ Finalize(c) /\ Settles(c)
  <2>1. kids \in Seq(Known) /\ kids # <<>> /\ Finalize(Head(kids))
    BY Zenon, <1>1, KnownPlaces DEF FinalizeChild
  <2>2. Head(kids) \in Known
    BY <2>1, HeadTailProperties
  <2> QED
    BY <1>1, <2>1, <2>2, FinalizeSettles
<1>2. ASSUME FinalizeSelected
      PROVE  \E c \in Known : c = Head(q["ante"]) /\ Finalize(c) /\ Settles(c)
  <2>1. q["ante"] \in Seq(Known)
    BY KnownPlaces DEF Queues
  <2>2. q["ante"] # <<>> /\ Finalize(Head(q["ante"]))
    BY Zenon, <1>2 DEF FinalizeSelected
  <2>3. Head(q["ante"]) \in Known
    BY <2>1, <2>2, HeadTailProperties
  <2> QED
    BY <1>2, <2>2, <2>3, FinalizeSettles
<1>3. ASSUME Prefilter \/ Fire \/ Handle PROVE UNCHANGED <<ec, graphWidth>>
  <2>1. UNCHANGED ec
    <3>1. Handle => UNCHANGED ec
      BY DEF Handle, IgnoreGoal, JumpGoal, JumpGivesUp, JumpBacktracks, JumpSelects, queueVars
    <3> QED
      BY <1>3, <3>1, PrefilterFlows, FireFlows DEF OwnersInv
  <2>2. UNCHANGED countVars
    BY <1>3 DEF Prefilter, MainPrefilter, ReadStopScript, EndMainPrefilter, RedundancyPrefilter,
       EndRedundancyPrefilter, FilterPrefilter, JumpPrefilter, PassPrefilter,
       CoveragePrefilterStop, NextPrefilter, EndPrefiltering, EndPrefilter,
       Fire, FireStop, FireRequeueWaiting, NothingToFire, FireGoalReady, NoGoalReady,
       EndGoalReady, FireContinue, EndContinue, FireGoalResult, NoGoalResult, EndGoalResult,
       Handle, IgnoreGoal, JumpGoal, JumpGivesUp, JumpBacktracks, JumpSelects
  <2> QED
    BY <2>1, <2>2 DEF countVars
<1>4. ASSUME \/ FilterPostfilter \/ SelectorPostfilter \/ NextPostfilter \/ EndPostfiltering
             \/ PopResult \/ EndFinalize \/ PushWaiting
      PROVE  UNCHANGED <<ec, graphWidth>>
  BY <1>4 DEF FilterPostfilter, SelectorPostfilter, NextPostfilter, EndPostfiltering, PopResult,
     EndFinalize, PushWaiting, queueVars, countVars
<1>5. ASSUME \/ AnalyseReady \/ PopWaiting \/ NothingToRefill \/ HandOver
             \/ EndEvaluate \/ AnalyseResult \/ NoResult \/ Loop \/ Terminated
      PROVE  UNCHANGED <<ec, graphWidth>>
  BY <1>5 DEF AnalyseReady, PopWaiting, NothingToRefill, HandOver, EndEvaluate, AnalyseResult, NoResult,
     Loop, Terminated, queueVars, countVars, vars
<1> QED
  BY <1>1, <1>2, <1>3, <1>4, <1>5 DEF Next, Step, Postfilter

\* The first step evaluates the root.
LEMMA FirstStepStep ==
  ASSUME TypeOK, OwnersInv, Lists(Known, q)', FirstStep, Next
  PROVE  FirstStep'
<1>1. stepCount \in Nat
  BY Zenon DEF TypeOK, ControlOK
<1>2. Held(q', "working") \subseteq Known'
  <2>1. \A i \in DOMAIN q'["working"] : q'["working"][i] \in Known'
    BY PlacesType DEF Lists, Queues
  <2> QED
    BY <2>1 DEF Held
<1>3. CASE Evaluate
  <2>1. /\ q' = Move(q, "working", 1, "analysed") /\ 1 \in 1 .. Len(q["working"]) /\ Evaluated \in Known
        /\ \E l \in Nat : Grows(l)
    BY <1>3, EvaluateGraph
  <2>2. 1 \in Known
    <3>1. Known = 1 .. Len(ec) /\ Len(ec) \in Nat
      BY LenProperties DEF TypeOK, ContextsOK, Known
    <3> QED
      BY <2>1, <3>1
  <2>3. ec'[1].parent = ec[1].parent
    BY <2>1, <2>2 DEF Grows
  <2>4. Held(q', "working") \subseteq Held(q, "working")
    <3>1. /\ q \in [Queues -> Seq(Known)] /\ Disjoint(q)
          /\ "working" \in Queues /\ "analysed" \in Queues \ {"working"}
      BY DEF OwnersInv, Lists, Queues
    <3>2. \A n \in Queues \ {"analysed"} : Held(q', n) \subseteq Held(q, n) \ {q["working"][1]}
      BY <2>1, <3>1, MoveDisjoint
    <3> QED
      BY <3>1, <3>2
  <2>5. stepCount' = stepCount /\ pc = "evaluate"
    BY <1>3, Zenon DEF Evaluate
  <2> QED
    BY <2>3, <2>4, <2>5 DEF FirstStep
<1>4. CASE ~Evaluate
  <2>1. ec'[1].parent = ec[1].parent /\ Known' = Known
    <3>1. Known = 1 .. Len(ec) /\ Len(ec) \in Nat
      BY LenProperties DEF TypeOK, ContextsOK, Known
    <3>2. ASSUME NEW c \in Known, Settles(c) PROVE ec'[1].parent = ec[1].parent /\ Known' = Known
      <4>1. 1 \in Known
        BY <3>1
      <4> QED
        BY <3>2, <4>1 DEF Settles
    <3> QED
      BY <1>4, <3>2, GraphFrame DEF Known
  <2>2. CASE AnalyseReady \/ HandOver
    <3>1. \/ stepCount' = stepCount + 1
          \/ stepCount' = stepCount /\ q' = q /\ pc' # "evaluate"
      BY <2>2 DEF AnalyseReady, HandOver, queueVars
    <3>2. CASE stepCount' = stepCount + 1
      BY <1>1, <1>2, <2>1, <3>2 DEF FirstStep
    <3>3. CASE stepCount' = stepCount /\ q' = q /\ pc' # "evaluate"
      BY <2>1, <3>3 DEF FirstStep
    <3> QED
      BY <3>1, <3>2, <3>3
  <2>3. CASE /\ stepCount' = stepCount /\ q'["working"] = q["working"]
             /\ pc' = "evaluate" => pc = "evaluate"
    <3>1. Held(q', "working") = Held(q, "working")
      BY <2>3 DEF Held
    <3> QED
      BY <2>1, <2>3, <3>1 DEF FirstStep
  <2> QED
    BY <1>4, <2>2, <2>3, WorkingFrame
<1> QED
  BY <1>3, <1>4

-----------------------------------------------------------------------------
(* The steps that change contexts. *)

\* The numbers of contexts, and of their parents and children.
LEMMA Numbers ==
  ASSUME TypeOK
  PROVE  /\ Known \subseteq Nat /\ 0 \notin Known /\ graphWidth \in Nat /\ evalNumber \in Nat
         /\ \A d \in Known : /\ ec[d].parent \in {0} \cup Known
                             /\ ec[d].height \in Nat /\ ec[d].width \in Nat /\ ec[d].eval \in Nat
                             /\ ec[d].kids \in Seq(Known) /\ ec[d].kids \in Seq(Nat)
                             /\ Children(d) \subseteq Known
<1>1. ec \in Seq(Context) /\ Known = 1 .. Len(ec) /\ Len(ec) \in Nat
  BY LenProperties DEF TypeOK, ContextsOK, Known
<1>2. \A d \in Known : /\ ec[d].parent \in {0} \cup Known /\ ec[d] \in Context
                       /\ ec[d].kids \in Seq(Known) /\ Children(d) \subseteq Known
  BY <1>1, KnownPlaces DEF TypeOK, ContextsOK
<1>3. graphWidth \in Nat /\ evalNumber \in Nat
  BY Zenon DEF TypeOK, ControlOK
<1>4. ASSUME NEW d \in Known
      PROVE  ec[d].height \in Nat /\ ec[d].width \in Nat /\ ec[d].eval \in Nat /\ ec[d].kids \in Seq(Nat)
  <2>1. ec[d] \in Context
    BY <1>2
  <2> QED
    BY <2>1 DEF Context
<1> QED
  BY <1>1, <1>2, <1>3, <1>4

\* A context to finalize gets a place that no other context has.
LEMMA SettlesColumns ==
  ASSUME TypeOK, Kin, Columns, NEW c \in Known, Settles(c),
         ec[c].eval = 0, ec[c].parent # 0, c \in Children(ec[c].parent),
         \A d \in Known : Placed(d) /\ ec[d].parent = ec[c].parent => d < c,
         \A d \in Known : Placed(d)' => Placed(d) \/ (d = c /\ ec[c].aees \in Explored)
  PROVE  Kin' /\ Columns'
<1>1. PICK p \in Known : p = ec[c].parent
  BY Numbers
<1>2. Known' = Known /\ \A d \in Known :
        /\ ec'[d].parent = ec[d].parent /\ ec'[d].height = ec[d].height
        /\ ec'[d].eval = ec[d].eval /\ ec'[d].aees = ec[d].aees
        /\ d # c => ec'[d].width = ec[d].width
        /\ ec'[d].kids = ec[d].kids
           \/ (ec[c].aees = "NOTHING" /\ d = p /\ ec'[d].kids = Without(ec[d].kids, c))
  BY <1>1 DEF Settles
<1>3. Increasing(ec[p].kids) /\ ec[p].kids \in Seq(Nat) /\ c \in Range(ec[p].kids) /\ p # 0
  BY <1>1, Numbers DEF Kin, Children
<1>4. Kin'
  <2>1. ASSUME NEW d \in Known PROVE Increasing(ec'[d].kids)
    BY <1>2, <1>3, WithoutIncreasing DEF Kin
  <2>2. ASSUME NEW d \in Known, ec[d].parent # 0
        PROVE  /\ ec'[ec[d].parent].eval # 0 /\ ec'[d].height = ec'[ec[d].parent].height + 1
               /\ ec'[d].aees # "NOTHING" => d \in Range(ec'[ec[d].parent].kids)
    <3>1. /\ ec[d].parent \in Known
          /\ ec[ec[d].parent].eval # 0 /\ ec[d].height = ec[ec[d].parent].height + 1
          /\ ec[d].aees # "NOTHING" => d \in Range(ec[ec[d].parent].kids)
      BY <2>2, Numbers DEF Kin, Children
    <3>2. ec[c].aees = "NOTHING" /\ ec[d].aees # "NOTHING" => d # c
      OBVIOUS
    <3> QED
      BY <1>2, <1>3, <3>1, <3>2, WithoutIncreasing
  <2> QED
    BY <1>2, <2>1, <2>2 DEF Kin, Children
<1>5. ASSUME NEW d \in Known, Placed(d), ec[d].parent # 0
      PROVE  /\ ec[d].parent \in Known /\ Placed(ec[d].parent)
             /\ ec[d].height = ec[ec[d].parent].height + 1
             /\ d \in Range(ec[ec[d].parent].kids)
  BY <1>5, Numbers DEF Kin, Columns, Placed, Children
<1>6. ~ Placed(c)
  BY Numbers
<1>7. ASSUME NEW d \in Known, Placed(d) PROVE Opens(d)' <=> Opens(d)
  <2>1. CASE ec[d].parent = 0
    BY <1>2, <2>1 DEF Opens
  <2>2. CASE ec[d].parent # 0 /\ ec[d].parent # p
    BY <1>2, <1>5, <1>7, <2>2 DEF Opens
  <2>3. CASE ec[d].parent = p
    <3>1. d < c /\ d \in Range(ec[p].kids)
      BY <1>1, <1>3, <1>5, <1>7, <2>3
    <3>2. ec[p].kids[1] \in Range(ec[p].kids) /\ ec[p].kids[1] <= d
      BY <1>3, <3>1, IncreasingFirst
    <3>3. ec[p].kids[1] # c
      <4>1. ec[p].kids[1] \in Nat /\ d \in Nat /\ c \in Nat
        BY <3>2, Numbers DEF Children
      <4> QED
        BY <3>1, <3>2, <4>1
    <3>4. ec'[p].kids[1] = ec[p].kids[1]
      BY <1>2, <1>3, <3>3, WithoutIncreasing
    <3> QED
      BY <1>2, <2>3, <3>4 DEF Opens
  <2> QED
    BY <2>1, <2>2, <2>3
<1>8. \A d \in Known : Placed(d) =>
        /\ d # c /\ ec'[d].width = ec[d].width /\ ec[d].width <= graphWidth
        /\ ec[d].parent # c
  <2> SUFFICES ASSUME NEW d \in Known, Placed(d)
               PROVE  /\ d # c /\ ec'[d].width = ec[d].width /\ ec[d].width <= graphWidth
                      /\ ec[d].parent # c
    OBVIOUS
  <2>1. d # c /\ ec'[d].width = ec[d].width /\ ec[d].width <= graphWidth
    BY <1>2, <1>6 DEF Columns
  <2>2. ec[d].parent # c
    BY Numbers DEF Kin
  <2> QED
    BY <2>1, <2>2
<1>9. graphWidth \in Nat /\ graphWidth' \in {graphWidth, graphWidth + 1}
  BY Numbers DEF Settles
<1>10. ASSUME NEW d \in Known, Placed(d)
       PROVE  /\ ec'[d].aees # "NOTHING" /\ ec'[d].width <= graphWidth'
              /\ ~ Opens(d)' => ec'[d].width = ec'[ec'[d].parent].width
  <2>1. ec'[d].aees # "NOTHING" /\ ec'[d].width <= graphWidth'
    BY <1>2, <1>8, <1>9, <1>10, Numbers DEF Columns
  <2>2. ASSUME ~ Opens(d)' PROVE ec'[d].width = ec'[ec'[d].parent].width
    <3>1. ~ Opens(d) /\ ec[d].parent # 0
      BY <1>7, <1>10, <2>2 DEF Opens
    <3>2. ec[d].width = ec[ec[d].parent].width /\ ec[d].parent \in Known /\ Placed(ec[d].parent)
      BY <1>5, <1>10, <3>1 DEF Columns
    <3> QED
      BY <1>2, <1>8, <1>10, <3>2
  <2> QED
    BY <2>1, <2>2
<1>11. CASE ~ Placed(c)'
  <2>1. \A d \in Known : Placed(d)' => Placed(d)
    BY <1>11
  <2>2. ASSUME NEW d \in Known, NEW e \in Known, Placed(d), Placed(e), d # e,
               ec'[d].width = ec'[e].width
        PROVE  ec'[d].height # ec'[e].height /\ (Opens(e)' => ec'[e].height < ec'[d].height)
    BY <1>2, <1>7, <1>8, <2>2 DEF Columns
  <2>3. Columns'
    BY <1>2, <1>10, <2>1, <2>2 DEF Columns
  <2> QED
    BY <1>4, <2>3
<1>12. CASE Placed(c)'
  <2>1. ec[c].aees \in Explored /\ ec'[c].aees # "NOTHING"
    BY <1>2, <1>6, <1>12 DEF Explored
  <2>2. SetsWidth(c)
    <3>1. ec[p].kids # <<>>
      BY <1>3 DEF Range
    <3> QED
      BY <1>1, <3>1 DEF SetsWidth
  <2>3. Opens(c)' <=> ~ IsFirstChild(c)
    <3>1. ec'[p].kids = ec[p].kids /\ ec'[c].parent = p
      BY <1>1, <1>2, <2>1 DEF Explored
    <3> QED
      BY <1>1, <1>3, <3>1 DEF Opens, IsFirstChild
  <2>4. /\ Placed(p) /\ p # c /\ ec'[p].width = ec[p].width
        /\ ec[c].height = ec[p].height + 1 /\ ec[p].height \in Nat
    <3>1. ec[p].eval # 0 /\ ec[c].height = ec[p].height + 1
      BY <1>1, <1>3 DEF Kin
    <3> QED
      BY <1>2, <3>1, Numbers DEF Placed
  <2>5. /\ ec'[c].width <= graphWidth'
        /\ ~ Opens(c)' => ec'[c].width = ec'[ec'[c].parent].width
        /\ IsFirstChild(c) => ec'[c].width = ec[p].width
        /\ ~ IsFirstChild(c) => ec'[c].width = graphWidth + 1
    <3>1. CASE IsFirstChild(c) /\ graphWidth' = graphWidth /\ ec'[c].width = ec[p].width
      BY <1>1, <1>2, <1>8, <2>4, <3>1
    <3>2. CASE ~IsFirstChild(c) /\ graphWidth' = graphWidth + 1 /\ ec'[c].width = graphWidth'
      BY <1>9, <2>3, <3>2
    <3> QED
      BY <1>1, <2>1, <2>2, <3>1, <3>2 DEF Settles
  <2>6. ASSUME NEW d \in Known, Placed(d), ec'[d].width = ec'[c].width
        PROVE  /\ ec'[d].height # ec'[c].height
               /\ Opens(c)' => ec'[c].height < ec'[d].height
               /\ Opens(d)' => ec'[d].height < ec'[c].height
    <3>1. IsFirstChild(c) /\ ~ Opens(c)'
      <4>1. ec[d].width # graphWidth + 1
        BY <1>8, <1>9, <2>6, Numbers
      <4> QED
        BY <1>8, <2>3, <2>5, <2>6, <4>1
    <3>2. ec[d].width = ec[p].width /\ ec'[d].height = ec[d].height /\ ec'[c].height = ec[p].height + 1
      BY <1>2, <1>8, <2>4, <2>5, <2>6, <3>1
    <3>3. ec[d].height # ec[p].height + 1
      <4> SUFFICES ASSUME ec[d].height = ec[p].height + 1 PROVE FALSE
        OBVIOUS
      <4>1. ~ Opens(d) /\ d # p
        BY <2>4, <2>6, <3>2, Numbers DEF Columns
      <4>2. /\ ec[d].parent # 0 /\ d = ec[ec[d].parent].kids[1]
            /\ ec[d].width = ec[ec[d].parent].width
        BY <2>6, <4>1 DEF Opens, Columns
      <4>3. /\ ec[d].parent \in Known /\ Placed(ec[d].parent)
            /\ ec[d].height = ec[ec[d].parent].height + 1
        BY <1>5, <2>6, <4>2
      <4>4. ec[ec[d].parent].height = ec[p].height
        <5>1. ec[ec[d].parent].height \in Nat
          BY <4>3, Numbers
        <5> QED
          BY <2>4, <4>3, <5>1
      <4>5. ec[d].parent = p
        BY <2>4, <3>2, <4>2, <4>3, <4>4 DEF Columns
      <4>6. d = c
        BY <1>1, <3>1, <4>2, <4>5 DEF IsFirstChild
      <4> QED
        BY <1>8, <2>6, <4>6
    <3>4. Opens(d) => ec[d].height < ec[p].height + 1
      <4>1. d # p /\ Opens(d) => ec[d].height < ec[p].height
        BY <2>4, <2>6, <3>2 DEF Columns
      <4> QED
        BY <2>4, <4>1, Numbers
    <3> QED
      BY <1>7, <2>6, <3>1, <3>2, <3>3, <3>4
  <2>7. ASSUME NEW d \in Known, Placed(d)' PROVE Placed(d) \/ d = c
    BY <2>7
  <2>8. ASSUME NEW d \in Known, NEW e \in Known, Placed(d)', Placed(e)', d # e,
               ec'[d].width = ec'[e].width
        PROVE  ec'[d].height # ec'[e].height /\ (Opens(e)' => ec'[e].height < ec'[d].height)
    <3>1. CASE d = c
      BY <2>6, <2>7, <2>8, <3>1
    <3>2. CASE e = c
      BY <2>6, <2>7, <2>8, <3>2
    <3>3. CASE d # c /\ e # c
      BY <1>2, <1>7, <1>8, <2>7, <2>8, <3>3 DEF Columns
    <3> QED
      BY <3>1, <3>2, <3>3
  <2>9. ASSUME NEW d \in Known, Placed(d)'
        PROVE  /\ ec'[d].aees # "NOTHING" /\ ec'[d].width <= graphWidth'
               /\ ~ Opens(d)' => ec'[d].width = ec'[ec'[d].parent].width
    BY <1>10, <2>1, <2>5, <2>7, <2>9
  <2>10. Columns'
    BY <1>2, <2>8, <2>9 DEF Columns
  <2> QED
    BY <1>4, <2>10
<1> QED
  BY <1>11, <1>12

\* A container keeps its other children.
LEMMA SettlesKeeps ==
  ASSUME TypeOK, Kin, NEW c \in Known, Settles(c), NEW d \in Known, NEW k \in Children(d), k # c
  PROVE  k \in Range(ec'[d].kids)
<1>1. ec[d].kids \in Seq(Nat) /\ Increasing(ec[d].kids) /\ k \in Range(ec[d].kids)
  BY Numbers DEF Kin, Children
<1>2. ec'[d].kids = ec[d].kids \/ ec'[d].kids = Without(ec[d].kids, c)
  BY DEF Settles
<1> QED
  BY <1>1, <1>2, WithoutIncreasing

\* The next child gets its place, before those left.
LEMMA FinalizeChildPlaces ==
  ASSUME TypeOK, OwnersInv, Kin, InTurn, Columns,
         FinalizeChild, NEW c \in Known, c = Head(kids), Settles(c)
  PROVE  Kin' /\ InTurn' /\ Columns'
<1>1. /\ pc = "finalizeResult" /\ kids # <<>> /\ kids' = Tail(kids)
      /\ q' = IF ec[c].aees \in Explored THEN Add(q, "main", c) ELSE q
  BY Zenon DEF FinalizeChild
<1>2. q["ante"] = <<>> /\ Increasing(kids) /\ kids \in Seq(Known) /\ kids \in Seq(Nat)
  <2>1. Known \subseteq Nat /\ kids \in Seq(Known)
    BY Numbers, KnownPlaces
  <2> QED
    BY <1>1, <2>1, SeqMonotonic DEF InTurn
<1>3. /\ c = kids[1] /\ c \in Range(kids) /\ Increasing(Tail(kids))
      /\ \A x \in Range(Tail(kids)) : x \in Range(kids) /\ c < x
  BY <1>1, <1>2, IncreasingFirst
<1>4. Pending(c)
  BY <1>3 DEF Pending
<1>5. ec[c].eval = 0 /\ \A n \in Queues : c \notin Held(q, n)
  BY <1>1, <1>3 DEF OwnersInv, KidsFree, Free
<1>6. /\ ec[c].parent # 0 /\ c \in Children(ec[c].parent)
      /\ \A d \in Known : Placed(d) /\ ec[d].parent = ec[c].parent => d < c
  BY <1>4 DEF InTurn
<1>7. /\ q \in [Queues -> Seq(Known)] /\ Disjoint(q) /\ {"main", "ante"} \subseteq Queues
  BY DEF OwnersInv, Lists, Queues
<1>8. q'["ante"] = <<>> /\ \A n \in Queues : \A d \in Held(q', n) :
        d \in Held(q, n) \/ (n = "main" /\ d = c /\ ec[c].aees \in Explored)
  <2>1. CASE ec[c].aees \in Explored
    <3>1. /\ \A n \in Queues \ {"main"} : Held(Add(q, "main", c), n) = Held(q, n)
          /\ Held(Add(q, "main", c), "main") = Held(q, "main") \cup {c}
      BY <1>5, <1>7, AddDisjoint
    <3> QED
      BY <1>1, <1>2, <1>7, <2>1, <3>1 DEF Add
  <2>2. CASE ec[c].aees \notin Explored
    BY <1>1, <1>2, <2>2
  <2> QED
    BY <2>1, <2>2
<1>9. /\ Known' = Known
      /\ \A d \in Known : ec'[d].parent = ec[d].parent /\ ec'[d].eval = ec[d].eval
  BY DEF Settles
<1>10. \A d \in Known : Placed(d)' => Placed(d) \/ (d = c /\ ec[c].aees \in Explored)
  BY <1>8, <1>9 DEF Placed
<1>11. Kin' /\ Columns'
  BY <1>5, <1>6, <1>10, SettlesColumns
<1>12. ASSUME NEW k \in Known, k \in Range(kids') \/ k \in Held(q', "ante")
       PROVE  /\ ec'[k].parent # 0 /\ k \in Range(ec'[ec'[k].parent].kids)
              /\ \A d \in Known : Placed(d)' /\ ec'[d].parent = ec'[k].parent => d < k
  <2>1. k \in Range(kids) /\ c < k
    BY <1>1, <1>3, <1>8, <1>12 DEF Held
  <2>2. /\ ec[k].parent # 0 /\ k \in Children(ec[k].parent)
        /\ \A d \in Known : Placed(d) /\ ec[d].parent = ec[k].parent => d < k
    BY <2>1 DEF InTurn, Pending
  <2>3. ec[k].parent \in Known /\ k # c
    BY <2>1, <2>2, Numbers
  <2>4. k \in Range(ec'[ec[k].parent].kids)
    BY <2>2, <2>3, SettlesKeeps
  <2> QED
    BY <1>9, <1>10, <2>1, <2>2, <2>4
<1>13. InTurn'
  <2>1. \A i \in DOMAIN q'["ante"] : FALSE
    BY <1>8
  <2> QED
    BY <1>1, <1>3, <1>8, <1>9, <1>12, <2>1 DEF InTurn, Pending, Children
<1> QED
  BY <1>11, <1>13

\* The next selected context gets its place, before those of the same container.
LEMMA FinalizeSelectedPlaces ==
  ASSUME TypeOK, OwnersInv, Kin, InTurn, Columns,
         FinalizeSelected, NEW c \in Known, c = Head(q["ante"]), Settles(c)
  PROVE  Kin' /\ InTurn' /\ Columns'
<1>1. /\ pc = "finalizeAnte" /\ pc' = pc /\ q["ante"] # <<>> /\ kids' = kids
      /\ q' = IF ec[c].aees \in Explored THEN Move(q, "ante", 1, "main") ELSE Drop(q, "ante", 1)
  BY Zenon DEF FinalizeSelected, walkVars
<1>2. /\ q \in [Queues -> Seq(Known)] /\ Disjoint(q) /\ kids = <<>>
      /\ "ante" \in Queues /\ "main" \in Queues \ {"ante"}
  BY <1>1 DEF OwnersInv, Lists, Queues, KidsFree
<1> DEFINE s == q["ante"]
<1>3. /\ s \in Seq(Known) /\ 1 \in 1 .. Len(s) /\ Len(s) \in Nat /\ DOMAIN s = 1 .. Len(s)
      /\ c = s[1]
  <2>1. s \in Seq(Known) /\ 1 \in 1 .. Len(s)
    BY <1>1, <1>2, EndPlaces
  <2> QED
    BY <1>1, <2>1, HeadTailProperties, LenProperties
<1>4. Pending(c) /\ ec[c].eval = 0
  <2>1. c \in Held(q, "ante")
    BY <1>3 DEF Held
  <2> QED
    BY <2>1 DEF Pending, OwnersInv, Unevaluated
<1>5. /\ ec[c].parent # 0 /\ c \in Children(ec[c].parent)
      /\ \A d \in Known : Placed(d) /\ ec[d].parent = ec[c].parent => d < c
  BY <1>4 DEF InTurn
<1>6. q'["ante"] = RemoveAt(s, 1)
  <2>1. Drop(q, "ante", 1)["ante"] = RemoveAt(s, 1) /\ DOMAIN Drop(q, "ante", 1) = Queues
    BY <1>2 DEF Drop
  <2>2. Move(q, "ante", 1, "main")["ante"] = Drop(q, "ante", 1)["ante"]
    BY <1>2, <2>1 DEF Move, Add
  <2> QED
    BY <1>1, <2>1, <2>2
<1>7. /\ DOMAIN q'["ante"] = 1 .. Len(s) - 1
      /\ \A j \in 1 .. Len(s) - 1 : q'["ante"][j] = s[j + 1] /\ j + 1 \in DOMAIN s /\ 1 < j + 1
  <2>1. RemoveAt(s, 1) \in Seq(Known) /\ Len(RemoveAt(s, 1)) = Len(s) - 1
    BY <1>3, RemoveAtType
  <2>2. \A j \in 1 .. Len(s) - 1 : RemoveAt(s, 1)[j] = IF j < 1 THEN s[j] ELSE s[j + 1]
    BY <1>3, RemoveAtElements
  <2> HIDE DEF s
  <2> QED
    BY <1>3, <1>6, <2>1, <2>2, LenProperties
<1>8. \A n \in Queues : \A d \in Held(q', n) :
        d \in Held(q, n) \/ (n = "main" /\ d = c /\ ec[c].aees \in Explored)
  <2>1. CASE ec[c].aees \in Explored
    <3>1. /\ \A n \in Queues \ {"main"} : Held(Move(q, "ante", 1, "main"), n) \subseteq Held(q, n) \ {c}
          /\ Held(Move(q, "ante", 1, "main"), "main") \subseteq Held(q, "main") \cup {c}
      BY <1>2, <1>3, MoveDisjoint
    <3> QED
      BY <1>1, <2>1, <3>1
  <2>2. CASE ec[c].aees \notin Explored
    <3>1. \A n \in Queues : Held(Drop(q, "ante", 1), n) \subseteq Held(q, n)
      BY <1>2, <1>3, DropDisjoint
    <3> QED
      BY <1>1, <2>2, <3>1
  <2> QED
    BY <2>1, <2>2
<1>9. /\ Known' = Known
      /\ \A d \in Known : ec'[d].parent = ec[d].parent /\ ec'[d].eval = ec[d].eval
  BY DEF Settles
<1>10. \A d \in Known : Placed(d)' => Placed(d) \/ (d = c /\ ec[c].aees \in Explored)
  BY <1>8, <1>9 DEF Placed
<1>11. Kin' /\ Columns'
  BY <1>4, <1>5, <1>10, SettlesColumns
<1>12. ASSUME NEW i \in DOMAIN q'["ante"], NEW j \in DOMAIN q'["ante"],
              i < j, ec'[q'["ante"][i]].parent = ec'[q'["ante"][j]].parent
       PROVE  q'["ante"][i] < q'["ante"][j]
  <2>1. /\ i + 1 \in DOMAIN s /\ j + 1 \in DOMAIN s /\ i + 1 < j + 1
        /\ q'["ante"][i] = s[i + 1] /\ q'["ante"][j] = s[j + 1]
    BY <1>3, <1>7, <1>12
  <2>2. s[i + 1] \in Known /\ s[j + 1] \in Known
    BY <1>2, <2>1, PlacesType
  <2>3. ec[s[i + 1]].parent = ec[s[j + 1]].parent
    BY <1>9, <1>12, <2>1, <2>2
  <2> QED
    BY <2>1, <2>3 DEF InTurn
<1>13. ASSUME NEW k \in Known, k \in Range(kids') \/ k \in Held(q', "ante")
       PROVE  /\ ec'[k].parent # 0 /\ k \in Range(ec'[ec'[k].parent].kids)
              /\ \A d \in Known : Placed(d)' /\ ec'[d].parent = ec'[k].parent => d < k
  <2>1. PICK j \in DOMAIN s : k = s[j] /\ 1 < j
    <3>1. k \in Held(q', "ante")
      BY <1>1, <1>2, <1>13 DEF Range
    <3>2. PICK i \in DOMAIN q'["ante"] : k = q'["ante"][i]
      BY <3>1 DEF Held
    <3>3. i + 1 \in DOMAIN s /\ k = s[i + 1] /\ 1 < i + 1
      BY <1>7, <3>2
    <3> QED
      BY <3>3
  <2>2. Pending(k)
    BY <2>1 DEF Pending, Held
  <2>3. /\ ec[k].parent # 0 /\ k \in Children(ec[k].parent)
        /\ \A d \in Known : Placed(d) /\ ec[d].parent = ec[k].parent => d < k
    BY <2>2 DEF InTurn
  <2>4. ec[c].parent = ec[k].parent => c < k
    BY <1>3, <2>1 DEF InTurn
  <2>5. k # c
    BY <2>4, Numbers
  <2>6. ec[k].parent \in Known
    BY <2>3, Numbers
  <2>7. k \in Range(ec'[ec[k].parent].kids)
    BY <2>3, <2>5, <2>6, SettlesKeeps
  <2> QED
    BY <1>9, <1>10, <2>3, <2>4, <2>7
<1>14. InTurn'
  <2>1. Increasing(kids')
    BY <1>1, <1>2 DEF Increasing
  <2> QED
    BY <1>1, <1>9, <1>12, <1>13, <2>1 DEF InTurn, Pending, Children
<1> QED
  BY <1>11, <1>14

\* The context evaluated keeps its place, and its children, numbered after all, get none yet.
LEMMA EvaluatePlaces ==
  ASSUME TypeOK, OwnersInv, PlacesInv, Evaluate
  PROVE  Kin' /\ InTurn' /\ Columns'
<1> USE DEF PlacesInv
<1>1. /\ 1 \in 1 .. Len(q["working"]) /\ Evaluated \in Known /\ Evaluated = q["working"][1]
      /\ q' = Move(q, "working", 1, "analysed") /\ UNCHANGED kids
      /\ \E l \in Nat : Grows(l)
  BY EvaluateGraph
<1>2. PICK l \in Nat : Grows(l)
  BY <1>1
<1>3. PICK e \in Known : e = Evaluated
  BY <1>1
<1>4. PICK n \in Nat : n = Len(ec) /\ Known = 1 .. n /\ Known' = 1 .. n + l
  BY <1>2, LenProperties DEF Grows, TypeOK, ContextsOK, Known
<1>5. e \in Held(q, "working") /\ ec[e].eval = 0 /\ ec[e].kids = <<>> /\ Placed(e)
  <2>1. q \in [Queues -> Seq(Known)] /\ "working" \in Queues
    BY DEF OwnersInv, Lists, Queues
  <2>2. e \in Held(q, "working") /\ "working" \in Passing /\ "working" \in Queues \ {"ante"}
    BY <1>1, <1>3, <2>1, PlacesType DEF Held, Passing, Queues
  <2> QED
    BY <2>2 DEF OwnersInv, Unevaluated, Family, Placed
<1>6. stepCount = 1 => e = 1 /\ ec[e].parent = 0
  BY <1>5, Numbers DEF FirstStep
<1>7. InitWidth(e) = ec[e].width /\ graphWidth' = graphWidth
  <2>1. graphWidth' = IF stepCount = 1 /\ TakesNewWidth(e) THEN graphWidth + 1 ELSE graphWidth
    BY Zenon, <1>3 DEF Evaluate, Evaluated
  <2> QED
    BY <1>6, <2>1 DEF InitWidth, TakesNewWidth, SetsWidth
<1>8. \A d \in Known :
        /\ ec'[d].parent = ec[d].parent /\ ec'[d].height = ec[d].height
        /\ ec'[d].width = ec[d].width /\ ec'[d].aees = ec[d].aees
        /\ d # e => ec'[d].kids = ec[d].kids /\ ec'[d].eval = ec[d].eval
  BY <1>2, <1>3, <1>7 DEF Grows
<1>9. ec'[e].eval # 0 /\ ec'[e].kids = [j \in 1 .. l |-> n + j]
  <2>1. ec'[e].eval = evalNumber + 1 /\ ec'[e].kids = <<>> \o [j \in 1 .. l |-> n + j]
    BY <1>2, <1>3, <1>4, <1>5 DEF Grows
  <2>2. [j \in 1 .. l |-> n + j] \in Seq(Nat)
    OBVIOUS
  <2> QED
    BY <2>1, <2>2, Numbers
<1>10. \A d \in Known' \ Known : ec'[d].parent = e /\ ec'[d].eval = 0 /\ ec'[d].height = ec[e].height + 1
                                 /\ ec'[d].kids = <<>>
  BY <1>2, <1>3 DEF Grows
<1>11. \A d \in Known : ec[d].parent # e
  BY <1>5, Numbers DEF Kin
<1>12. Kin'
  <2>1. ASSUME NEW d \in Known' PROVE Increasing(ec'[d].kids)
    <3>1. CASE d \in Known /\ d # e
      BY <1>8, <3>1 DEF Kin
    <3>2. CASE d = e
      BY <1>9, <3>2 DEF Increasing
    <3>3. CASE d \notin Known
      BY <1>10, <2>1, <3>3 DEF Increasing
    <3> QED
      BY <3>1, <3>2, <3>3
  <2>2. ASSUME NEW d \in Known', ec'[d].parent # 0
        PROVE  /\ ec'[ec'[d].parent].eval # 0 /\ ec'[d].height = ec'[ec'[d].parent].height + 1
               /\ ec'[d].aees # "NOTHING" => d \in Range(ec'[ec'[d].parent].kids)
    <3>1. CASE d \in Known
      <4>1. /\ ec'[d].parent = ec[d].parent /\ ec[d].parent \in Known /\ ec[d].parent # e
        BY <1>8, <1>11, <2>2, <3>1, Numbers
      <4>2. /\ ec[ec[d].parent].eval # 0 /\ ec[d].height = ec[ec[d].parent].height + 1
            /\ ec[d].aees # "NOTHING" => d \in Range(ec[ec[d].parent].kids)
        BY <2>2, <3>1, <4>1 DEF Kin, Children
      <4> QED
        BY <1>8, <3>1, <4>1, <4>2
    <3>2. CASE d \notin Known
      <4>1. d - n \in 1 .. l /\ d = n + (d - n)
        BY <1>4, <2>2, <3>2
      <4>2. d \in Range(ec'[e].kids)
        BY <1>9, <4>1 DEF Range
      <4> QED
        BY <1>8, <1>9, <1>10, <2>2, <3>2, <4>2
    <3> QED
      BY <3>1, <3>2
  <2> QED
    BY <2>1, <2>2 DEF Kin, Children
<1>13. \A m \in Queues : \A d \in Held(q', m) : d \in Known /\ (d \in Held(q, m) \/ d = e)
  <2>1. q \in [Queues -> Seq(Known)] /\ Disjoint(q) /\ "working" \in Queues /\ "analysed" \in Queues \ {"working"}
    BY DEF OwnersInv, Lists, Queues
  <2>2. /\ \A m \in Queues \ {"analysed"} : Held(q', m) \subseteq Held(q, m) \ {e}
        /\ Held(q', "analysed") \subseteq Held(q, "analysed") \cup {e}
    BY <1>1, <1>3, <2>1, MoveDisjoint
  <2> QED
    BY <2>1, <2>2, KnownPlaces
<1>14. \A d \in Known' : Placed(d)' => d \in Known /\ Placed(d)
  <2> SUFFICES ASSUME NEW d \in Known', Placed(d)' PROVE d \in Known /\ Placed(d)
    OBVIOUS
  <2>1. CASE ec'[d].eval # 0
    BY <1>5, <1>8, <1>10, <2>1 DEF Placed
  <2>2. CASE \E m \in Queues \ {"ante"} : d \in Held(q', m)
    BY <1>5, <1>13, <2>2 DEF Placed
  <2> QED
    BY <2>1, <2>2 DEF Placed
<1>15. \A d \in Known : Opens(d)' <=> Opens(d)
  <2> SUFFICES ASSUME NEW d \in Known PROVE Opens(d)' <=> Opens(d)
    OBVIOUS
  <2>1. CASE ec[d].parent = 0
    BY <1>8, <2>1 DEF Opens
  <2>2. CASE ec[d].parent # 0
    <3>1. ec[d].parent \in Known /\ ec'[ec[d].parent].kids = ec[ec[d].parent].kids
      BY <1>8, <1>11, <2>2, Numbers
    <3> QED
      BY <1>8, <3>1 DEF Opens
  <2> QED
    BY <2>1, <2>2
<1>16. Columns'
  <2>1. ASSUME NEW d \in Known, Placed(d)
        PROVE  /\ ec'[d].aees # "NOTHING" /\ ec'[d].width <= graphWidth'
               /\ ~ Opens(d)' => ec'[d].width = ec'[ec'[d].parent].width
    <3>1. ~ Opens(d) => ec[d].parent \in Known
      BY Numbers DEF Opens
    <3> QED
      BY <1>7, <1>8, <1>15, <2>1, <3>1 DEF Columns
  <2>2. ASSUME NEW c \in Known, NEW d \in Known, Placed(c), Placed(d), c # d,
               ec'[c].width = ec'[d].width
        PROVE  ec'[c].height # ec'[d].height /\ (Opens(d)' => ec'[d].height < ec'[c].height)
    BY <1>8, <1>15, <2>2 DEF Columns
  <2> QED
    BY <1>14, <2>1, <2>2 DEF Columns
<1>17. InTurn'
  <2>1. q'["ante"] = q["ante"] /\ Held(q', "ante") = Held(q, "ante")
    <3>1. q \in [Queues -> Seq(Known)]
      BY KnownPlaces
    <3> QED
      BY <1>1, <3>1 DEF Move, Add, Drop, Queues, Held
  <2>2. pc = "evaluate" /\ pc' = pc
    BY Zenon DEF Evaluate
  <2>3. ASSUME NEW i \in DOMAIN q["ante"] PROVE q["ante"][i] \in Known
    BY KnownPlaces, PlacesType DEF Queues
  <2>4. \A k : k \in Range(kids) \/ k \in Held(q, "ante") => k \in Known
    BY KnownPlaces DEF Queues
  <2>5. \A i, j \in DOMAIN q'["ante"] :
          i < j /\ ec'[q'["ante"][i]].parent = ec'[q'["ante"][j]].parent => q'["ante"][i] < q'["ante"][j]
    BY <1>8, <2>1, <2>3 DEF InTurn
  <2>6. ASSUME NEW k \in Known, k \in Range(kids) \/ k \in Held(q, "ante")
        PROVE  /\ ec'[k].parent # 0 /\ k \in Range(ec'[ec'[k].parent].kids)
               /\ \A d \in Known' : Placed(d)' /\ ec'[d].parent = ec'[k].parent => d < k
    <3>1. /\ ec[k].parent # 0 /\ k \in Children(ec[k].parent)
          /\ \A d \in Known : Placed(d) /\ ec[d].parent = ec[k].parent => d < k
      BY <2>6 DEF InTurn, Pending
    <3>2. ec[k].parent \in Known /\ ec[k].parent # e
      BY <1>11, <3>1, Numbers
    <3> QED
      BY <1>8, <1>14, <3>1, <3>2 DEF Children
  <2> QED
    BY <1>1, <2>1, <2>2, <2>4, <2>5, <2>6 DEF InTurn, Pending, Children
<1> QED
  BY <1>12, <1>16, <1>17

\* No child of a result has a place before it is finalized.
LEMMA NoPlaceBefore ==
  ASSUME TypeOK, Kin, Columns, NEW r \in Known,
         \A k \in Children(r) : Free(k, Queues \ {"ante"}), NEW d \in Known, ec[d].parent = r
  PROVE  ~ Placed(d)
<1> SUFFICES ASSUME Placed(d) PROVE FALSE
  OBVIOUS
<1>1. ec[d].parent # 0 /\ ec[d].aees # "NOTHING"
  BY Numbers DEF Columns
<1>2. d \in Children(r)
  BY <1>1 DEF Kin, Children
<1> QED
  BY <1>2 DEF Free, Placed

\* The children a unit selects come in their order, and none of them has a place.
LEMMA SelectorPlaces ==
  ASSUME OneSelector, TypeOK, OwnersInv, Kin, InTurn, Columns, SelectorPostfilter
  PROVE  Kin' /\ InTurn' /\ Columns'
<1>1. /\ pc = "unitPostfilter" /\ pc' = "unitPostfilter" /\ cur <= Len(q["result"])
      /\ UNCHANGED <<ec, kids, graphWidth>>
      /\ unit <= Len(PostUnits) /\ PostUnits[unit] \in Selectors
  BY DEF SelectorPostfilter, Postfiltering, countVars
<1>2. PICK s \in SomeOf(ec[q["result"][cur]].kids) : q' = [q EXCEPT !["ante"] = @ \o s]
  BY DEF SelectorPostfilter
<1>3. /\ q \in [Queues -> Seq(Known)] /\ {"result", "ante"} \subseteq Queues
      /\ cur \in Nat \ {0} /\ unit \in Nat \ {0}
  BY KnownPlaces DEF Queues
<1>4. PICK r \in Known : r = q["result"][cur] /\ cur \in DOMAIN q["result"]
  <2>1. cur \in DOMAIN q["result"]
    BY <1>1, <1>3, LenProperties
  <2> QED
    BY <1>3, <2>1, PlacesType
<1>5. ~ Selected(cur)
  <2>1. unit \in DOMAIN PostUnits
    BY <1>1, <1>3, UnitsAssumption, LenProperties
  <2>2. \A n \in DOMAIN PostUnits : PostUnits[n] \in Selectors => n = unit
    BY <1>1, <2>1 DEF OneSelector
  <2> QED
    BY <1>3, <2>2 DEF Selected
<1>6. \A k \in Children(r) : Free(k, Queues)
  BY <1>1, <1>4, <1>5 DEF OwnersInv, ResultsFree, Free, Filtering
<1>7. /\ ec[r].kids \in Seq(Nat) /\ ec[r].kids \in Seq(Known) /\ Increasing(ec[r].kids)
      /\ \A k \in Children(r) : ec[k].parent = r /\ k \in Known
  BY Numbers DEF Kin, OwnersInv, Family
<1>8. s \in Seq(Known) /\ Increasing(s) /\ Range(s) \subseteq Children(r)
  <2>1. Different(ec[r].kids)
    BY <1>7, IncreasingFirst
  <2> QED
    BY <1>2, <1>4, <1>7, <2>1, SomeOfType, SomeOfIncreasing, SomeOfPlaces DEF Children
<1>9. PICK a \in Seq(Known) : a = q["ante"]
  BY <1>3
<1>10. /\ q'["ante"] = a \o s /\ \A n \in Queues \ {"ante"} : q'[n] = q[n]
  BY <1>2, <1>3, <1>9
<1>11. Kin' /\ Columns'
  <2>1. \A c \in Known : Placed(c)' => Placed(c)
    BY <1>1, <1>10 DEF Placed, Held
  <2> QED
    BY <1>1, <2>1, ColumnsKept
<1>12. /\ DOMAIN a = 1 .. Len(a) /\ DOMAIN s = 1 .. Len(s) /\ Len(a) \in Nat /\ Len(s) \in Nat
       /\ DOMAIN (a \o s) = 1 .. Len(a) + Len(s)
       /\ \A i \in 1 .. Len(a) + Len(s) :
            (a \o s)[i] = IF i <= Len(a) THEN a[i] ELSE s[i - Len(a)]
  BY <1>8, <1>9, LenProperties, ConcatProperties
<1>13. ASSUME NEW i \in DOMAIN (a \o s)
       PROVE  \/ i \in DOMAIN a /\ i <= Len(a) /\ (a \o s)[i] = a[i]
              \/ i - Len(a) \in DOMAIN s /\ ~(i <= Len(a)) /\ (a \o s)[i] = s[i - Len(a)]
  BY <1>12
<1>14. ASSUME NEW i \in DOMAIN s
       PROVE  s[i] \in Children(r) /\ s[i] \in Known /\ ec[s[i]].parent = r
  BY <1>7, <1>8 DEF Range
<1>15. ASSUME NEW i \in DOMAIN a PROVE Pending(a[i]) /\ a[i] \in Known /\ ec[a[i]].parent # r
  <2>1. a[i] \in Held(q, "ante") /\ a[i] \in Known
    BY <1>3, <1>9, PlacesType DEF Held
  <2>2. Pending(a[i])
    BY <2>1 DEF Pending
  <2>3. a[i] \in Children(ec[a[i]].parent)
    BY <2>1, <2>2 DEF InTurn
  <2>4. a[i] \notin Children(r)
    BY <1>3, <1>6, <2>1 DEF Free
  <2> QED
    BY <2>1, <2>2, <2>3, <2>4
<1>16. ASSUME NEW i \in DOMAIN (a \o s), NEW j \in DOMAIN (a \o s), i < j,
              ec[(a \o s)[i]].parent = ec[(a \o s)[j]].parent
       PROVE  (a \o s)[i] < (a \o s)[j]
  <2>1. CASE i <= Len(a) /\ j <= Len(a)
    BY <1>9, <1>13, <1>16, <2>1 DEF InTurn
  <2>2. CASE ~(i <= Len(a)) /\ ~(j <= Len(a))
    <3>1. /\ i - Len(a) \in DOMAIN s /\ j - Len(a) \in DOMAIN s /\ i - Len(a) < j - Len(a)
          /\ (a \o s)[i] = s[i - Len(a)] /\ (a \o s)[j] = s[j - Len(a)]
      BY <1>12, <1>13, <1>16, <2>2
    <3> QED
      BY <1>8, <3>1 DEF Increasing
  <2>3. CASE i <= Len(a) /\ ~(j <= Len(a))
    BY <1>13, <1>14, <1>15, <1>16, <2>3
  <2>4. CASE ~(i <= Len(a)) /\ j <= Len(a)
    BY <1>12, <1>16, <2>4
  <2> QED
    BY <2>1, <2>2, <2>3, <2>4
<1>17. ASSUME NEW k \in Known, k \in Range(kids) \/ k \in Held(q', "ante")
       PROVE  /\ ec[k].parent # 0 /\ k \in Children(ec[k].parent)
              /\ \A d \in Known : Placed(d)' /\ ec[d].parent = ec[k].parent => d < k
  <2>1. Pending(k) \/ k \in Range(s)
    <3>1. CASE k \in Range(kids)
      BY <3>1 DEF Pending
    <3>2. CASE k \in Held(q', "ante")
      <4>1. PICK i \in DOMAIN (a \o s) : k = (a \o s)[i]
        BY <1>10, <3>2 DEF Held
      <4> QED
        BY <1>13, <1>15, <4>1 DEF Range
    <3> QED
      BY <1>17, <3>1, <3>2
  <2>2. \A d \in Known : Placed(d)' => Placed(d)
    BY <1>1, <1>10 DEF Placed, Held
  <2>3. CASE Pending(k)
    BY <2>2, <2>3 DEF InTurn
  <2>4. CASE k \in Range(s)
    <3>1. k \in Children(r) /\ ec[k].parent = r /\ r # 0
      BY <1>7, <1>8, <2>4, Numbers
    <3>2. \A c \in Children(r) : Free(c, Queues \ {"ante"})
      BY <1>6 DEF Free
    <3>3. \A d \in Known : ec[d].parent = r => ~ Placed(d)
      BY <3>2, NoPlaceBefore
    <3> QED
      BY <2>2, <3>1, <3>3
  <2> QED
    BY <2>1, <2>3, <2>4
<1>18. InTurn'
  <2>1. Known' = Known
    BY <1>1 DEF Known
  <2>2. ASSUME NEW k \in Known, k \in Range(kids') \/ k \in Held(q', "ante")
        PROVE  /\ ec'[k].parent # 0 /\ k \in Range(ec'[ec'[k].parent].kids)
               /\ \A d \in Known : Placed(d)' /\ ec'[d].parent = ec'[k].parent => d < k
    BY <1>1, <1>17, <2>2 DEF Children
  <2>3. \A i, j \in DOMAIN q'["ante"] :
          i < j /\ ec'[q'["ante"][i]].parent = ec'[q'["ante"][j]].parent => q'["ante"][i] < q'["ante"][j]
    BY <1>1, <1>10, <1>16
  <2> QED
    BY <1>1, <2>1, <2>2, <2>3 DEF InTurn, Pending, Children
<1> QED
  BY <1>11, <1>18

\* The children of the next result come in their order, and none of them has a place.
LEMMA PopResultPlaces ==
  ASSUME TypeOK, OwnersInv, Kin, InTurn, Columns, PopResult
  PROVE  Kin' /\ InTurn' /\ Columns'
<1>1. /\ pc = "finalizeResult" /\ pc' = "finalizeResult" /\ q["result"] # <<>> /\ kids = <<>>
      /\ UNCHANGED <<ec, graphWidth>> /\ kids' = ec[Head(q["result"])].kids /\ q' = Drop(q, "result", 1)
  BY DEF PopResult, countVars
<1>2. /\ q \in [Queues -> Seq(Known)] /\ Disjoint(q) /\ "result" \in Queues
      /\ 1 \in 1 .. Len(q["result"]) /\ q["result"] \in Seq(Known)
  <2>1. q \in [Queues -> Seq(Known)] /\ Disjoint(q) /\ "result" \in Queues
    BY DEF OwnersInv, Lists, Queues
  <2> QED
    BY <1>1, <2>1, EndPlaces
<1>3. PICK r \in Known : r = q["result"][1] /\ r = Head(q["result"]) /\ 1 \in DOMAIN q["result"]
  BY <1>1, <1>2, HeadTailProperties, LenProperties, PlacesType
<1>4. \A k \in Children(r) : Free(k, Queues \ {"ante"})
  BY <1>1, <1>3 DEF OwnersInv, ResultsFree, Filtering
<1>5. \A n \in Queues : Held(q', n) \subseteq Held(q, n)
  BY <1>1, <1>2, DropDisjoint
<1>6. q'["ante"] = <<>> /\ q["ante"] = <<>>
  BY <1>1, <1>2 DEF InTurn, Drop, Queues
<1>7. \A c \in Known : Placed(c)' => Placed(c)
  BY <1>1, <1>5 DEF Placed
<1>8. Kin' /\ Columns'
  BY <1>1, <1>7, ColumnsKept
<1>9. Increasing(kids') /\ \A k \in Range(kids') : ec[k].parent = r /\ k \in Children(r) /\ r # 0
  BY <1>1, <1>3, Numbers DEF Kin, Children, OwnersInv, Family
<1>10. \A d \in Known : ec[d].parent = r => ~ Placed(d)
  BY <1>4, NoPlaceBefore
<1>11. InTurn'
  <2>1. Known' = Known /\ \A i \in DOMAIN q'["ante"] : FALSE
    BY <1>1, <1>6 DEF Known
  <2>2. ASSUME NEW k \in Known, k \in Range(kids') \/ k \in Held(q', "ante")
        PROVE  /\ ec'[k].parent # 0 /\ k \in Range(ec'[ec'[k].parent].kids)
               /\ \A d \in Known : Placed(d)' /\ ec'[d].parent = ec'[k].parent => d < k
    <3>1. k \in Range(kids')
      BY <1>6, <2>2 DEF Held
    <3>2. ec[k].parent = r /\ k \in Range(ec[r].kids) /\ r # 0
      BY <1>9, <3>1 DEF Children
    <3> QED
      BY <1>1, <1>7, <1>10, <3>2
  <2> QED
    BY <1>1, <1>6, <1>9, <2>1, <2>2 DEF InTurn, Pending, Children
<1> QED
  BY <1>8, <1>11

\* The other postfilters, the choice of what is finalized and the push give no place.
LEMMA WalkPlaces ==
  ASSUME TypeOK, OwnersInv, Kin, InTurn, Columns,
         \/ FilterPostfilter \/ NextPostfilter \/ EndPostfiltering
         \/ EndFinalize \/ PushWaiting \/ AnalyseResult
  PROVE  Kin' /\ InTurn' /\ Columns'
<1>1. /\ q \in [Queues -> Seq(Known)] /\ Disjoint(q) /\ cur \in Nat \ {0}
      /\ {"result", "failed", "main", "waiting", "analysed", "ante"} \subseteq Queues
  BY KnownPlaces DEF OwnersInv, Lists, Queues
<1>2. /\ UNCHANGED <<ec, graphWidth, kids>>
      /\ pc' \in {"finalizeResult", "crashed"} => q["ante"] = <<>>
  BY DEF FilterPostfilter, NextPostfilter, EndPostfiltering, EndFinalize, PushWaiting, AnalyseResult,
     Postfiltering, Goto, queueVars, countVars, walkVars
<1>3. CASE q' = q
  BY <1>2, <1>3, PlacesKept DEF Placed
<1>4. CASE FilterPostfilter /\ q' = Move(q, "result", cur, "failed")
  <2>1. cur \in 1 .. Len(q["result"]) /\ "failed" \in Queues \ {"result"}
    BY <1>1, <1>4, LenProperties DEF FilterPostfilter
  <2>2. /\ \A n \in Queues \ {"failed"} : Held(q', n) \subseteq Held(q, n) \ {q["result"][cur]}
        /\ Held(q', "failed") \subseteq Held(q, "failed") \cup {q["result"][cur]}
    BY <1>1, <1>4, <2>1, MoveDisjoint
  <2>3. q["result"][cur] \in Held(q, "result")
    BY <1>1, <2>1, PlacesType DEF Held
  <2>4. \A c \in Known : Placed(c)' => Placed(c)
    <3>1. ASSUME NEW c \in Known, NEW n \in Queues \ {"ante"}, c \in Held(q', n)
          PROVE  \E m \in Queues \ {"ante"} : c \in Held(q, m)
      <4>1. c \in Held(q, n) \/ c \in Held(q, "result")
        BY <2>2, <2>3, <3>1
      <4>2. "result" \in Queues \ {"ante"}
        BY DEF Queues
      <4> QED
        BY <4>1, <4>2
    <3> QED
      BY <1>2, <3>1 DEF Placed
  <2>5. q'["ante"] = q["ante"]
    BY <1>1, <1>4 DEF Move, Add, Drop
  <2> QED
    BY <1>2, <2>4, <2>5, PlacesKept
<1>5. CASE PushWaiting
  <2> DEFINE r == Splice(q, "main", "waiting")
  <2>1. q' = Clear(r, {"result"}) /\ {"main", "waiting"} \subseteq Passing
    BY <1>5 DEF PushWaiting, Passing, Queues
  <2>2. Flows(Known, q, r)
    BY <2>1, SpliceFlows DEF OwnersInv
  <2> HIDE DEF r
  <2>3. \A n \in Queues : Held(q', n) \subseteq Held(r, n)
    <3>1. r \in [Queues -> Seq(Known)] /\ Disjoint(r)
      BY <2>2 DEF Flows, Lists
    <3>2. {"result"} \in SUBSET Queues
      BY <1>1
    <3> QED
      BY <2>1, <3>1, <3>2, ClearDisjoint
  <2>4. q'["ante"] = q["ante"]
    BY <1>1, <2>1, <2>2 DEF Clear, Flows
  <2>5. \A c \in Known : Placed(c)' => Placed(c)
    <3>1. ASSUME NEW c \in Known, NEW n \in Queues \ {"ante"}, c \in Held(q', n)
          PROVE  \E m \in Queues \ {"ante"} : c \in Held(q, m)
      <4>1. c \in Held(r, n)
        BY <2>3, <3>1
      <4>2. /\ Passing \subseteq Queues \ {"ante"} /\ "failed" \in Queues \ {"ante"}
            /\ n \in Passing \/ n = "failed" \/ n \in {"analysed", "result"}
        BY DEF Passing, Queues
      <4>3. CASE n \in Passing
        BY <2>2, <4>1, <4>2, <4>3 DEF Flows
      <4>4. CASE n = "failed"
        <5>1. \E m \in Passing \cup {"failed"} : c \in Held(q, m)
          BY <2>2, <4>1, <4>4 DEF Flows
        <5> QED
          BY <4>2, <5>1
      <4>5. CASE n \in {"analysed", "result"}
        <5>1. Held(r, n) = Held(q, n)
          BY <2>2, <4>5 DEF Flows, Held
        <5> QED
          BY <4>1, <5>1
      <4> QED
        BY <4>2, <4>3, <4>4, <4>5
    <3> QED
      BY <1>2, <3>1 DEF Placed
  <2> QED
    BY <1>2, <2>4, <2>5, PlacesKept
<1>6. CASE AnalyseResult
  <2>1. q' = Splice(q, "analysed", "result")
    BY <1>6 DEF AnalyseResult
  <2>2. "analysed" \in Queues /\ "result" \in Queues
    BY DEF Queues
  <2>3. /\ Disjoint(Splice(q, "analysed", "result"))
        /\ \A n \in Queues : n # "analysed" /\ n # "result" =>
             Held(Splice(q, "analysed", "result"), n) = Held(q, n)
        /\ Held(Splice(q, "analysed", "result"), "analysed") = {}
        /\ Held(Splice(q, "analysed", "result"), "result") = Held(q, "result") \cup Held(q, "analysed")
    <3>1. q \in [Queues -> Seq(Known)] /\ Disjoint(q)
      BY <1>1
    <3> QED
      BY <2>2, <3>1, SpliceDisjoint
  <2>4. \A c \in Known : Placed(c)' => Placed(c)
    <3>1. ASSUME NEW c \in Known, NEW n \in Queues \ {"ante"}, c \in Held(q', n)
          PROVE  \E m \in Queues \ {"ante"} : c \in Held(q, m)
      <4>1. c \in Held(q, n) \/ c \in Held(q, "analysed")
        BY <2>1, <2>3, <3>1
      <4>2. "analysed" \in Queues \ {"ante"}
        BY DEF Queues
      <4> QED
        BY <4>1, <4>2
    <3> QED
      BY <1>2, <3>1 DEF Placed
  <2>5. q'["ante"] = q["ante"]
    BY <1>1, <2>1 DEF Splice
  <2> QED
    BY <1>2, <2>4, <2>5, PlacesKept
<1> QED
  BY <1>3, <1>4, <1>5, <1>6 DEF FilterPostfilter, NextPostfilter, EndPostfiltering, EndFinalize, queueVars

\* Every step keeps the places.
LEMMA PlacesStep ==
  ASSUME NoReturn, TypeOK, StopInv, OwnersInv, PlacesInv, [Next]_vars
  PROVE  PlacesInv'
<1> OneSelector /\ JumpUnits = <<>>
  BY DEF NoReturn
<1> USE DEF PlacesInv
<1>1. CASE UNCHANGED vars
  BY <1>1 DEF vars, queueVars, walkVars, countVars, Kin, InTurn, FirstStep, Columns, Known, Children,
     Placed, Pending, Opens
<1>2. CASE Next
  <2>1. FirstStep'
    <3>1. Lists(Known, q)'
      BY OwnersStep DEF OwnersInv
    <3> QED
      BY <1>2, <3>1, FirstStepStep
  <2>2. CASE Evaluate
    BY <2>1, <2>2, EvaluatePlaces
  <2>3. CASE FinalizeChild
    BY <1>2, <2>1, <2>3, GraphFrame, FinalizeChildPlaces
  <2>4. CASE FinalizeSelected
    BY <1>2, <2>1, <2>4, GraphFrame, FinalizeSelectedPlaces
  <2>5. CASE ~ (Evaluate \/ FinalizeChild \/ FinalizeSelected)
    <3>1. UNCHANGED <<ec, graphWidth>>
      BY <1>2, <2>5, GraphFrame
    <3>2. CASE Prefilter \/ Fire \/ Handle \/ AnalyseReady \/ PopWaiting \/ NothingToRefill
               \/ HandOver \/ EndEvaluate \/ NoResult \/ Loop
      <4>1. /\ Flows(Known, q, q') /\ UNCHANGED <<ec, kids>> /\ pc' \notin Late
        BY <3>2, PrefilterFlows, FireFlows, HandleFlows, RestFlows DEF OwnersInv
      <4> QED
        BY <2>1, <3>1, <4>1, FlowPlaces
    <3>3. CASE \/ FilterPostfilter \/ NextPostfilter \/ EndPostfiltering
               \/ EndFinalize \/ PushWaiting \/ AnalyseResult
      BY <2>1, <3>3, WalkPlaces
    <3>4. CASE SelectorPostfilter \/ PopResult
      BY <2>1, <3>4, SelectorPlaces, PopResultPlaces
    <3>5. CASE Terminated
      BY <1>1, <3>5 DEF Terminated
    <3> QED
      BY <1>2, <2>5, <3>2, <3>3, <3>4, <3>5 DEF Next, Step, Postfilter
  <2> QED
    BY <2>2, <2>3, <2>4, <2>5
<1> QED
  BY <1>1, <1>2

\* A fresh root: one context, in the first column.
LEMMA PlacesInit ==
  ASSUME Init, Leaves = 0
  PROVE  PlacesInv
<1>1. /\ ec = << EC(0, 0, 1, "OK") >> /\ kids = <<>> /\ pc = "analyseReady"
      /\ stepCount = 0 /\ graphWidth = 1
      /\ q["ante"] = <<>> /\ q["working"] = <<>>
  BY DEF Init, InitialGraph, Queues
<1>2. Known = {1} /\ ec[1] = EC(0, 0, 1, "OK")
  BY <1>1 DEF Known
<1>3. /\ ec[1].parent = 0 /\ ec[1].width = 1 /\ ec[1].aees = "OK" /\ ec[1].kids = <<>>
  BY <1>2 DEF EC
<1>4. Kin
  BY <1>2, <1>3 DEF Kin, Increasing
<1>5. InTurn
  BY <1>1 DEF InTurn, Increasing, Pending, Held, Range
<1>6. FirstStep
  BY <1>1, <1>2, <1>3 DEF FirstStep, Held
<1>7. Columns
  BY <1>1, <1>2, <1>3 DEF Columns, Opens
<1> QED
  BY <1>4, <1>5, <1>6, <1>7 DEF PlacesInv

\* What the theorems below rest on.
LEMMA FreshPlaces ==
  Spec => [](TypeOK /\ StopInv /\ (NoReturn => OwnersInv) /\ (FreshRoot => PlacesInv))
<1>1. Init => (FreshRoot => PlacesInv)
  BY PlacesInit DEF FreshRoot
<1>2. /\ TypeOK /\ StopInv /\ (NoReturn => OwnersInv) /\ (FreshRoot => PlacesInv) /\ [Next]_vars
      => (FreshRoot => PlacesInv)'
  BY PlacesStep DEF FreshRoot, NoReturn, OneSelector
<1> QED
  BY <1>1, <1>2, NoReturnOwners, PTL DEF Spec

\* setContextWidth and the numbering of columns, without a hit-or-jump unit: whatever the order in
\* which the pool gives the contexts and whatever the filters and the selecting unit drop, the
\* first child left takes the column of its parent, any other a new one, and no two evaluated
\* contexts share a place.
THEOREM PlacesDistinct == Spec => []DistinctPlaces
<1>1. (FreshRoot => PlacesInv) => DistinctPlaces
  BY DEF PlacesInv, Columns, Placed, DistinctPlaces
<1> QED
  BY <1>1, FreshPlaces, PTL

-----------------------------------------------------------------------------
(* The limits on the height and the width. *)

\* What a filter leaves in ready comes in the same order, from its place on.
LEMMA ReadyLeft ==
  ASSUME TypeOK, cur <= Len(Ready), NEW b \in {"failed", "leaf"},
         Take(b) \/ (q' = Drop(q, "ready", cur) /\ UNCHANGED <<pc, ec, walkVars>>)
  PROVE  /\ UNCHANGED <<pc, ec, cur>>
         /\ Held(q', "ready") \subseteq Held(q, "ready")
         /\ \A i \in DOMAIN q'["ready"] :
              i < cur => i \in DOMAIN q["ready"] /\ q'["ready"][i] = q["ready"][i]
<1>1. /\ q \in [Queues -> Seq(Known)] /\ {"ready", "failed", "leaf"} \subseteq Queues
      /\ cur \in 1 .. Len(q["ready"]) /\ q["ready"] \in Seq(Known)
  BY KnownPlaces, LenProperties DEF Ready, Queues
<1>2. q'["ready"] = RemoveAt(q["ready"], cur) /\ UNCHANGED <<pc, ec, cur>>
  BY <1>1 DEF Take, Move, Add, Drop, walkVars
<1>3. PICK s \in Seq(Known) : s = q["ready"]
  BY <1>1
<1>4. /\ RemoveAt(s, cur) \in Seq(Known) /\ Len(RemoveAt(s, cur)) = Len(s) - 1
      /\ \A j \in 1 .. Len(s) - 1 : RemoveAt(s, cur)[j] = IF j < cur THEN s[j] ELSE s[j + 1]
      /\ Range(RemoveAt(s, cur)) \subseteq Range(s)
  BY <1>1, <1>3, RemoveAtType, RemoveAtElements, RemoveAtPlaces
<1>5. DOMAIN RemoveAt(s, cur) = 1 .. Len(s) - 1 /\ DOMAIN s = 1 .. Len(s) /\ Len(s) \in Nat
  BY <1>4, LenProperties
<1>6. Held(q', "ready") \subseteq Held(q, "ready")
  BY <1>2, <1>3, <1>4, RangeHeld DEF Held, Range
<1>7. \A i \in DOMAIN q'["ready"] :
        i < cur => i \in DOMAIN q["ready"] /\ q'["ready"][i] = q["ready"][i]
  BY <1>2, <1>3, <1>4, <1>5
<1> QED
  BY <1>2, <1>6, <1>7

\* Only what is within the limits passes the main prefilter.
LEMMA PrefilterFits ==
  ASSUME TypeOK, OwnersInv, FitInv, Prefilter
  PROVE  FitInv'
<1>1. UNCHANGED ec /\ q'["working"] = q["working"]
  BY PrefilterFlows, PrefilterFrame DEF OwnersInv, Frame
<1>2. /\ Known' = Known /\ Held(q', "working") = Held(q, "working")
      /\ \A c : Fits(c)' <=> Fits(c)
  BY <1>1 DEF Known, Held, Fits
<1>3. q \in [Queues -> Seq(Known)] /\ "ready" \in Queues /\ cur \in Nat \ {0}
  BY KnownPlaces DEF Queues
<1>4. /\ DOMAIN q["ready"] = 1 .. Len(q["ready"]) /\ Len(q["ready"]) \in Nat
      /\ \A i \in DOMAIN q["ready"] : q["ready"][i] \in Known
  BY <1>3, PlacesType
<1>5. CASE \E b \in {"failed", "leaf"} :
             /\ cur <= Len(Ready)
             /\ Take(b) \/ (q' = Drop(q, "ready", cur) /\ UNCHANGED <<pc, ec, walkVars>>)
  <2>1. /\ UNCHANGED <<pc, cur>> /\ Held(q', "ready") \subseteq Held(q, "ready")
        /\ \A i \in DOMAIN q'["ready"] :
             i < cur => i \in DOMAIN q["ready"] /\ q'["ready"][i] = q["ready"][i]
    BY <1>5, ReadyLeft
  <2> QED
    BY <1>1, <1>2, <2>1 DEF FitInv
<1>6. CASE MainPrefilter /\ Keep
  <2>1. pc = "mainPrefilter" /\ pc' = pc /\ cur <= Len(q["ready"]) /\ cur' = cur + 1 /\ q' = q
    BY <1>6 DEF MainPrefilter, Walking, Keep, queueVars, Ready
  <2>2. WithinLimits(q["ready"][cur]) \/ Take("failed")
    BY <1>6 DEF MainPrefilter, Ready
  <2>3. ~ Take("failed")
    BY <1>3, <2>1 DEF Take, walkVars
  <2>4. Fits(q["ready"][cur])
    <3>1. q["ready"][cur] \in Known
      BY <1>3, <1>4, <2>1
    <3>2. ec[q["ready"][cur]].height \in Nat /\ ec[q["ready"][cur]].width \in Nat
      BY <3>1, Numbers
    <3> QED
      BY <2>2, <2>3, <3>2, LimitsAssumption DEF WithinLimits, Fits
  <2>5. \A i \in DOMAIN q["ready"] : i < cur + 1 => Fits(q["ready"][i])
    BY <1>3, <1>4, <2>1, <2>4 DEF FitInv
  <2> QED
    BY <1>1, <1>2, <2>1, <2>5 DEF FitInv, Filtered
<1>7. CASE q' = q /\ pc \in Filtered /\ pc' \in Filtered
  <2>1. pc' # "mainPrefilter"
    BY <1>7 DEF Filtered
  <2> QED
    BY <1>1, <1>2, <1>7, <2>1 DEF FitInv
<1>8. CASE EndMainPrefilter
  <2>1. /\ pc = "mainPrefilter" /\ cur > Len(q["ready"]) /\ q' = q /\ pc' \in Filtered
        /\ pc' # "mainPrefilter"
    BY <1>8 DEF EndMainPrefilter, EndPrefilter, Walked, queueVars, Filtered, Ready
  <2>2. \A c \in Held(q, "ready") : Fits(c)
    <3> SUFFICES ASSUME NEW i \in DOMAIN q["ready"] PROVE Fits(q["ready"][i])
      BY DEF Held
    <3>1. i < cur
      BY <1>3, <1>4, <2>1
    <3> QED
      BY <2>1, <3>1 DEF FitInv
  <2> QED
    BY <1>1, <1>2, <2>1, <2>2 DEF FitInv
<1>9. CASE MainPrefilter \/ ReadStopScript
  BY <1>5, <1>6, <1>9 DEF MainPrefilter, ReadStopScript, Walking
<1>10. CASE RedundancyPrefilter \/ FilterPrefilter \/ PassPrefilter
  <2>1. cur <= Len(Ready) /\ (Take("failed") \/ (q' = q /\ pc' = pc /\ pc \in Filtered))
    BY <1>10 DEF RedundancyPrefilter, FilterPrefilter, PassPrefilter, Walking, Keep, queueVars, Filtered
  <2> QED
    BY <1>5, <1>7, <2>1
<1>11. CASE JumpPrefilter
  <2>1. /\ cur <= Len(Ready)
        /\ \/ Take("leaf") \/ (q' = q /\ pc' = pc /\ pc \in Filtered)
           \/ q' = Drop(q, "ready", cur) /\ UNCHANGED <<pc, ec, walkVars>>
    BY <1>11 DEF JumpPrefilter, Walking, Keep, queueVars, Filtered
  <2> QED
    BY <1>5, <1>7, <2>1
<1>12. CASE EndRedundancyPrefilter \/ CoveragePrefilterStop \/ NextPrefilter \/ EndPrefiltering
  <2>1. q' = q /\ pc \in Filtered /\ pc' \in Filtered
    BY <1>12 DEF EndRedundancyPrefilter, CoveragePrefilterStop, NextPrefilter, EndPrefiltering, EndPrefilter,
       Walked, Goto, queueVars, Filtered
  <2> QED
    BY <1>7, <2>1
<1> QED
  BY <1>8, <1>9, <1>10, <1>11, <1>12 DEF Prefilter

\* A step that evaluates nothing and lets nothing more into the filters keeps the limits.
LEMMA FitKept ==
  ASSUME ContextsOK', FitInv, UNCHANGED ec, q'["working"] = q["working"],
         pc' = "mainPrefilter" => cur' = 1,
         pc' \in Filtered => \/ q'["ready"] = <<>>
                             \/ pc \in Filtered /\ Held(q', "ready") \subseteq Held(q, "ready")
  PROVE  FitInv'
<1>1. /\ Known' = Known /\ Held(q', "working") = Held(q, "working")
      /\ \A c : Fits(c)' <=> Fits(c)
  BY DEF Known, Held, Fits
<1>2. pc' = "mainPrefilter" => \A i \in DOMAIN q'["ready"] : ~ (i < cur')
  <2> SUFFICES ASSUME pc' = "mainPrefilter", NEW i \in DOMAIN q'["ready"], i < cur' PROVE FALSE
    OBVIOUS
  <2>1. q' \in [Queues -> Seq(Known')]
    BY DEF ContextsOK
  <2>2. i \in Nat \ {0}
    BY <2>1, PlacesType DEF Queues
  <2> QED
    BY <2>2
<1>3. pc' \in Filtered => \A c \in Held(q', "ready") : Fits(c)'
  <2>1. q'["ready"] = <<>> => Held(q', "ready") = {}
    BY DEF Held
  <2> QED
    BY <1>1, <2>1 DEF FitInv
<1>4. /\ \A c \in Known' : ec'[c].eval # 0 => Fits(c)'
      /\ \A c \in Held(q', "working") : Fits(c)'
  BY <1>1 DEF FitInv
<1> QED
  BY <1>2, <1>3, <1>4 DEF FitInv

\* Outside the prefilters only what passed all of them is put to work.
LEMMA RestFits ==
  ASSUME TypeOK, ContextsOK', StopInv, FitInv,
         \/ Fire \/ Handle \/ AnalyseReady \/ PopWaiting \/ NothingToRefill \/ HandOver
         \/ EndEvaluate \/ AnalyseResult \/ NoResult \/ Loop \/ Terminated
  PROVE  FitInv'
<1>1. CASE Fire
  <2>1. /\ UNCHANGED ec
        /\ q' = q \/ (q' = Clear(q, {"ready", "waiting"}) /\ pc' = "handOver")
        /\ pc' = "mainPrefilter" => cur' = 1
        /\ pc' \in Filtered \ {"handOver"} => pc \in Filtered /\ q' = q
        /\ pc' = "handOver" => q' = Clear(q, {"ready", "waiting"})
    BY <1>1 DEF Fire, FireStop, FireRequeueWaiting, NothingToFire, FireGoalReady, NoGoalReady,
       EndGoalReady, FireContinue, EndContinue, FireGoalResult, NoGoalResult, EndGoalResult,
       Goto, queueVars, Filtered
  <2>2. q' = Clear(q, {"ready", "waiting"}) => q'["ready"] = <<>> /\ q'["working"] = q["working"]
    BY QueuesDomain DEF Clear
  <2> QED
    BY <2>1, <2>2, FitKept
<1>2. CASE Handle
  <2>1. q'["working"] = q["working"] /\ UNCHANGED <<pc, ec>> /\ pc # "mainPrefilter"
    BY <1>2, HandleFrame DEF Handle, IgnoreGoal, JumpGoal, JumpGivesUp, JumpBacktracks, JumpSelects,
       Listener, queueVars
  <2>2. pc \in Filtered => q' = q \/ JumpGoal
    BY <1>2 DEF Handle, IgnoreGoal, JumpGoal, JumpGivesUp, JumpBacktracks, JumpSelects,
       Listener, queueVars, Filtered
  <2>3. JumpGoal => q' = q \/ q'["ready"] = <<>>
    BY QueuesDomain DEF JumpGoal, Move, Add, Drop, Clear, Queues
  <2> QED
    BY <2>1, <2>2, <2>3, FitKept
<1>3. CASE HandOver
  <2>1. pc = "handOver" /\ pc' = "evaluate" /\ UNCHANGED ec
        /\ (q' = q \/ q' = Splice(q, "ready", "working"))
    BY <1>3 DEF HandOver, Goto
  <2>2. q["working"] = <<>> /\ \A c \in Held(q, "ready") : Fits(c)
    BY <2>1 DEF StopInv, FitInv, Filtered
  <2>3. Splice(q, "ready", "working")["working"] = <<>> \o q["ready"]
    BY <2>2, QueuesDomain DEF Splice
  <2>4. Held(q', "working") \subseteq Held(q, "working") \cup Held(q, "ready")
    <3>1. q["ready"] \in Seq(Known)
      BY QueuesDomain
    <3>2. <<>> \o q["ready"] = q["ready"]
      BY <3>1
    <3> QED
      BY <2>1, <2>3, <3>2 DEF Held
  <2> QED
    BY <2>1, <2>2, <2>4 DEF FitInv, Fits, Known, Filtered
<1>4. CASE AnalyseReady \/ PopWaiting \/ NothingToRefill \/ EndEvaluate \/ AnalyseResult \/ NoResult \/ Loop
           \/ Terminated
  <2>1. /\ UNCHANGED ec /\ pc' # "mainPrefilter"
        /\ pc' \in Filtered => pc \in Filtered /\ q' = q
    BY <1>4 DEF AnalyseReady, PopWaiting, NothingToRefill, EndEvaluate, AnalyseResult, NoResult,
     Loop, Terminated, queueVars, vars, Filtered, Goto
  <2>2. q'["working"] = q["working"]
    BY <1>4, QueuesDomain DEF AnalyseReady, PopWaiting, NothingToRefill, EndEvaluate, AnalyseResult, NoResult,
     Loop, Terminated, queueVars, vars, Splice, Move, Add, Drop
  <2> QED
    BY <2>1, <2>2, FitKept
<1> QED
  BY <1>1, <1>2, <1>3, <1>4

\* The context evaluated fits, and keeps its place in the graph.
LEMMA EvaluateFits ==
  ASSUME TypeOK, StopInv, OwnersInv, PlacesInv, FitInv, Evaluate
  PROVE  FitInv'
<1>1. /\ 1 \in 1 .. Len(q["working"]) /\ Evaluated \in Known /\ Evaluated = q["working"][1]
      /\ q' = Move(q, "working", 1, "analysed")
      /\ \E l \in Nat : Grows(l)
  BY EvaluateGraph
<1>2. PICK e \in Known : e = Evaluated
  BY <1>1
<1>3. /\ q \in [Queues -> Seq(Known)] /\ Disjoint(q)
      /\ "working" \in Queues /\ "analysed" \in Queues \ {"working"}
  BY DEF OwnersInv, Lists, Queues
<1>4. e \in Held(q, "working") /\ Held(q', "working") \subseteq Held(q, "working")
  <2>1. \A m \in Queues \ {"analysed"} : Held(q', m) \subseteq Held(q, m) \ {q["working"][1]}
    BY <1>1, <1>3, MoveDisjoint
  <2>2. e \in Held(q, "working")
    BY <1>1, <1>2, <1>3, PlacesType DEF Held
  <2> QED
    BY <1>3, <2>1, <2>2
<1>5. InitWidth(e) = ec[e].width
  <2>1. stepCount = 1 => e = 1 /\ ec[e].parent = 0
    BY <1>4, Numbers DEF PlacesInv, FirstStep
  <2> QED
    BY <2>1 DEF InitWidth, SetsWidth
<1>6. /\ \A d \in Known : /\ ec'[d].height = ec[d].height /\ ec'[d].width = ec[d].width
                          /\ d # e => ec'[d].eval = ec[d].eval
      /\ \A d \in Known' \ Known : ec'[d].eval = 0
  BY <1>1, <1>2, <1>5 DEF Grows
<1>7. \A d \in Known : Fits(d)' <=> Fits(d)
  BY <1>6 DEF Fits
<1>8. pc' = "evaluate"
  BY Zenon DEF Evaluate
<1>9. Held(q, "working") \subseteq Known
  BY <1>3, KnownPlaces
<1> QED
  BY <1>4, <1>6, <1>7, <1>8, <1>9 DEF FitInv, Filtered

\* A context that gets its place is not evaluated yet.
LEMMA FinalizeFits ==
  ASSUME TypeOK, StopInv, OwnersInv, FitInv, FinalizeChild \/ FinalizeSelected,
         NEW c \in Known, Settles(c), ec[c].eval = 0
  PROVE  FitInv'
<1>1. \A d \in Known : ec'[d].eval # 0 => ec[d].eval # 0 /\ (Fits(d)' <=> Fits(d))
  BY DEF Settles, Fits
<1>2. Held(q', "working") = {}
  <2>1. Postfilter /\ pc \in {"finalizeResult", "finalizeAnte"}
    BY Zenon DEF FinalizeChild, FinalizeSelected, Postfilter
  <2>2. q["working"] = <<>> /\ q'["working"] = q["working"]
    BY <2>1, PostfilterFrame DEF StopInv, Frame
  <2> QED
    BY <2>2 DEF Held
<1>3. pc' \in {"finalizeResult", "finalizeAnte", "crashed"}
  BY Zenon DEF FinalizeChild, FinalizeSelected
<1> QED
  BY <1>1, <1>2, <1>3 DEF FitInv, Filtered, Settles

LEMMA FitStep ==
  ASSUME TypeOK, StopInv, OwnersInv, PlacesInv, FitInv, [Next]_vars
  PROVE  FitInv'
<1>1. ContextsOK'
  BY ContextsStep
<1>2. CASE UNCHANGED vars
  BY <1>2 DEF vars, queueVars, walkVars, FitInv, Fits, Known
<1>3. CASE Next
  <2>1. CASE Prefilter
    BY <2>1, PrefilterFits
  <2>2. CASE \/ Fire \/ Handle \/ AnalyseReady \/ PopWaiting \/ NothingToRefill \/ HandOver
             \/ EndEvaluate \/ AnalyseResult \/ NoResult \/ Loop \/ Terminated
    BY <1>1, <2>2, RestFits
  <2>3. CASE Evaluate
    BY <2>3, EvaluateFits
  <2>4. CASE FinalizeChild
    <3>1. PICK c \in Known : c = Head(kids) /\ Settles(c)
      BY <1>3, <2>4, GraphFrame
    <3>2. pc = "finalizeResult" /\ kids # <<>>
      BY Zenon, <2>4 DEF FinalizeChild
    <3>3. c \in Range(kids)
      BY <3>1, <3>2, KnownPlaces, EmptySeq, LenProperties DEF Range
    <3>4. ec[c].eval = 0
      BY <3>2, <3>3 DEF OwnersInv, KidsFree, Free
    <3> QED
      BY <2>4, <3>1, <3>4, FinalizeFits
  <2>5. CASE FinalizeSelected
    <3>1. PICK c \in Known : c = Head(q["ante"]) /\ Settles(c)
      BY <1>3, <2>5, GraphFrame
    <3>2. q["ante"] # <<>>
      BY Zenon, <2>5 DEF FinalizeSelected
    <3>3. c \in Held(q, "ante") /\ "ante" \in Passing \cup {"ante"}
      <4>1. "ante" \in Queues /\ q["ante"] \in Seq(Known)
        BY KnownPlaces DEF Queues
      <4>2. 1 \in DOMAIN q["ante"]
        BY <3>2, <4>1, EndPlaces, LenProperties
      <4> QED
        BY <3>1, <3>2, <4>1, <4>2 DEF Held
    <3>4. ec[c].eval = 0
      BY <3>3 DEF OwnersInv, Unevaluated
    <3> QED
      BY <2>5, <3>1, <3>4, FinalizeFits
  <2>6. CASE \/ FilterPostfilter \/ SelectorPostfilter \/ NextPostfilter \/ EndPostfiltering
             \/ PopResult \/ EndFinalize \/ PushWaiting
    <3>1. /\ UNCHANGED ec /\ pc' # "mainPrefilter" /\ pc' \notin Filtered
      BY <2>6 DEF FilterPostfilter, SelectorPostfilter, NextPostfilter, EndPostfiltering, PopResult,
       EndFinalize, PushWaiting, Postfiltering, Goto, Filtered, queueVars
    <3>2. q'["working"] = q["working"]
      BY <2>6, PostfilterFrame DEF Postfilter, Frame
    <3> QED
      BY <1>1, <3>1, <3>2, FitKept
  <2> QED
    BY <1>3, <2>1, <2>2, <2>3, <2>4, <2>5, <2>6 DEF Next, Step, Postfilter
<1> QED
  BY <1>2, <1>3

\* Without a hit-or-jump unit, whatever the pool gives passes the main prefilter before its
\* evaluation, and its place does not move in between.
THEOREM LimitsKept == Spec => []EvaluatedWithinLimits
<1>1. Init => (FreshRoot => FitInv)
  <2> SUFFICES ASSUME Init, Leaves = 0 PROVE FitInv
    BY DEF FreshRoot
  <2>1. ec = << EC(0, 0, 1, "OK") >> /\ pc = "analyseReady" /\ q["working"] = <<>>
    BY DEF Init, InitialGraph, Queues
  <2>2. \A c \in Known : ec[c].eval = 0
    BY <2>1 DEF Known, EC
  <2> QED
    BY <2>1, <2>2 DEF FitInv, Filtered, Held
<1>2. /\ TypeOK /\ StopInv /\ (NoReturn => OwnersInv) /\ (FreshRoot => PlacesInv)
      /\ (FreshRoot => FitInv) /\ [Next]_vars
      => (FreshRoot => FitInv)'
  BY FitStep DEF FreshRoot, NoReturn, OneSelector
<1>3. (FreshRoot => FitInv) => EvaluatedWithinLimits
  BY DEF FitInv, Fits, EvaluatedWithinLimits
<1> QED
  BY <1>1, <1>2, <1>3, FreshPlaces, PTL DEF Spec

-----------------------------------------------------------------------------
(* No successor is forgotten. *)

\* Erasing a place loses nothing but what was there.
LEMMA RemoveAtRange ==
  ASSUME NEW S, NEW s \in Seq(S), NEW i \in 1 .. Len(s)
  PROVE  Range(RemoveAt(s, i)) \cup {s[i]} = Range(s)
<1>1. { RemoveAt(s, i)[j] : j \in DOMAIN RemoveAt(s, i) } \cup {s[i]} = { s[j] : j \in DOMAIN s }
  BY RemoveAtHeld
<1> QED
  BY <1>1 DEF Range

\* What leaves a list for another is in the other.
LEMMA MoveKeeps ==
  ASSUME NEW S, NEW s \in [Queues -> Seq(S)], NEW a \in Queues, NEW b \in Queues \ {a},
         NEW i \in 1 .. Len(s[a])
  PROVE  /\ \A n \in Queues \ {a} : Held(s, n) \subseteq Held(Move(s, a, i, b), n)
         /\ Held(s, a) \subseteq Held(Move(s, a, i, b), a) \cup Held(Move(s, a, i, b), b)
         /\ s[a][i] \in Held(Move(s, a, i, b), b)
<1> DEFINE t == Move(s, a, i, b)
<1>1. /\ \A n \in Queues \ {a, b} : t[n] = s[n]
      /\ t[a] = RemoveAt(s[a], i) /\ t[b] = Append(s[b], s[a][i])
      /\ s[a] \in Seq(S) /\ s[b] \in Seq(S) /\ s[a][i] \in S
  BY DEF Move, Add, Drop
<1> HIDE DEF t
<1>2. \A n \in Queues \ {a, b} : Held(t, n) = Held(s, n)
  BY <1>1 DEF Held
<1>3. Held(t, a) \cup {s[a][i]} = Held(s, a)
  <2>1. Range(RemoveAt(s[a], i)) \cup {s[a][i]} = Range(s[a])
    BY <1>1, RemoveAtRange
  <2> QED
    BY <1>1, <2>1, RangeHeld
<1>4. Held(t, b) = Held(s, b) \cup {s[a][i]}
  <2>1. /\ DOMAIN t[b] = DOMAIN s[b] \cup {Len(s[b]) + 1} /\ t[b][Len(s[b]) + 1] = s[a][i]
        /\ \A j \in DOMAIN s[b] : t[b][j] = s[b][j]
    BY <1>1
  <2> QED
    BY <2>1 DEF Held
<1>5. /\ \A n \in Queues \ {a} : Held(s, n) \subseteq Held(t, n)
      /\ Held(s, a) \subseteq Held(t, a) \cup Held(t, b)
      /\ s[a][i] \in Held(t, b)
  BY <1>2, <1>3, <1>4
<1> QED
  BY <1>5 DEF t

LEMMA SpliceKeeps ==
  ASSUME NEW S, NEW s \in [Queues -> Seq(S)], NEW a \in Queues, NEW b \in Queues \ {a}
  PROVE  /\ \A n \in Queues \ {a} : Held(s, n) \subseteq Held(Splice(s, a, b), n)
         /\ Held(s, a) \subseteq Held(Splice(s, a, b), b)
<1> DEFINE t == Splice(s, a, b)
<1>1. /\ \A n \in Queues \ {a, b} : t[n] = s[n]
      /\ t[b] = s[b] \o s[a] /\ s[a] \in Seq(S) /\ s[b] \in Seq(S)
  BY DEF Splice
<1> HIDE DEF t
<1>2. Range(t[b]) = Range(s[b]) \cup Range(s[a])
  BY <1>1, RangeConcatenation
<1>3. \A n \in Queues \ {a, b} : Held(t, n) = Held(s, n)
  BY <1>1 DEF Held
<1>4. Held(t, b) = Held(s, b) \cup Held(s, a)
  BY <1>2, RangeHeld
<1>5. /\ \A n \in Queues \ {a} : Held(s, n) \subseteq Held(t, n)
      /\ Held(s, a) \subseteq Held(t, b)
  BY <1>3, <1>4
<1> QED
  BY <1>5 DEF t

\* Removing an element keeps the others.
LEMMA WithoutKeeps ==
  ASSUME NEW S, NEW s \in Seq(S), NEW c, NEW x \in Range(s), x # c
  PROVE  x \in Range(Without(s, c))
<1>1. CASE c \in Range(s)
  <2> DEFINE i == CHOOSE i \in DOMAIN s : s[i] = c
  <2>1. i \in DOMAIN s /\ s[i] = c /\ Without(s, c) = RemoveAt(s, i)
    BY <1>1 DEF Range, Without
  <2> HIDE DEF i
  <2>2. i \in 1 .. Len(s)
    BY <2>1, LenProperties
  <2>3. Range(RemoveAt(s, i)) \cup {s[i]} = Range(s)
    BY <2>2, RemoveAtRange
  <2> QED
    BY <2>1, <2>3
<1>2. CASE c \notin Range(s)
  BY <1>2 DEF Without
<1> QED
  BY <1>1, <1>2

\* From q to q' no list forgets.
Keeps ==
  /\ InSome(q, Reached) \subseteq InSome(q', Reached)
  /\ InSome(q, Behind) \subseteq InSome(q', Behind)

LEMMA MovesKeep ==
  ASSUME TypeOK, NEW a \in Queues, NEW b \in Queues \ {a},
         a \in Reached => b \in Reached, a \in Behind => b \in Behind,
         \/ q' = Splice(q, a, b)
         \/ \E i \in 1 .. Len(q[a]) : q' = Move(q, a, i, b)
  PROVE  Keeps /\ \A n \in Queues \ {a, b} : q'[n] = q[n]
<1>1. /\ \A n \in Queues \ {a} : Held(q, n) \subseteq Held(q', n)
      /\ Held(q, a) \subseteq Held(q', a) \cup Held(q', b)
  <2>1. q \in [Queues -> Seq(Known)]
    BY KnownPlaces
  <2> QED
    BY <2>1, MoveKeeps, SpliceKeeps
<1>2. Reached \subseteq Queues /\ Behind \subseteq Queues
  BY DEF Reached, Behind, Queues
<1>3. Keeps
  BY <1>1, <1>2 DEF Keeps, InSome
<1>4. \A n \in Queues \ {a, b} : q'[n] = q[n]
  <2>1. q \in [Queues -> Seq(Known)]
    BY KnownPlaces
  <2> QED
    BY <2>1 DEF Move, Add, Drop, Splice
<1> QED
  BY <1>3, <1>4

\* A step that moves no context out of these lists and evaluates none forgets none.
LEMMA ReachKept ==
  ASSUME ReachInv, UNCHANGED <<ec, kids>>, Keeps, q'["ante"] = q["ante"],
         pc' # "finalizeAnte", pc' = "push" => q'["result"] = <<>>,
         static' = "STARTED" => static = "STARTED"
  PROVE  ReachInv'
<1>1. Known' = Known /\ \A c : Due(c)' => Due(c)
  BY DEF Known, Due, Keeps
<1>2. static' = "STARTED" => \A c \in Known' : Due(c)' => c \in InSome(q', Reached)
  BY <1>1 DEF ReachInv, Keeps
<1> QED
  BY <1>1, <1>2 DEF ReachInv, Children

\* The prefilters keep a context in ready or reject it.
LEMMA PrefilterReach ==
  ASSUME JumpUnits = <<>>, TypeOK, ReachInv, Prefilter
  PROVE  ReachInv'
<1>1. /\ UNCHANGED <<ec, kids, static>>
      /\ pc' \notin {"finalizeAnte", "push"}
  BY DEF Prefilter, MainPrefilter, ReadStopScript, EndMainPrefilter, RedundancyPrefilter,
     EndRedundancyPrefilter, FilterPrefilter, JumpPrefilter, PassPrefilter, CoveragePrefilterStop,
     NextPrefilter, EndPrefiltering, Keep, Take, EndPrefilter, Walking, Walked, Goto, lifeVars,
     queueVars, walkVars
<1>2. ~ JumpPrefilter
  BY DEF JumpPrefilter, Prefiltering, Range
<1>3. q' = q \/ (cur <= Len(Ready) /\ Take("failed"))
  <2>1. CASE MainPrefilter \/ ReadStopScript \/ RedundancyPrefilter \/ FilterPrefilter \/ PassPrefilter
    BY <2>1 DEF MainPrefilter, ReadStopScript, RedundancyPrefilter, FilterPrefilter, PassPrefilter,
       Keep, Walking, queueVars
  <2>2. CASE \/ EndMainPrefilter \/ EndRedundancyPrefilter \/ CoveragePrefilterStop
             \/ NextPrefilter \/ EndPrefiltering
    BY <2>2 DEF EndMainPrefilter, EndRedundancyPrefilter, CoveragePrefilterStop, NextPrefilter,
       EndPrefiltering, EndPrefilter, queueVars
  <2> QED
    BY <1>2, <2>1, <2>2 DEF Prefilter
<1>4. Keeps /\ q'["ante"] = q["ante"]
  <2>1. CASE q' = q
    BY <2>1 DEF Keeps
  <2>2. CASE cur <= Len(Ready) /\ Take("failed")
    <3>1. /\ cur \in 1 .. Len(q["ready"]) /\ q' = Move(q, "ready", cur, "failed")
          /\ "ready" \in Queues /\ "failed" \in Queues \ {"ready"}
      BY <2>2, KnownPlaces, LenProperties DEF Take, Ready, Queues
    <3>2. "failed" \in Reached /\ "failed" \in Behind /\ "ante" \in Queues \ {"ready", "failed"}
      BY DEF Reached, Behind, Queues
    <3> QED
      BY <3>1, <3>2, MovesKeep
  <2> QED
    BY <1>3, <2>1, <2>2
<1> QED
  BY <1>1, <1>4, ReachKept

\* Nobody selects and nobody jumps: the other steps outside the finalization.
LEMMA RestReach ==
  ASSUME Selectors = {}, JumpUnits = <<>>, TypeOK, ReachInv,
         \/ Fire \/ Handle \/ AnalyseReady \/ PopWaiting \/ NothingToRefill \/ HandOver
         \/ EndEvaluate \/ AnalyseResult \/ NoResult \/ Loop \/ Terminated
         \/ FilterPostfilter \/ NextPostfilter \/ EndPostfiltering \/ EndFinalize
  PROVE  ReachInv'
<1>1. q \in [Queues -> Seq(Known)] /\ cur \in Nat \ {0}
  BY KnownPlaces
<1>2. CASE q' = q /\ UNCHANGED <<ec, kids>>
  <2>1. Keeps
    BY <1>2 DEF Keeps
  <2>2. /\ pc' # "finalizeAnte" /\ (pc' = "push" => q["result"] = <<>>)
        /\ static' = "STARTED" => static = "STARTED"
    <3>1. ~ JumpSelects
      BY DEF JumpSelects, Listener, Jumps, Range
    <3> QED
      BY <1>2, <3>1 DEF Fire, FireStop, FireRequeueWaiting, NothingToFire, FireGoalReady, NoGoalReady,
         EndGoalReady, FireContinue, EndContinue, FireGoalResult, NoGoalResult, EndGoalResult,
         Handle, IgnoreGoal, JumpGoal, JumpGivesUp, JumpBacktracks, Listener,
         AnalyseReady, PopWaiting, NothingToRefill, HandOver, EndEvaluate, AnalyseResult, NoResult,
         NoWork, Loop, Terminated, FilterPostfilter, NextPostfilter, EndPostfiltering, EndFinalize,
         Postfiltering, Goto, lifeVars, vars, ReachInv
  <2> QED
    BY <1>2, <2>1, <2>2, ReachKept
<1>3. CASE FireStop
  <2>1. UNCHANGED <<ec, kids>> /\ q'["ante"] = q["ante"] /\ pc' = "handOver" /\ static' = "STOPPED"
    BY <1>3, <1>1 DEF FireStop, Goto, walkVars, Clear, Queues
  <2> QED
    BY <2>1 DEF ReachInv, Known, Children
<1>4. CASE PopWaiting \/ HandOver \/ AnalyseResult
  <2>1. UNCHANGED <<ec, kids>> /\ pc' \notin {"finalizeAnte", "push"} /\ static' = static
    BY <1>4 DEF PopWaiting, HandOver, AnalyseResult, NoWork, Goto, walkVars, lifeVars
  <2>2. \/ q' = q
        \/ q' = Splice(q, "waiting", "ready") \/ q' = Splice(q, "ready", "working")
        \/ q' = Splice(q, "analysed", "result")
        \/ \E i \in DOMAIN q["waiting"] : q' = Move(q, "waiting", i, "ready")
    BY <1>4 DEF PopWaiting, HandOver, AnalyseResult
  <2>3. CASE q' = Splice(q, "waiting", "ready") \/ q' = Splice(q, "ready", "working")
             \/ q' = Splice(q, "analysed", "result")
    <3>1. /\ {"ready", "working", "waiting"} \subseteq Reached /\ "result" \in Behind
          /\ {"waiting", "ready", "analysed"} \cap Reached = {"waiting", "ready"}
          /\ {"waiting", "ready", "analysed"} \cap Behind = {"analysed"}
          /\ {"waiting", "ready", "working", "analysed", "result"} \subseteq Queues \ {"ante"}
          /\ "ante" \in Queues
      BY DEF Reached, Behind, Queues
    <3>2. Keeps /\ q'["ante"] = q["ante"]
      BY <2>3, <3>1, MovesKeep
    <3> QED
      BY <2>1, <3>2, ReachKept
  <2>4. CASE \E i \in DOMAIN q["waiting"] : q' = Move(q, "waiting", i, "ready")
    <3>1. /\ "ready" \in Reached /\ "waiting" \notin Behind
          /\ "waiting" \in Queues /\ "ready" \in Queues \ {"waiting"}
          /\ "ante" \in Queues \ {"waiting", "ready"}
      BY DEF Reached, Behind, Queues
    <3>2. \E i \in 1 .. Len(q["waiting"]) : q' = Move(q, "waiting", i, "ready")
      BY <1>1, <2>4, <3>1, PlacesType
    <3>3. Keeps /\ q'["ante"] = q["ante"]
      BY <3>1, <3>2, MovesKeep
    <3> QED
      BY <2>1, <3>3, ReachKept
  <2> QED
    BY <1>2, <2>1, <2>2, <2>3, <2>4
<1>5. CASE FilterPostfilter
  <2>1. /\ UNCHANGED <<ec, kids, static>> /\ pc' = "unitPostfilter"
        /\ q' = q \/ (q' = Move(q, "result", cur, "failed") /\ cur <= Len(q["result"]))
    BY <1>5 DEF FilterPostfilter, Postfiltering, lifeVars
  <2>2. CASE q' = Move(q, "result", cur, "failed") /\ cur <= Len(q["result"])
    <3>1. /\ "result" \notin Reached /\ "failed" \in Behind
          /\ "result" \in Queues /\ "failed" \in Queues \ {"result"}
          /\ "ante" \in Queues \ {"result", "failed"}
      BY DEF Reached, Behind, Queues
    <3>2. cur \in 1 .. Len(q["result"])
      BY <1>1, <2>2, <3>1, PlacesType
    <3>3. Keeps /\ q'["ante"] = q["ante"]
      BY <2>2, <3>1, <3>2, MovesKeep
    <3> QED
      BY <2>1, <3>3, ReachKept
  <2> QED
    BY <1>2, <2>1, <2>2
<1>6. CASE Handle
  <2>1. IgnoreGoal
    BY <1>6 DEF Handle, JumpGoal, JumpGivesUp, JumpBacktracks, JumpSelects,
       Listener, Jumps, Range
  <2> QED
    BY <1>2, <2>1 DEF IgnoreGoal, queueVars, walkVars
<1>7. CASE \/ Fire /\ ~FireStop
           \/ AnalyseReady \/ NothingToRefill \/ EndEvaluate \/ NoResult \/ Loop \/ Terminated
           \/ NextPostfilter \/ EndPostfiltering \/ EndFinalize
  <2>1. q' = q /\ UNCHANGED <<ec, kids>>
    BY <1>7 DEF Fire, FireRequeueWaiting, NothingToFire, FireGoalReady, NoGoalReady,
       EndGoalReady, FireContinue, EndContinue, FireGoalResult, NoGoalResult, EndGoalResult,
       AnalyseReady, NothingToRefill, EndEvaluate, NoResult, Loop, Terminated,
       NextPostfilter, EndPostfiltering, EndFinalize, queueVars, walkVars, vars
  <2> QED
    BY <1>2, <2>1
<1> QED
  BY <1>3, <1>4, <1>5, <1>6, <1>7

\* The context evaluated becomes a result, and so do its children's container; it had none before.
LEMMA EvaluateReach ==
  ASSUME TypeOK, OwnersInv, ReachInv, Evaluate
  PROVE  ReachInv'
<1>1. /\ 1 \in 1 .. Len(q["working"]) /\ Evaluated \in Known /\ Evaluated = q["working"][1]
      /\ q' = Move(q, "working", 1, "analysed") /\ UNCHANGED kids
      /\ \E l \in Nat : Grows(l)
  BY EvaluateGraph
<1>2. PICK l \in Nat : Grows(l)
  BY <1>1
<1>3. PICK e \in Known : e = Evaluated
  BY <1>1
<1>4. PICK n \in Nat : n = Len(ec) /\ Known = 1 .. n /\ Known' = 1 .. n + l
  BY <1>2, LenProperties DEF Grows, TypeOK, ContextsOK, Known
<1>5. /\ q \in [Queues -> Seq(Known)] /\ Disjoint(q)
      /\ "working" \in Queues /\ "analysed" \in Queues \ {"working"} /\ "ante" \in Queues
      /\ Reached \subseteq Queues /\ Behind \subseteq Queues /\ "analysed" \in Behind
      /\ "analysed" \notin Reached /\ "working" \notin Behind
  BY DEF OwnersInv, Lists, Queues, Reached, Behind
<1>6. /\ \A m \in Queues \ {"working"} : Held(q, m) \subseteq Held(q', m)
      /\ Held(q, "working") \subseteq Held(q', "working") \cup Held(q', "analysed")
      /\ e \in Held(q', "analysed")
  BY <1>1, <1>3, <1>5, MoveKeeps
<1>7. Held(q', "analysed") \subseteq Held(q, "analysed") \cup {e}
  BY <1>1, <1>3, <1>5, MoveDisjoint
<1>8. \A d \in Known :
        /\ ec'[d].parent = ec[d].parent /\ ec'[d].aees = ec[d].aees
        /\ d # e => ec'[d].kids = ec[d].kids /\ ec'[d].eval = ec[d].eval
  BY <1>2, <1>3 DEF Grows
<1>9. /\ ec'[e].eval # 0 /\ ec'[e].kids = ec[e].kids \o [j \in 1 .. l |-> n + j]
      /\ [j \in 1 .. l |-> n + j] \in Seq(Nat) /\ ec[e].kids \in Seq(Nat)
  <2>1. ec'[e].eval = evalNumber + 1 /\ ec'[e].kids = ec[e].kids \o [j \in 1 .. l |-> n + j]
    BY <1>2, <1>3, <1>4 DEF Grows
  <2>2. [j \in 1 .. l |-> n + j] \in Seq(Nat)
    OBVIOUS
  <2> QED
    BY <2>1, <2>2, Numbers
<1>10. Range(ec'[e].kids) = Range(ec[e].kids) \cup Range([j \in 1 .. l |-> n + j])
  BY <1>9, RangeConcatenation
<1>11. \A d \in Known' \ Known : ec'[d].parent = e
  BY <1>2, <1>3 DEF Grows
<1>12. ASSUME NEW d \in Known', ec'[d].parent # 0, ec'[d].aees # "NOTHING"
       PROVE  d \in Range(ec'[ec'[d].parent].kids)
  <2>1. CASE d \in Known
    <3>1. ec[d].parent \in Known /\ d \in Range(ec[ec[d].parent].kids)
      BY <1>8, <1>12, <2>1, Numbers DEF ReachInv, Children
    <3> QED
      BY <1>8, <1>10, <2>1, <3>1
  <2>2. CASE d \notin Known
    <3>1. d - n \in DOMAIN [j \in 1 .. l |-> n + j] /\ d = [j \in 1 .. l |-> n + j][d - n]
      BY <1>4, <2>2
    <3>2. d \in Range([j \in 1 .. l |-> n + j])
      BY <3>1 DEF Range
    <3> QED
      BY <1>10, <1>11, <2>2, <3>2
  <2> QED
    BY <2>1, <2>2
<1>13. ASSUME static = "STARTED", NEW d \in Known', Due(d)' PROVE d \in InSome(q', Reached)
  <2>1. InSome(q, Behind) \subseteq InSome(q', Behind) /\ e \in InSome(q', Behind)
    BY <1>5, <1>6 DEF InSome
  <2>2. d \in Known
    BY <1>11, <1>13, <2>1 DEF Due
  <2>3. d # e /\ Due(d)
    BY <1>1, <1>8, <1>9, <1>13, <2>1, <2>2 DEF Due
  <2>4. PICK m \in Reached : d \in Held(q, m)
    BY <1>13, <2>2, <2>3 DEF ReachInv, InSome
  <2>5. d \notin Held(q', "analysed") \/ m # "working"
    <3> SUFFICES ASSUME m = "working", d \in Held(q, "analysed") PROVE FALSE
      BY <1>7, <2>3
    <3> QED
      BY <1>5, <2>4 DEF Disjoint, Held
  <2>6. d \in Held(q', m)
    BY <1>5, <1>6, <2>4, <2>5
  <2> QED
    BY <2>6 DEF InSome
<1>14. pc' = "evaluate" /\ static' = static /\ q'["ante"] = q["ante"]
  <2>1. pc' = "evaluate" /\ static' = static
    BY Zenon DEF Evaluate, lifeVars
  <2>2. "ante" \in Queues \ {"working", "analysed"}
    BY DEF Queues
  <2>3. Move(q, "working", 1, "analysed")["ante"] = q["ante"]
    BY <1>1, <1>5, <2>2 DEF Move, Add, Drop
  <2> QED
    BY <1>1, <2>1, <2>3
<1> QED
  BY <1>12, <1>13, <1>14 DEF ReachInv, Children

\* The children of a result are looked at next.
LEMMA PopResultReach ==
  ASSUME TypeOK, ReachInv, PopResult
  PROVE  ReachInv'
<1>1. /\ pc = "finalizeResult" /\ pc' = pc /\ UNCHANGED <<ec, static>>
      /\ kids = <<>> /\ q["result"] # <<>>
      /\ kids' = ec[Head(q["result"])].kids /\ q' = Drop(q, "result", 1)
  BY DEF PopResult, lifeVars
<1>2. /\ q \in [Queues -> Seq(Known)] /\ "result" \in Queues
      /\ 1 \in 1 .. Len(q["result"]) /\ q["result"] \in Seq(Known)
      /\ Head(q["result"]) = q["result"][1]
  BY <1>1, KnownPlaces, EndPlaces, HeadTailProperties DEF Queues
<1>3. PICK r \in Known : r = q["result"][1]
  BY <1>2, PlacesType
<1>4. /\ \A n \in Queues \ {"result"} : q'[n] = q[n]
      /\ Held(q', "result") \cup {r} = Held(q, "result")
  <2>1. PICK s \in Seq(Known) : s = q["result"]
    BY <1>2
  <2>2. Range(RemoveAt(s, 1)) \cup {s[1]} = Range(s)
    BY <1>2, <2>1, RemoveAtRange
  <2>3. q'["result"] = RemoveAt(s, 1) /\ \A n \in Queues \ {"result"} : q'[n] = q[n]
    BY <1>1, <1>2, <2>1 DEF Drop
  <2> QED
    BY <1>3, <2>1, <2>2, <2>3, RangeHeld
<1>5. /\ Reached \subseteq Queues \ {"result"} /\ Behind \subseteq Queues /\ "ante" \in Queues \ {"result"}
  BY DEF Reached, Behind, Queues
<1>6. InSome(q', Reached) = InSome(q, Reached) /\ InSome(q, Behind) \subseteq InSome(q', Behind) \cup {r}
  <2>1. \A n \in Queues \ {"result"} : Held(q', n) = Held(q, n)
    BY <1>4 DEF Held
  <2> QED
    BY <1>4, <1>5, <2>1 DEF InSome
<1>7. \A c \in Known : Due(c)' => Due(c)
  <2> SUFFICES ASSUME NEW c \in Known, Due(c)' PROVE Due(c)
    OBVIOUS
  <2>1. ec[c].aees \in {"OK", "JOIN"} /\ ec[c].eval = 0 /\ c \notin Range(kids')
        /\ ec[c].parent \notin InSome(q', Behind)
    BY <1>1 DEF Due
  <2>2. ec[c].parent # r
    <3> SUFFICES ASSUME ec[c].parent = r PROVE FALSE
      OBVIOUS
    <3>1. c \in Children(r)
      BY <2>1, Numbers DEF ReachInv
    <3> QED
      BY <1>1, <1>2, <1>3, <2>1, <3>1 DEF Children
  <2>3. c \notin Range(kids)
    BY <1>1 DEF Range
  <2> QED
    BY <1>6, <2>1, <2>2, <2>3 DEF Due
<1> QED
  BY <1>1, <1>4, <1>5, <1>6, <1>7 DEF ReachInv, Known, Children

\* finalizePostfiltering: a child that waits for its evaluation will be pushed.
LEMMA FinalizeReach ==
  ASSUME TypeOK, ReachInv, FinalizeChild, NEW c \in Known, c = Head(kids), Settles(c)
  PROVE  ReachInv'
<1>1. /\ kids # <<>> /\ kids' = Tail(kids) /\ static' = static
      /\ q' = IF ec[c].aees \in Explored THEN Add(q, "main", c) ELSE q
  BY Zenon DEF FinalizeChild
<1>2. pc' \in {"finalizeResult", "crashed"}
  BY Zenon DEF FinalizeChild
<1>3. /\ Known' = Known
      /\ \A d \in Known :
           /\ ec'[d].parent = ec[d].parent /\ ec'[d].eval = ec[d].eval /\ ec'[d].aees = ec[d].aees
           /\ ec'[d].kids = ec[d].kids
              \/ (ec[c].aees = "NOTHING" /\ d = ec[c].parent /\ ec'[d].kids = Without(ec[d].kids, c))
  BY DEF Settles
<1>4. /\ q \in [Queues -> Seq(Known)] /\ "main" \in Queues /\ "main" \in Reached
      /\ "ante" \in Queues \ {"main"} /\ Behind \subseteq Queues \ {"main"} /\ Reached \subseteq Queues
  BY KnownPlaces DEF Queues, Reached, Behind
<1>5. /\ q'["ante"] = q["ante"] /\ InSome(q', Behind) = InSome(q, Behind)
      /\ InSome(q, Reached) \subseteq InSome(q', Reached)
      /\ ec[c].aees \in Explored => c \in InSome(q', Reached)
  <2>1. CASE ec[c].aees \in Explored
    <3>1. /\ \A n \in Queues \ {"main"} : q'[n] = q[n]
          /\ q'["main"] = Append(q["main"], c) /\ q["main"] \in Seq(Known)
      BY <1>1, <1>4, <2>1 DEF Add
    <3>2. /\ DOMAIN q'["main"] = DOMAIN q["main"] \cup {Len(q["main"]) + 1}
          /\ q'["main"][Len(q["main"]) + 1] = c
          /\ \A j \in DOMAIN q["main"] : q'["main"][j] = q["main"][j]
      BY <3>1
    <3>3. Held(q', "main") = Held(q, "main") \cup {c}
      BY <3>2 DEF Held
    <3>4. \A n \in Queues \ {"main"} : Held(q', n) = Held(q, n)
      BY <3>1 DEF Held
    <3> QED
      BY <1>4, <3>1, <3>3, <3>4 DEF InSome
  <2>2. CASE ec[c].aees \notin Explored
    BY <1>1, <2>2
  <2> QED
    BY <2>1, <2>2
<1>6. \A d \in Range(kids) : d = c \/ d \in Range(kids')
  <2>1. kids \in Seq(Known) /\ Head(kids) = kids[1]
    BY <1>1, KnownPlaces, HeadTailProperties
  <2>2. Len(Tail(kids)) = Len(kids) - 1 /\ \A j \in 1 .. Len(kids) - 1 : Tail(kids)[j] = kids[j + 1]
    BY <1>1, <2>1, HeadTailProperties
  <2>3. DOMAIN kids = 1 .. Len(kids) /\ DOMAIN Tail(kids) = 1 .. Len(kids) - 1 /\ Len(kids) \in Nat
    BY <1>1, <2>1, <2>2, HeadTailProperties, LenProperties
  <2> SUFFICES ASSUME NEW i \in DOMAIN kids, i # 1 PROVE kids[i] \in Range(Tail(kids))
    BY <1>1, <2>1 DEF Range
  <2>4. i - 1 \in DOMAIN Tail(kids) /\ Tail(kids)[i - 1] = kids[i]
    BY <2>2, <2>3
  <2> QED
    BY <2>4 DEF Range
<1>7. ASSUME NEW d \in Known, ec[d].parent # 0, ec[d].aees # "NOTHING"
      PROVE  d \in Range(ec'[ec[d].parent].kids)
  <2>1. PICK p \in Known : p = ec[d].parent
    BY <1>7, Numbers
  <2>2. d \in Range(ec[p].kids) /\ ec[p].kids \in Seq(Known)
    BY <1>7, <2>1, KnownPlaces DEF ReachInv, Children
  <2>3. ec[c].aees = "NOTHING" => d # c
    BY <1>7
  <2> QED
    BY <1>3, <2>1, <2>2, <2>3, WithoutKeeps
<1>8. ASSUME static = "STARTED", NEW d \in Known, Due(d)' PROVE d \in InSome(q', Reached)
  <2>1. /\ ec[d].aees \in {"OK", "JOIN"} /\ ec[d].eval = 0 /\ d \notin Range(kids')
        /\ ec[d].parent \notin InSome(q, Behind)
    BY <1>3, <1>5, <1>8 DEF Due
  <2>2. CASE d = c
    BY <1>5, <2>1, <2>2 DEF Explored
  <2>3. CASE d # c
    BY <1>5, <1>6, <1>8, <2>1, <2>3 DEF Due, ReachInv
  <2> QED
    BY <2>2, <2>3
<1> QED
  BY <1>1, <1>2, <1>3, <1>5, <1>7, <1>8 DEF ReachInv, Children

\* smartPushWaiting, when no result is left.
LEMMA PushReach ==
  ASSUME TypeOK, ReachInv, PushWaiting
  PROVE  ReachInv'
<1> DEFINE r == Splice(q, "main", "waiting")
<1>1. /\ q["result"] = <<>> /\ q' = Clear(r, {"result"})
      /\ UNCHANGED <<ec, kids, static>> /\ pc' = "afterResult"
  BY DEF PushWaiting, Goto, ReachInv, walkVars, lifeVars
<1>2. /\ q \in [Queues -> Seq(Known)] /\ "main" \in Queues /\ "waiting" \in Queues \ {"main"}
      /\ "main" \notin Behind /\ "waiting" \in Reached
      /\ Reached \subseteq Queues \ {"result"} /\ Behind \subseteq Queues \ {"main"}
      /\ "ante" \in Queues \ {"main", "waiting", "result"}
  BY KnownPlaces DEF Queues, Reached, Behind
<1>3. /\ \A n \in Queues \ {"main"} : Held(q, n) \subseteq Held(r, n)
      /\ Held(q, "main") \subseteq Held(r, "waiting")
  BY <1>2, SpliceKeeps
<1>4. r["ante"] = q["ante"]
  BY <1>2 DEF Splice
<1> HIDE DEF r
<1>5. \A n \in Queues \ {"result"} : Held(q', n) = Held(r, n)
  BY <1>1 DEF Clear, Held
<1>6. Held(q, "result") = {}
  BY <1>1 DEF Held
<1>7. Keeps
  <2>1. ASSUME NEW n \in Reached PROVE \E m \in Reached : Held(q, n) \subseteq Held(q', m)
    BY <1>2, <1>3, <1>5
  <2>2. ASSUME NEW n \in Behind PROVE Held(q, n) \subseteq Held(q', n)
    BY <1>2, <1>3, <1>5, <1>6
  <2>3. InSome(q, Reached) \subseteq InSome(q', Reached)
    BY <2>1 DEF InSome
  <2>4. InSome(q, Behind) \subseteq InSome(q', Behind)
    BY <2>2 DEF InSome
  <2> QED
    BY <2>3, <2>4 DEF Keeps
<1>8. q'["ante"] = q["ante"]
  BY <1>1, <1>2, <1>4 DEF Clear
<1> QED
  BY <1>1, <1>7, <1>8, ReachKept

LEMMA ReachStep ==
  ASSUME Selectors = {}, JumpUnits = <<>>, TypeOK, OwnersInv, ReachInv, [Next]_vars
  PROVE  ReachInv'
<1>1. CASE UNCHANGED vars
  BY <1>1 DEF vars, queueVars, walkVars, lifeVars, ReachInv, Known, Children, Due, Reached, Behind
<1>2. CASE Next
  <2>1. CASE Prefilter
    BY <2>1, PrefilterReach
  <2>2. CASE \/ Fire \/ Handle \/ AnalyseReady \/ PopWaiting \/ NothingToRefill \/ HandOver
             \/ EndEvaluate \/ AnalyseResult \/ NoResult \/ Loop \/ Terminated
             \/ FilterPostfilter \/ NextPostfilter \/ EndPostfiltering \/ EndFinalize
    BY <2>2, RestReach
  <2>3. CASE Evaluate
    BY <2>3, EvaluateReach
  <2>4. CASE PopResult
    BY <2>4, PopResultReach
  <2>5. CASE FinalizeChild
    BY <1>2, <2>5, GraphFrame, FinalizeReach
  <2>6. CASE PushWaiting
    BY <2>6, PushReach
  <2>7. ~ SelectorPostfilter
    BY DEF SelectorPostfilter, Postfiltering
  <2>8. ~ FinalizeSelected
    BY Zenon DEF FinalizeSelected, ReachInv
  <2> QED
    BY <1>2, <2>1, <2>2, <2>3, <2>4, <2>5, <2>6, <2>7, <2>8 DEF Next, Step, Postfilter
<1> QED
  BY <1>1, <1>2

\* A fresh root, or the leaves of an earlier graph, wait.
LEMMA ReachInit ==
  ASSUME JumpUnits = <<>>, Init
  PROVE  ReachInv
<1>1. /\ ec = InitialGraph /\ pc = "analyseReady" /\ q["ante"] = <<>> /\ q["waiting"] = Inputs
  BY ModesAssumption DEF Init, Queues, Searched
<1>2. Held(q, "waiting") = Range(Inputs)
  BY <1>1, RangeHeld
<1>3. CASE Leaves = 0
  <2>1. Known = {1} /\ ec[1].parent = 0 /\ Range(Inputs) = {1}
    BY <1>1, <1>3 DEF Known, InitialGraph, Inputs, EC, Range
  <2> QED
    BY <1>1, <1>2, <2>1 DEF ReachInv, InSome, Reached
<1>4. CASE Leaves # 0
  <2>1. PICK n \in Nat : n = Leaves /\ n # 0
    BY <1>4, LimitsAssumption
  <2>2. Range(Inputs) = 2 .. n + 1
    <3>1. Inputs = [i \in 1 .. n |-> i + 1]
      BY <2>1 DEF Inputs
    <3>2. ASSUME NEW c \in 2 .. n + 1 PROVE \E i \in DOMAIN Inputs : Inputs[i] = c
      <4>1. c - 1 \in 1 .. n /\ c = (c - 1) + 1
        OBVIOUS
      <4> QED
        BY <3>1, <4>1
    <3>3. \A i \in DOMAIN Inputs : Inputs[i] \in 2 .. n + 1
      BY <3>1
    <3> QED
      BY <3>2, <3>3 DEF Range
  <2>3. /\ Known = 1 .. n + 1 /\ ec[1].parent = 0 /\ ec[1].eval = 1 /\ ec[1].kids = Inputs
        /\ \A c \in 2 .. n + 1 : ec[c].parent = 1
    <3>1. InitialGraph = [c \in 1 .. n + 1 |->
                           IF c = 1 THEN [EC(0, 0, 1, "OK") EXCEPT !.eval = 1, !.kids = Inputs]
                           ELSE EC(1, 1, c - 1, "OK")]
      BY <2>1 DEF InitialGraph
    <3> QED
      BY <1>1, <2>1, <3>1 DEF Known, EC
  <2>4. \A c \in Known : ec[c].parent # 0 => c \in Children(ec[c].parent)
    BY <2>2, <2>3 DEF Children
  <2>5. \A c \in Known : Due(c) => c \in Held(q, "waiting")
    BY <1>2, <2>2, <2>3 DEF Due
  <2> QED
    BY <1>1, <2>4, <2>5 DEF ReachInv, InSome, Reached
<1> QED
  BY <1>3, <1>4

\* With no unit that selects or jumps and no stop, each runnable child of a context evaluated is in
\* a list of the engine until its own evaluation, unless a filter rejected it or its container.
THEOREM NoSuccessorForgotten == Spec => []NothingForgotten
<1> DEFINE Alone == Selectors = {} /\ JumpUnits = <<>>
<1>1. Init => (Alone => ReachInv)
  BY ReachInit
<1>2. Alone => NoReturn
  BY DEF NoReturn, OneSelector
<1>3. /\ TypeOK /\ (NoReturn => OwnersInv) /\ (Alone => ReachInv) /\ [Next]_vars
      => (Alone => ReachInv)'
  BY <1>2, ReachStep
<1>4. (Alone => ReachInv) => NothingForgotten
  BY DEF ReachInv, Due, Reached, Behind, NothingForgotten
<1> QED
  BY <1>1, <1>3, <1>4, NoReturnOwners, PTL DEF Spec
=============================================================================
