--------------------------- MODULE WaitingTable ---------------------------
(***************************************************************************)
(* The waiting strategies that keep their contexts in a table of lists     *)
(* (famcore/queue): the basic strategies BFS, DFS, RFS, FIRST, LAST and    *)
(* ORDER with one list, ALL which pops a whole list, and WEIGHT with one   *)
(* list per weight and a window over the lists in use, together with the   *)
(* requeue of a coverage unit, which takes lists out of the table, pushes  *)
(* their contexts with new weights and, when none of them is strongly      *)
(* achievable, looks through the lists again for one to drive a trace to.  *)
(***************************************************************************)
EXTENDS Naturals, SequencesExt

CONSTANTS
  Configs,    \* strategies, as configured by ExecutionQueue
  Weights,    \* the weights a unit gives to new contexts
  NewWeights, \* the weights computeWeight gives in a requeue
  MaxKids, MaxHeight, MaxContexts  \* bounds of the graph that is explored

\* weights (AvmCoverageHeuristicProperty.h)
SelectedAchievable == 0
StronglyAchievable == 2
NonPriority == 4

\* Mutant of UnknownAchievable: the last weight, that of NON_ACHIEVABLE.
UnknownAchievable_Last == 6

UnknownAchievable == 5

Basic == {"ALL", "BFS", "DFS", "RFS", "FIRST", "LAST"}

\* a basic strategy has one list; an ORDER within weights does not exist; a unit
\* that asks for requeues needs WEIGHT
Config ==
  [ basic : Basic \cup {"ORDER"}, weighted : {FALSE}, count : {1}, requeues : {FALSE} ]
    \cup [ basic : Basic, weighted : {TRUE}, count : 0 .. 126, requeues : BOOLEAN ]

ASSUME TableAssumption ==
  /\ Configs \subseteq Config
  /\ Weights \subseteq 0 .. 255 /\ NewWeights \subseteq 0 .. 255
  /\ {MaxKids, MaxHeight, MaxContexts} \subseteq Nat

VARIABLES
  config,     \* the configuration, chosen once
  pc,         \* "idle", or where the requeue is: "flush", "repush" to weigh, "seek",
              \* "restore", "driven" to look for a trace; "crashed"
  table,      \* mQueueTable[0 .. mQueueCount]
  wmin, wmax, \* mPushWeightMin, mPushWeightMax
  ready,      \* ExecutionQueue::mReadyQueue
  kids,       \* the children smartPush has still to push
  posted,     \* REQUEST_REQUEUE_WAITING is posted
  requeued,   \* TransitionCoverageFilter::mWaitingQueue
  rmin,       \* aWeightMin of handleRequestRequeueWaitingTable, initializeTraceDriver
  strong,     \* mStronglyFireableTransitionCount > 0
  created,    \* how many contexts there are
  stale       \* history: the contexts this requeue has still to weigh

requeueVars == <<posted, requeued, rmin, strong, stale>>
vars == <<config, pc, table, wmin, wmax, ready, kids, created, requeueVars>>

\* A context is named by its path from the root.
Context == [path : Seq(Nat), weight : 0 .. 255]
Count == config.count
Places == 0 .. Count

-----------------------------------------------------------------------------
(* Push and pop of one list: StrategyPush, ExecutionContextIterator, StrategyPop. *)

\* StrategyPushOrder: before the first context that is not lighter
IsOrderPlace(s, c, i) ==
  /\ \A j \in 1 .. i - 1 : s[j].weight < c.weight
  /\ i <= Len(s) => s[i].weight >= c.weight

\* push policies: the place of s where c goes
PushPlaces(s, c) ==
  { i \in 1 .. Len(s) + 1 :
      CASE config.basic = "FIRST" -> i = 1
        [] config.basic = "ORDER" -> IsOrderPlace(s, c, i)
        [] OTHER                  -> i = Len(s) + 1 }

\* Mutant of ChildOrder: pushed first first whatever the strategy.
ChildOrder_AsIs(s) == s

\* smartPush: the children are pushed last first by a depth first search
ChildOrder(s) ==
  IF config.basic \in {"DFS", "FIRST", "LAST"} THEN Reverse(s) ELSE s

\* popFrom: the places of s a pop may take
PopPlaces(s) ==
  CASE config.basic \in {"BFS", "FIRST", "ORDER"} -> {1}
    [] config.basic \in {"DFS", "LAST"}           -> {Len(s)}
    [] OTHER                                      -> DOMAIN s

\* popTo(offset): ALL splices the whole list
TakeFrom(w) ==
  IF config.basic = "ALL"
  THEN ready' = ready \o table[w] /\ table' = [table EXCEPT ![w] = <<>>]
  ELSE \E i \in PopPlaces(table[w]) :
         /\ ready' = Append(ready, table[w][i])
         /\ table' = [table EXCEPT ![w] = RemoveAt(@, i)]

-----------------------------------------------------------------------------
(* Push and pop of the table. *)

\* a weight beyond the table falls in its last list
Clamp(w) == IF w < Count THEN w ELSE Count
Place(c) == IF config.weighted THEN Clamp(c.weight) ELSE 1

\* Mutant of PushOne: the start of the window is left to the pops.
PushOne_KeepsMin(c) ==
  /\ \E i \in PushPlaces(table[Place(c)], c) :
       table' = [table EXCEPT ![Place(c)] = InsertAt(@, i, c)]
  /\ wmax' = IF config.weighted /\ c.weight > wmax THEN c.weight ELSE wmax
  /\ UNCHANGED wmin

\* push, and the window it keeps
PushOne(c) ==
  /\ \E i \in PushPlaces(table[Place(c)], c) :
       table' = [table EXCEPT ![Place(c)] = InsertAt(@, i, c)]
  /\ wmin' = IF config.weighted /\ c.weight < wmin THEN c.weight ELSE wmin
  /\ wmax' = IF config.weighted /\ c.weight > wmax THEN c.weight ELSE wmax

Push ==
  /\ pc = "idle" /\ kids # <<>>
  /\ PushOne(Head(kids))
  /\ kids' = Tail(kids)
  /\ UNCHANGED <<config, pc, ready, created, requeueVars>>

HasWaiting == \E w \in Places : table[w] # <<>>

\* the first list from v on that is not empty, if there is one
FirstFrom(v) ==
  { w \in v .. Count : table[w] # <<>> /\ \A u \in v .. w - 1 : table[u] = <<>> }

\* Mutant of PopWeighted: the window is walked from its other end.
PopWeighted_LastList ==
  \E w \in wmin .. wmax :
    /\ w \in Places /\ table[w] # <<>>
    /\ \A v \in w + 1 .. wmax : v \in Places => table[v] = <<>>
    /\ TakeFrom(w) /\ UNCHANGED wmin

\* WEIGHT: the first list of the window that is not empty; the window starts there
PopWeighted ==
  \E w \in FirstFrom(wmin) :
    w <= wmax /\ TakeFrom(w) /\ wmin' = w

\* the cache if it holds something, or else the queue
PopBasic ==
  /\ TakeFrom(IF table[0] # <<>> THEN 0 ELSE 1)
  /\ UNCHANGED wmin

\* popWaiting2Ready, called when nothing is ready and something waits
Pop ==
  /\ pc = "idle" /\ kids = <<>> /\ ready = <<>> /\ ~ posted /\ HasWaiting
  /\ IF config.weighted THEN PopWeighted ELSE PopBasic
  /\ UNCHANGED <<config, pc, wmax, kids, created, requeueVars>>

-----------------------------------------------------------------------------
(* The evaluation loop around the strategy. *)

\* A ready context is evaluated, or rejected; its children are weighed, and a
\* coverage unit may ask for a requeue. It asks whether a list up to
\* STRONGLY_ACHIEVABLE is in use: the lists past the table are looked at too, and
\* nothing is known of what follows then.
Evaluate ==
  /\ pc = "idle" /\ kids = <<>> /\ ready # <<>>
  /\ \E n \in 0 .. MaxKids :
       /\ n > 0 => Len(Head(ready).path) < MaxHeight
       /\ created' = created + n /\ created' <= MaxContexts
       /\ \E f \in [1 .. n -> Weights] :
            kids' = ChildOrder([ i \in 1 .. n |->
                      [path |-> Append(Head(ready).path, i), weight |-> f[i]] ])
  /\ ready' = Tail(ready)
  /\ posted' \in (IF config.requeues THEN {posted, TRUE} ELSE {posted})
  /\ pc' \in {"idle"} \cup { p \in {"crashed"} :
                config.requeues /\ Count < StronglyAchievable /\ ~ HasWaiting }
  /\ UNCHANGED <<config, table, wmin, wmax, requeued, rmin, strong, stale>>

-----------------------------------------------------------------------------
(* handleRequestRequeueWaitingTable of TransitionCoverageFilter. *)

PathsIn(S) == UNION { { table[w][i].path : i \in DOMAIN table[w] } : w \in S }

Requeue ==
  /\ pc = "idle" /\ kids = <<>> /\ ready = <<>> /\ posted
  /\ posted' = FALSE /\ rmin' = 0 /\ pc' = "flush"
  /\ stale' = PathsIn({ w \in Places : w <= NonPriority })
  /\ UNCHANGED <<config, table, wmin, wmax, ready, kids, created, requeued, strong>>

\* Mutant of Flush: the list is assigned, not spliced.
Flush_Copies ==
  /\ pc = "flush"
  /\ \/ rmin' \in FirstFrom(rmin) /\ requeued' = table[rmin']
     \/ FirstFrom(rmin) = {} /\ requeued' = <<>> /\ rmin' = IF rmin <= Count THEN Count + 1 ELSE rmin
  /\ strong' = FALSE /\ pc' = "repush"
  /\ UNCHANGED <<config, table, wmin, wmax, ready, kids, created, posted, stale>>

\* flushPriorQueueTable: takes the first list from aWeightMin on that is not empty
Flush ==
  /\ pc = "flush"
  /\ \/ /\ rmin' \in FirstFrom(rmin)
        /\ requeued' = table[rmin'] /\ table' = [table EXCEPT ![rmin'] = <<>>]
     \/ /\ FirstFrom(rmin) = {}
        /\ rmin' = IF rmin <= Count THEN Count + 1 ELSE rmin
        /\ requeued' = <<>> /\ UNCHANGED table
  /\ strong' = FALSE /\ pc' = "repush"
  /\ UNCHANGED <<config, wmin, wmax, ready, kids, created, posted, stale>>

\* computeWeight and push of one context
Repush ==
  /\ pc = "repush" /\ requeued # <<>>
  /\ \E w \in NewWeights :
       /\ PushOne([Head(requeued) EXCEPT !.weight = w])
       /\ strong' = (strong \/ w = StronglyAchievable)
  /\ requeued' = Tail(requeued)
  /\ stale' = stale \ {Head(requeued).path}
  /\ UNCHANGED <<config, pc, ready, kids, created, posted, rmin>>

\* Mutant of EndRepush: the weights are walked downwards.
EndRepush_Down ==
  /\ pc = "repush" /\ requeued = <<>>
  /\ \/ ~ strong /\ rmin < NonPriority /\ pc' = "flush" /\ rmin' = rmin - 1
     \/ ~ strong /\ rmin >= NonPriority /\ pc' = "seek" /\ rmin' = 0
     \/ strong /\ pc' = "idle" /\ rmin' = 0
  /\ UNCHANGED <<config, table, wmin, wmax, ready, kids, created, posted, requeued, strong, stale>>

\* Mutant of EndRepush: the loop ends before NON_PRIORITY.
EndRepush_Before ==
  /\ pc = "repush" /\ requeued = <<>>
  /\ \/ ~ strong /\ rmin + 1 < NonPriority /\ pc' = "flush" /\ rmin' = rmin + 1
     \/ ~ strong /\ rmin + 1 >= NonPriority /\ pc' = "seek" /\ rmin' = 0
     \/ strong /\ pc' = "idle" /\ rmin' = 0
  /\ UNCHANGED <<config, table, wmin, wmax, ready, kids, created, posted, requeued, strong, stale>>

\* while ++aWeightMin <= WEIGHT_NON_PRIORITY and nothing strong is found; with
\* nothing strong at all a trace is looked for, from the first list on
EndRepush ==
  /\ pc = "repush" /\ requeued = <<>>
  /\ \/ ~ strong /\ rmin < NonPriority /\ pc' = "flush" /\ rmin' = rmin + 1
     \/ ~ strong /\ rmin >= NonPriority /\ pc' = "seek" /\ rmin' = 0
     \/ strong /\ pc' = "idle" /\ rmin' = 0
  /\ UNCHANGED <<config, table, wmin, wmax, ready, kids, created, posted, requeued, strong, stale>>

-----------------------------------------------------------------------------
(* initializeTraceDriver: the lists up to UNKNOWN_ACHIEVABLE, one by one. *)

\* the list that is taken: the first from aWeightMin on that is not empty
SeekList == { w \in FirstFrom(rmin) : w <= UnknownAchievable }

\* A list is taken out; a trace is driven to one of its contexts, which then is the
\* first to be popped, or to none.
SeekTake ==
  /\ pc = "seek" /\ rmin' \in SeekList
  /\ \/ pc' = "restore" /\ requeued' = table[rmin']
     \/ /\ pc' = "driven"
        /\ \E i \in DOMAIN table[rmin'] :
             requeued' = [table[rmin'] EXCEPT ![i].weight = SelectedAchievable]
  /\ table' = [table EXCEPT ![rmin'] = <<>>]
  /\ UNCHANGED <<config, wmin, wmax, ready, kids, created, posted, strong, stale>>

\* No list is left. The walk is not clamped to mQueueCount: past a table that is
\* shorter, memory is taken for lists, and nothing is known of what follows.
SeekNone ==
  /\ pc = "seek" /\ SeekList = {}
  /\ pc' = IF Count < UnknownAchievable THEN "crashed" ELSE "idle"
  /\ UNCHANGED <<config, table, wmin, wmax, ready, kids, created, requeueVars>>

\* Mutant of Restore: when a trace is driven, the selected context alone is put back.
Restore_Selected ==
  /\ pc \in {"restore", "driven"} /\ requeued # <<>>
  /\ IF pc = "driven" /\ Head(requeued).weight # SelectedAchievable
     THEN UNCHANGED <<table, wmin, wmax>> ELSE PushOne(Head(requeued))
  /\ requeued' = Tail(requeued)
  /\ UNCHANGED <<config, pc, ready, kids, created, posted, rmin, strong, stale>>

\* push(mWaitingQueue), one context at a time
Restore ==
  /\ pc \in {"restore", "driven"} /\ requeued # <<>>
  /\ PushOne(Head(requeued))
  /\ requeued' = Tail(requeued)
  /\ UNCHANGED <<config, pc, ready, kids, created, posted, rmin, strong, stale>>

\* while ++aWeightMin <= WEIGHT_UNKNOWN_ACHIEVABLE and no trace is found
EndRestore ==
  /\ pc \in {"restore", "driven"} /\ requeued = <<>>
  /\ \/ pc = "restore" /\ rmin < UnknownAchievable /\ pc' = "seek" /\ rmin' = rmin + 1
     \/ pc = "restore" /\ rmin >= UnknownAchievable /\ pc' = "idle" /\ rmin' = rmin
     \/ pc = "driven" /\ pc' = "idle" /\ rmin' = rmin
  /\ UNCHANGED <<config, table, wmin, wmax, ready, kids, created, posted, requeued, strong, stale>>

-----------------------------------------------------------------------------
Init ==
  /\ config \in Configs
  /\ pc = "idle"
  /\ table = [w \in Places |-> <<>>]
  /\ wmin = Count /\ wmax = 0
  /\ ready = <<>> /\ kids = << [path |-> <<>>, weight |-> 0] >>
  /\ posted = FALSE /\ requeued = <<>> /\ rmin = 0 /\ strong = FALSE
  /\ created = 1 /\ stale = {}

Next ==
  \/ Push \/ Pop \/ Evaluate \/ Requeue \/ Flush \/ Repush \/ EndRepush
  \/ SeekTake \/ SeekNone \/ Restore \/ EndRestore

\* The engine is one thread, which never blocks.
Spec == Init /\ [][Next]_vars /\ WF_vars(Next)

-----------------------------------------------------------------------------
(* Properties. *)

\* The variables have their types; weights and the window are octets.
TypeOK ==
  /\ config \in Configs
  /\ pc \in {"idle", "flush", "repush", "seek", "restore", "driven", "crashed"}
  /\ table \in [Places -> Seq(Context)]
  /\ ready \in Seq(Context) /\ kids \in Seq(Context) /\ requeued \in Seq(Context)
  /\ wmin \in 0 .. 255 /\ wmax \in 0 .. 255
  /\ posted \in BOOLEAN /\ strong \in BOOLEAN
  /\ rmin \in Nat /\ created \in Nat
  /\ stale \subseteq Seq(Nat)

\* The pop of WEIGHT looks at the lists from mPushWeightMin to mPushWeightMax
\* only, and never beyond the table: every list in use is in that window,
\* whatever was popped, taken out and pushed again with another weight.
WindowCovers ==
  config.weighted =>
    /\ wmin <= Count
    /\ \A w \in Places : table[w] # <<>> => wmin <= w /\ w <= wmax

Held(s) == { s[i] : i \in DOMAIN s }
Paths(s) == { s[i].path : i \in DOMAIN s }
Waiting == UNION { Held(table[w]) : w \in Places }

\* p is before q in the order of a depth first search
Preorder(p, q) ==
  \E k \in 1 .. Len(q) :
    /\ \A j \in 1 .. k - 1 : j <= Len(p) /\ p[j] = q[j]
    /\ k <= Len(p) => p[k] < q[k]

\* what each strategy promises of the contexts it pops before others
Before(c, d) ==
  IF config.weighted THEN Place(c) <= Place(d)
  ELSE CASE config.basic = "BFS" ->
              \/ Len(c.path) < Len(d.path)
              \/ Len(c.path) = Len(d.path) /\ Preorder(c.path, d.path)
         [] config.basic \in {"DFS", "FIRST", "LAST"} -> Preorder(c.path, d.path)
         [] config.basic = "ORDER" -> c.weight <= d.weight
         [] OTHER -> TRUE

\* "BREADTH_FIRST_SEARCH", "DEPTH_FIRST_SEARCH", "WEIGHT" (ExecutionQueue.cpp:43):
\* a context that is popped comes before those that stay, in the order of the
\* strategy.
PopsInOrder ==
  [][\A c \in Held(ready') \ Held(ready) : \A d \in Waiting \ Held(ready') : Before(c, d)]_vars

\* A requeue that finds nothing strongly achievable has weighed anew every
\* context that waited with a weight up to NON_PRIORITY.
RequeueWeighsAll ==
  [][pc = "repush" /\ pc' \notin {"repush", "flush"} => strong \/ stale = {}]_vars

\* The lists of the table are all that is ever looked at: push and pop clamp a weight,
\* the window ends within the table, and so do the walks of a requeue when the table
\* has a list for every weight up to UNKNOWN_ACHIEVABLE. With a smaller number, which
\* is configured as it is (any "weight value in [1," 126, ExecutionQueue.cpp:295), they
\* do not.
ReadsWithinTable == pc # "crashed"

Pool == INSTANCE WaitingPool
          WITH pool <- (UNION { Paths(table[w]) : w \in Places }) \cup Paths(kids) \cup Paths(requeued),
               ready <- Paths(ready)

\* The strategy is a pool: a pop takes contexts that wait when none is ready, no
\* context is lost or doubled, by a requeue either, and a pop of a pool that is
\* not empty returns.
ImplementsPool == Pool!Spec

=============================================================================
