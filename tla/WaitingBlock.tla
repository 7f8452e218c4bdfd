--------------------------- MODULE WaitingBlock ---------------------------
(***************************************************************************)
(* The BLOCK waiting strategies (famcore/queue/WaitingStrategyBLOCK.h).    *)
(* The symbolic execution graph is a grid of heights and widths.  Contexts *)
(* inside a block wait in a cache, the others in a queue; when the cache   *)
(* is exhausted a pop moves the block, within limits that are themselves   *)
(* doubled, until it holds a waiting context.  One step is one round of    *)
(* that search.                                                            *)
(***************************************************************************)
EXTENDS Naturals, SequencesExt

CONSTANTS
  Configs,    \* configurations: strategy, period and limit of the block
  Word,       \* size_t counts modulo Word
  MaxKids, MaxHeight, MaxWidth  \* bounds of the graph that is explored

Dims == {"h", "w"}
Config == [ strategy : {"ALL", "BFS", "DFS", "RFS"},
            period : [Dims -> 1 .. Word - 1],
            limit : [Dims -> 1 .. Word - 1] ]

ASSUME BlockAssumption ==
  /\ {Word, MaxKids, MaxHeight, MaxWidth} \subseteq Nat \ {0}
  /\ Configs \subseteq Config

VARIABLES
  config,      \* the configuration, chosen once
  pc,          \* "idle", or where popTo is: "grow", "restart", "double", "update"
  cache,       \* mQueueCache
  queue,       \* mQueue
  ready,       \* ExecutionQueue::mReadyQueue
  kids,        \* the children smartPush has still to push
  block,       \* mBlockHeight, mBlockWidth
  limit,       \* mHeightLimit, mWidthLimit
  pushMin,     \* mPushHeightMin, mPushWidthMin
  pushMax,     \* mPushHeightMax, mPushWidthMax
  cur,         \* itEC: the place in queue that updateQueue looks at
  after,       \* where popTo goes on if updateQueue finds nothing
  graphWidth   \* SymbexDispatcher::mGlobalGraphWidth

listVars == <<cache, queue, ready, kids>>
perimeterVars == <<block, limit, pushMin, pushMax>>
walkVars == <<cur, after>>
vars == <<config, pc, listVars, perimeterVars, walkVars, graphWidth>>

Context == [Dims -> Nat]
Strategy == config.strategy
Period == config.period
Least(a, b) == IF a < b THEN a ELSE b
Greatest(a, b) == IF a < b THEN b ELSE a
Inside(c, b) == \A d \in Dims : c[d] <= b[d]

-----------------------------------------------------------------------------
(* Evaluation and push. *)

\* Children of c: the first keeps the width of c, the others open new columns.
Children(c, n) ==
  [i \in 1 .. n |-> [d \in Dims |-> IF d = "h" THEN c.h + 1
                                   ELSE IF i = 1 THEN c.w ELSE graphWidth + i - 1]]

\* smartPush: a depth first search pushes the children last first
ChildOrder(s) == IF Strategy = "DFS" THEN Reverse(s) ELSE s

\* A ready context is evaluated, or rejected; its children are to be pushed.
Evaluate ==
  /\ pc = "idle" /\ kids = <<>> /\ ready # <<>>
  /\ \E n \in 0 .. MaxKids :
       /\ n > 0 => Head(ready).h < MaxHeight
       /\ graphWidth' = graphWidth + (IF n = 0 THEN 0 ELSE n - 1)
       /\ graphWidth' <= MaxWidth
       /\ kids' = ChildOrder(Children(Head(ready), n))
  /\ ready' = Tail(ready)
  /\ UNCHANGED <<config, pc, cache, queue, perimeterVars, walkVars>>

\* Mutant of Push: the width of the context is not compared.
Push_IgnoresWidth ==
  /\ kids # <<>>
  /\ LET c == Head(kids) IN
     /\ IF c.h <= block.h
        THEN cache' = Append(cache, c) /\ UNCHANGED queue
        ELSE queue' = Append(queue, c) /\ UNCHANGED cache
     /\ pushMax' = [d \in Dims |-> Greatest(pushMax[d], c[d])]
  /\ kids' = Tail(kids)
  /\ UNCHANGED <<config, pc, ready, block, limit, pushMin, walkVars, graphWidth>>

\* Mutant of Push: one maximum is updated, or the other.
Push_ElseIfMax ==
  /\ kids # <<>>
  /\ LET c == Head(kids) IN
     /\ IF Inside(c, block)
        THEN cache' = Append(cache, c) /\ UNCHANGED queue
        ELSE queue' = Append(queue, c) /\ UNCHANGED cache
     /\ pushMax' = IF pushMax.h < c.h THEN [pushMax EXCEPT !.h = c.h]
                   ELSE [pushMax EXCEPT !.w = Greatest(@, c.w)]
  /\ kids' = Tail(kids)
  /\ UNCHANGED <<config, pc, ready, block, limit, pushMin, walkVars, graphWidth>>

\* push: into the cache if the block holds the context
Push ==
  /\ kids # <<>>
  /\ LET c == Head(kids) IN
     /\ IF Inside(c, block)
        THEN cache' = Append(cache, c) /\ UNCHANGED queue
        ELSE queue' = Append(queue, c) /\ UNCHANGED cache
     /\ pushMax' = [d \in Dims |-> Greatest(pushMax[d], c[d])]
  /\ kids' = Tail(kids)
  /\ UNCHANGED <<config, pc, ready, block, limit, pushMin, walkVars, graphWidth>>

-----------------------------------------------------------------------------
(* Pop. *)

\* popFrom: the places of the list s a pop may take
PopPlaces(s) ==
  CASE Strategy = "BFS" -> {1}
    [] Strategy = "DFS" -> {Len(s)}
    [] OTHER -> DOMAIN s

\* A context of the cache becomes ready; ALL takes them all.
Take ==
  IF Strategy = "ALL"
  THEN ready' = ready \o cache /\ cache' = <<>>
  ELSE \E i \in PopPlaces(cache) :
         ready' = Append(ready, cache[i]) /\ cache' = RemoveAt(cache, i)

\* pop and popTo, when something waits and nothing is ready
Pop ==
  /\ pc = "idle" /\ kids = <<>> /\ ready = <<>>
  /\ \/ cache # <<>> /\ Take /\ UNCHANGED pc
     \/ cache = <<>> /\ queue # <<>> /\ pc' = "grow" /\ UNCHANGED <<cache, ready>>
  /\ UNCHANGED <<config, queue, kids, perimeterVars, walkVars, graphWidth>>

\* Mutant of TryBlock: the minima of the last update are kept.
TryBlock_KeepsMin(b, next) ==
  /\ block' = b
  /\ pushMin' = pushMin
  /\ cur' = 1 /\ after' = next /\ pc' = "update"
  /\ UNCHANGED <<config, listVars, pushMax, graphWidth>>

\* The block becomes b and updateQueue begins.
TryBlock(b, next) ==
  /\ block' = b
  /\ pushMin' = pushMax
  /\ cur' = 1 /\ after' = next /\ pc' = "update"
  /\ UNCHANGED <<config, listVars, pushMax, graphWidth>>

\* Mutant of Update: the iterator advances after an erasure.
Update_Advances ==
  /\ pc = "update" /\ cur <= Len(queue)
  /\ LET c == queue[cur] IN
     /\ pushMin' = [d \in Dims |-> Least(pushMin[d], c[d])]
     /\ IF Inside(c, block)
        THEN cache' = Append(cache, c) /\ queue' = RemoveAt(queue, cur)
        ELSE UNCHANGED <<cache, queue>>
  /\ cur' = cur + 1
  /\ UNCHANGED <<config, pc, ready, kids, block, limit, pushMax, after, graphWidth>>

\* updateQueue: what the block now holds moves to the cache
Update ==
  /\ pc = "update" /\ cur <= Len(queue)
  /\ LET c == queue[cur] IN
     /\ pushMin' = [d \in Dims |-> Least(pushMin[d], c[d])]
     /\ IF Inside(c, block)
        THEN cache' = Append(cache, c) /\ queue' = RemoveAt(queue, cur) /\ UNCHANGED cur
        ELSE cur' = cur + 1 /\ UNCHANGED <<cache, queue>>
  /\ UNCHANGED <<config, pc, ready, kids, block, limit, pushMax, after, graphWidth>>

\* The loop of BLOCK_ALL takes what is found and goes on, the others return.
EndUpdate ==
  /\ pc = "update" /\ cur > Len(queue)
  /\ IF cache = <<>> THEN UNCHANGED <<cache, ready>> ELSE Take
  /\ pc' = IF cache = <<>> \/ Strategy = "ALL" THEN after ELSE "idle"
  /\ UNCHANGED <<config, queue, kids, perimeterVars, walkVars, graphWidth>>

-----------------------------------------------------------------------------
(* The loop of pop: a search for a block that holds a waiting context. *)

NextIncr(m, p) == (m + p - (m % p)) % Word
Grown(d) == Least(limit[d], (block[d] + Period[d]) % Word)
Restarted(d) == NextIncr(pushMin[d], Period[d])

\* Mutant of Growing: BLOCK_RFS stops when one limit is reached.
Growing_StopsEarly ==
  CASE Strategy = "RFS" -> IF \A d \in Dims : block[d] < limit[d] THEN Dims ELSE {}
    [] Strategy = "DFS" -> {"h"} \cap { d \in Dims : block[d] < Least(limit[d], pushMax[d]) }
    [] OTHER            -> {"w"} \cap { d \in Dims : block[d] < Least(limit[d], pushMax[d]) }

\* The dimensions the inner loop lets the block grow in, if it goes on.
Growing ==
  CASE Strategy = "RFS" -> IF \E d \in Dims : block[d] < limit[d] THEN Dims ELSE {}
    [] Strategy = "DFS" -> {"h"} \cap { d \in Dims : block[d] < Least(limit[d], pushMax[d]) }
    [] OTHER            -> {"w"} \cap { d \in Dims : block[d] < Least(limit[d], pushMax[d]) }

Grow ==
  /\ pc = "grow" /\ Growing # {}
  /\ TryBlock([d \in Dims |-> IF d \in Growing THEN Grown(d) ELSE block[d]], "grow")
  /\ UNCHANGED limit

EndGrow ==
  /\ pc = "grow" /\ Growing = {}
  /\ pc' = IF Strategy = "RFS" THEN "double" ELSE "restart"
  /\ UNCHANGED <<config, listVars, perimeterVars, walkVars, graphWidth>>

CanRestart == \A d \in Dims : pushMin[d] < limit[d]

\* A block further on.  In BLOCK_DFS alone the doubling is the else of this step.
Restart ==
  /\ pc = "restart" /\ CanRestart
  /\ TryBlock([d \in Dims |-> Least(limit[d], Restarted(d))],
              IF Strategy = "DFS" THEN "grow" ELSE "double")
  /\ UNCHANGED limit

NoRestart ==
  /\ pc = "restart" /\ ~ CanRestart /\ pc' = "double"
  /\ UNCHANGED <<config, listVars, perimeterVars, walkVars, graphWidth>>

\* A new block, and limits doubled.
Double ==
  /\ pc = "double"
  /\ TryBlock([d \in Dims |-> IF Strategy = "RFS" THEN (limit[d] + Period[d]) % Word
                                                  ELSE Restarted(d)], "grow")
  /\ limit' = [d \in Dims |-> (limit[d] + limit[d]) % Word]

-----------------------------------------------------------------------------
Root == [d \in Dims |-> IF d = "h" THEN 0 ELSE 1]

\* The root is pushed by pushInit2Waiting; a block is at first one period.
Init ==
  /\ config \in Configs
  /\ pc = "idle"
  /\ cache = <<>> /\ queue = <<>> /\ ready = <<>> /\ kids = <<Root>>
  /\ block = Period /\ limit = config.limit
  /\ pushMin = [d \in Dims |-> 0] /\ pushMax = [d \in Dims |-> 0]
  /\ cur = 1 /\ after = "grow"
  /\ graphWidth = 1

Next ==
  \/ Evaluate \/ Push \/ Pop \/ Update \/ EndUpdate
  \/ Grow \/ EndGrow \/ Restart \/ NoRestart \/ Double

\* The engine is one thread, which never blocks.
Spec == Init /\ [][Next]_vars /\ WF_vars(Next)

-----------------------------------------------------------------------------
(* Properties. *)

\* The variables have their types; block and limits are words.
TypeOK ==
  /\ config \in Configs
  /\ pc \in {"idle", "grow", "restart", "double", "update"}
  /\ after \in {"grow", "double"}
  /\ {cache, queue, ready, kids} \subseteq Seq(Context)
  /\ {block, limit} \subseteq [Dims -> 0 .. Word - 1]
  /\ {pushMin, pushMax} \subseteq Context
  /\ cur \in 1 .. Len(queue) + 1
  /\ graphWidth \in Nat

\* The cache holds the waiting contexts the block holds, and no other: push and
\* updateQueue agree on the block although pop moves it back and forth.
Partitioned ==
  /\ \A i \in DOMAIN cache : Inside(cache[i], block)
  /\ \A i \in DOMAIN queue : pc # "update" \/ i < cur => ~ Inside(queue[i], block)

\* No waiting context lies beyond mPushHeightMax and mPushWidthMax, which end
\* the growth of the block.
MaxCovers ==
  \A s \in {cache, queue} : \A i \in DOMAIN s : Inside(s[i], pushMax)

Held(s) == { s[i] : i \in DOMAIN s }

Pool == INSTANCE WaitingPool
          WITH pool <- Held(cache) \cup Held(queue) \cup Held(kids), ready <- Held(ready)

\* The strategy is a pool: a pop takes contexts that wait when none is ready,
\* no context is lost between the two lists, and a pop of a pool that is not
\* empty returns.
ImplementsPool == Pool!Spec

\* "Sinon on repasse par la file d'attente pour recuperer de nouveaux Execution
\* Contextes" (SymbexController.cpp:153): a pop called because something waits
\* returns.
PopReturns == pc # "idle" ~> pc = "idle"

\* BLOCK_RFS doubles its limits only when no waiting context is within them.
LimitsFirst ==
  [][Strategy = "RFS" /\ limit' # limit =>
       \A i \in DOMAIN queue : ~ Inside(queue[i], limit)]_vars

=============================================================================
