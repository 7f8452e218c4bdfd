# Formal model of the EFM Symbex exploration kernel

Eclipse EFM Symbex (`src/org.eclipse.efm.symbex`) executes a model symbolically: it
builds a graph of *execution contexts*, evaluating one waiting context after another,
each evaluation producing the child contexts its model allows. What is explored, in
which order and when it stops is decided by *processor units* plugged into the kernel.
This directory holds TLA+ modules of that kernel, the configurations TLC checks
them with, and theorems TLAPS checks.

## 1. The system

| Part | Source (below `src/org.eclipse.efm.symbex/src`) | State it keeps | Operations |
|---|---|---|---|
| Evaluation loop | `sew/SymbexDispatcher`, `SymbexController`, `SymbexProcessor`, `SymbexJob` | job lists, lifecycle, step and evaluation counters, graph width | `start`, `analyseReady`, `initStep`/`runStep`, `analyseResult` |
| Requests | `sew/SymbexControllerRequestManager`, `...RequestStatus` | a bit mask, one listener list per request, one shared list of listeners being called | `postRequest*`, `fireRequest*` |
| Unit manager | `sew/SymbexControllerUnitManager`, `famcore/api/CompositeControllerUnit` | units in order of precedence, iterators | `prefilter`, `finalizePrefiltering`, `postfilter`, `finalizePostfiltering` |
| Execution queues | `famcore/queue/ExecutionQueue`, `collection/List.h` | ready, result, ante, failed lists, the pool of waiting contexts | push, pop, splice, requeue |
| Waiting strategies | `famcore/queue/Waiting*` | a table of queues, offsets, blocks, weights | `push`, `smartPush`, `pop`, `popTo` |
| Main unit | `famcore/api/MainProcessorUnit` | limits, stop marker, its own list of pushed contexts | filters, finalization of results |
| Coverage units | `famcore/api/BaseCoverageFilter`, `famdv/coverage` | coverage statistics, heuristic class | filters that post STOP, REQUEUE_WAITING, GOAL_ACHIEVED |
| Hit-or-jump | `famcore/hitorjump` | leaves, roots, backtrack and buffer lists, trial count | filter, CONTINUE and GOAL_ACHIEVED handlers |
| Redundancy | `famcore/redundancy` | path scope iterators | prefilter |
| Selecting units | `famsc/testing` | projection, test purpose | postfilters that fill the ante list |
| Graph | `fml/runtime/ExecutionContext` | parent, children, height, width, evaluation number, ending status | child API |
| Computer | `computer/primitive` | environments, saved messages | `init`, `run`, one primitive per statement: output, input, `input_enabled` and the statements on buffers |
| Buffers | `fml/buffer` | messages | push, pop, top, compare |

The rest (parsers, builder and compiler, expression and type library, solver adapters,
gRPC server, printers and serializers, test projects) is listed, with the reason it is
left out, under `components` in `PROJECT.json`.

**How the parts interact.** One thread runs `SymbexDispatcher::start`: `analyseReady`
filters the contexts in *ready* and refills it from the pool of *waiting* contexts until
some pass every prefilter; these are handed to the processor, which evaluates them;
`analyseResult` filters the results, pushes their children to the pool, and the loop
goes round while the controller is runnable. Units act on the loop in two ways: they
move contexts between lists from their filters, and they post requests, which the
controller fires at fixed places, calling the handlers of the units that posted them.

**What is hard.** There is no second thread; the hard part is the protocol between the
loop and the units. A stop can be posted at any point and must be final. Requests are a
bit and a list that must agree, and all fires share one list of listeners. A context
passes through a dozen lists by moves that different classes make. Hit-or-jump puts
evaluated-around contexts back, and can do so forever but for one counter. Limits are
tested in one half of the loop and counted in the other. The widths of contexts are
assigned at three places. Hit-or-jump keeps coverage, roots, leaves and a backtrack list
that describe the same search and are updated at different moments. Messages are read from
either end of a buffer by operations that each have their own idea of its top.
`PROJECT.json` lists each hazard at its line.

## 2. Modules

| Module | What it is |
|---|---|
| `ExecutionQueues` | the lists of contexts as a function from names to sequences; append, erase, move, splice, clear |
| `SymbexLoop` | the evaluation loop with its units: the state machine |
| `MCSymbexLoop`, `SymbexLoop_*.cfg` | instances for TLC |
| `SymbexLoopProofs` | lemmas on the list operations; theorems on the loop: types, requests, stops, the evaluation limit |
| `SymbexOwnersProofs` | theorems on the loop: who holds a context, and how often it is evaluated |
| `SymbexPlacesProofs` | theorems on the loop: the places of contexts in the graph, and that none is forgotten |
| `WaitingPool` | what the loop expects of a waiting strategy: the abstract specification |
| `WaitingTable` | the strategies on a table of lists: basic, ALL, WEIGHT, and the requeue; implements `WaitingPool` |
| `WaitingBlock` | the BLOCK strategies and their search; implements `WaitingPool` where the search ends |
| `MCWaitingTable`, `MCWaitingBlock`, `Waiting*.cfg` | instances for TLC |
| `WaitingTableProofs`, `WaitingBlockProofs` | theorems on the strategies |
| `ListLemmas` | facts about sequences the proofs share |
| `HitOrJump` | the unit `AvmHitOrJumpProcessor` and its two hit processors, on an explicit graph, with the loop around it reduced to its rounds |
| `HitOrJumpProofs` | theorems on the search: types, that a goal of an ordered search is one, that nothing is evaluated twice and nothing sliced off is used |
| `Buffers` | message buffers as values: one operator per operation, the policy as a parameter |
| `MessageExchange` | the communication statements on buffers, and `input_enabled`; implements `Channel` |
| `Channel` | what the buffers promise together: the abstract specification |
| `MCHitOrJump`, `MCMessageExchange`, `HitOrJump_*.cfg`, `MessageExchange_*.cfg` | instances for TLC |
| `MessageExchangeProofs` | lemmas on the buffers, theorems on the statements |

### Correspondence

`pc` names the place in the code where the thread is. A list that a filter walks is
walked one context per step with `cur` as the iterator, because a unit may erase, move
or stop at each; the walk over units is `unit`. Every other action is one straight
piece of code: `AnalyseReady` to `HandOver` are the branches of
`SymbexController::analyseReady`, `Evaluate` is one context of `initStep` or `runStep`,
`AnalyseResult` to `EndGoalResult` are `analyseResult` with the postfilters and
`MainProcessorUnit::finalizePostfiltering`, `Loop` is the test of `start`. Handlers are
called while `firing`, the code's `mFireRequestListener`, is not empty.

`q` holds the lists: `waiting` (the pool), `ready`, `working` and `analysed` (the job
lists of processor and controller), `result`, `ante` (contexts selected by a unit),
`main` (the list of the main unit), `failed`, and the lists of hit-or-jump. `ec` is the
sequence of contexts created so far, so `Len(ec)` is the static `ID_NUMBER` the node
limit is tested against.

Units are configured by constants. `Filters` use the base class's filters and reject
contexts. `Coverages` post what the two coverage units post. `Selectors` append children
to the ante list as `Projection` does. `JumpUnits` is the hit-or-jump unit. The data of
a unit (coverage tables, trace patterns, weights) is a choice; what it does to the loop
with the outcome is not.

Left to choice: the children an evaluation creates and their ending statuses (bounded
by `Outcomes`); which waiting context the pool gives (all strategies are covered); the
verdicts of the redundancy filter and of units; whether the stop file exists when it is
looked for. `finalizePostfiltering` removes a child of status NOTHING from the list it
iterates over; the iterator it then advances is invalid, so that step goes on or ends
in `crashed`.

**Waiting strategies.** `SymbexLoop` gives the pool a choice of what it pops, so its results
hold of every order; `WaitingTable` and `WaitingBlock` model what each strategy really
does with its lists, with the evaluation around them reduced to "children are pushed".
`PushPlaces`, `ChildOrder` and `PopPlaces` are the three policies the C++ templates
combine. In `WaitingTable` a context is its path in the tree and its weight; one step of a
requeue is one context weighed and pushed back. A requeue that found nothing strongly achievable ends
with `initializeTraceDriver`: `SeekTake` takes a list and finds, or does not find, a context to drive a trace
to, `Restore` pushes its contexts back, one per step, and `EndRestore` goes on with the next list. Its
walk, and the `hasWaiting(WEIGHT_STRONGLY_ACHIEVABLE)` of the unit's heuristic, look at lists by weight; one
that goes past the table ends in `crashed`, as what is read there is no list. In `WaitingBlock` it is its height and
width, and one step is one round of the search of `pop`, or one context looked at by
`updateQueue`: `Growing`, `Restart` and `Double` are the three ways the block moves, which
the four strategies combine differently. `Word` is the modulus of `size_t`.

**Hit-or-jump.** In `SymbexLoop` the unit is one among others and what its search finds is
a choice: `JumpGivesUp`, `JumpBacktracks` and `JumpSelects` each stand for a whole
`handleRequestContinue`, with any leaves that `hit` may find and `hojSelection` may take. A leaf that is
jumped to may stay among those to backtrack to, and a context that is evaluated may be put in ready again,
as in the code, so with this unit nothing is claimed of who holds a context. After the last jump the lists
of the unit are left as they are, which nobody looks at; with a local search still to come they
are a choice. `HitOrJump` has the search. The graph of the program is given (`parent`, with `path`,
the contexts on the path to each, and `sat`, which points a context satisfies), the exploration opens it. `hoj` holds the members
of the unit (`roots`, `leaves`, `absolute`, `black`, `buffer`, `backtrack`, `positive`, the
height and trial counters) and of its hit processor (`covered`, `bits`, `most`, `best`,
`selected`). `Visit` is one call of the recursive `hit` of `HitOrderedProcessor` and
`HitUnorderedProcessor`, with the tests in the order of the code. The calls under way are in `todo`: one
loop over children each, with the contexts it has left and what was hit on the path to them;
`Return` is the end of such a loop. When a better leaf is met the best ones so far are saved one by one
(`SaveBest`, the loop over `mMaxHitEC`) before `hit` goes on. `Save`, `Candidate` and `Leaf`
are what it does at a leaf; `EndHit` is the rest of `handleRequestContinue`. `Selections` is `hojSelection`, `Backtrack` is `hojBacktrack`,
`Sliced` and `Preserved` are `jumpSliceLucky` and `updatePreserved`; `HandleContinue` is
`handleRequestContinue` with the branches `Found`, `Jump`, `Try`, `GiveUp`, and
`HandleGoalAchieved` is the stop or the local restart. `Explore` is one round of the loop:
prefilter of the main unit (its limits are the set `beyond`), prefilter of hit-or-jump,
evaluation. The exploration begins at leaves of the graph of another
engine, or at its root (`MainProcessorUnit::collectContext`), all different and none below another, which
is what `ConfigsAssumption` says of `initial`; they are handed to the pool before the unit runs.
A trace has at least one point, or `BaseHitProcessor::configure` fails. Contexts that wait are popped one at a time, in any order; what the code draws
at random is a choice. A second evaluation of a context,
or one in a batch that holds it twice, ends a behaviour in `again`, the
climb of `updatePreserved` past the top, which dereferences null, in `crashed`; a read past
the end of a vector is a choice of what it removes.

**Messages.** `buf` is the buffers of one symbolic path: a statement with several
successors is followed into any of them, a statement that is not satisfied ends the path and
is no step. `Output`, `OutputTo`, `Input` and `InputFrom` are `pushMessage`, `pushMessageTo`,
`popMessage` and `popMessageFrom` of `AvmCommunicationFactory` for the protocols buffer,
unicast or anycast (one successor per buffer), multicast and broadcast; `Enter`, `SkipOne`
and `Leave` are `init`, the saving loop and `restoreMessage` of `AvmInputEnabledPrimitive`,
between which the machine runs its statements; the rest are the statements of
`AvmBufferPrimitive`. `held` is the messages that `pop` and `top` have read whole, into variables of
type message (`popMessage`, `top`); `pushMessage` and `assignMessage` are push, append and assign#top with such
a message as their argument, which goes into the buffer as it is. A variable keeps its message, so one may be put back
more than once. The buffers differ in `TopPlace`, `PopPlaces`, `IsTop` and
`SkippedPlaces`, which the C++ classes define apart. A message that a statement on a buffer
builds (`push`, `assignTop`) has no routing, so no MID an input could ask for; one that it puts back has the
routing it came with. `popBefore` of MULTILIFO reads past
the end of its list: it goes on, or ends in `crashed`.

Simplified in the messages: one MID per port; a second identical successor of a
nondeterministic pop is the first. Not modelled: the protocols environment, transfer and rendezvous,
routing over other ports, pops with occurrence counts, `equals` of buffers, and `BROADCAST` buffers, which
`Loader::loadBuffer` never creates.

Not modelled in hit-or-jump: a jump without height (`filteringFinalize`), points composed
of other points, weights, reports and final statistics; the scheduler of regular expressions,
which the code treats as ordered.

Not modelled in the strategies: `pushCache` and `flushQueueTable`, with which a trace driver that
runs steers what is evaluated next; the requeue of `AvmCoverageProcessor`; a coverage unit that asks for
requeues of a basic strategy, which has two lists and is looked at for more; and the stack of strategies of
`pushWaitingStrategy`.

Not modelled in the loop: the requests RELEASE, RESET, RESTART, REQUEUE_RESERVE and
HEURISTIC, which no unit of the repository posts; the gRPC stepping mode; deadlock and
livelock counters (reports only); the units of `famcore/trace` that drive the loop by
hand; `jumpSlice`, which frees contexts that hit-or-jump dropped.

## 3. Properties and runs

| Run | Instance | Bounds | Shows |
|---|---|---|---|
| `SymbexLoop_explore` | fresh root, a selecting unit before a filter, redundancy, stop file, pairs of all ending statuses | 3 evaluations, 5 steps, 6 contexts, height 2, width 2 | `TypeOK`, `EvalCountWithinLimit`, `EvaluatedWithinLimits`, `DistinctPlaces`, `NoDuplicate`, `EvaluatedOnce`, `StopIsFinal`, `Termination` |
| `SymbexLoop_jump` | hit-or-jump in local scope on two leaves, and a coverage unit | 2 evaluations, 4 steps, an earlier graph of 3 contexts, which is the limit of nodes, 1 jump to 1 leaf | `RequestsHaveListeners`, `NoListenerSkipped`, `StopIsFinal`, `Termination` |
| `SymbexLoop_batch` | the ALL strategy on two leaves, a coverage unit and a filter, children that join or exit | 3 evaluations, 6 contexts | `NothingForgotten`, `StopIsFinal`, `StopIsFired` |
| `WaitingTable_strategies` | the seven strategies with one list, and WEIGHT over BFS, FIRST and ALL with 0, 3, 5 and 8 as `weight`; with 5 and 8, requeues at any time | 5 contexts, 2 children, height 3, weights on both sides of each table's end | `TypeOK`, `WindowCovers`, `ReadsWithinTable`, `PopsInOrder`, `RequeueWeighsAll`, `ImplementsPool` |
| `WaitingBlock_search` | BFS and RFS with small blocks and limits; all but RFS without limits, or with heights only | height 4, width 4, word 64 | `TypeOK`, `Partitioned`, `MaxCovers`, `ImplementsPool`, `LimitsFirst` |
| `WaitingBlock_all` | BLOCK_ALL, block 1, limits 2 | height 3, width 3 | violates `PopReturns` |
| `WaitingBlock_depth` | BLOCK_DFS, block 1, limits 2 | height 5, width 5 | violates `PopReturns` |
| `WaitingBlock_wrap` | BLOCK_BFS, block 1, limits 2 | height 7, width 7, word 16 | violates `PopReturns` |
| `HitOrJump_search` | about 200 configurations in seven families | 9 contexts, depth 3, 2 or 3 points, jumps of 1 to 3 | `TypeOK`, `GoalsHit`, `NothingTwice`, `GraphHeld`, `SearchComplete`, `SearchEnds` |
| `HitOrJump_goal` | an unordered search that goes on from two hits | the same graph | violates `GoalsAreReal` |
| `MessageExchange_programs` | six programs of one to five machines on up to four buffers | 3 or 4 messages sent, capacities 1 to 5, 2 ports | `TypeOK`, `WithinCapacity`, `InOrder`, `PresentMeansInput`, `SameOrder`, `ImplementsChannel`, `SkipsUnexpected`, `SkipEnds` |
| `MessageExchange_saves` | one machine that saves while it skips | 2 messages | violates `SavesComeBack` |

The bounds of the loop are the program's own limits (`EvalLimit`, `StepLimit`, `NodeLimit`,
`HeightLimit`, `WidthLimit`, `TrialsLimit`), set low: the state space is finite because
the program stops. They are chosen so that every limit is reached, that a context is
rejected by each of them in turn, that two contexts wait together, that two leaves allow
a local restart of hit-or-jump, and that a second child opens a column. Six contexts are
a root, two children and the children of one of them, the least for a step to push
beside what already waits.

Those of the strategies are bounds of the graph. Five contexts make a root with two children that
have one each, or one that has two, the least for a pop between levels, between siblings and
between weights to be in the wrong order; four rows and columns go past limits of 2 and 3
that are doubled twice. In `WaitingBlock_search` the word is large enough that nothing
wraps, so that what fails there is not arithmetic; in `WaitingBlock_wrap` it has 4 bits, so
that the doublings that take 63 rounds in the program take 3.
A strategy stops when its pool is empty: deadlock is not an error there.

The configurations of `HitOrJump_search` differ from a plain one in one respect per family:
`Decoys` has a path that hits two of three points and leads nowhere; `Searches` crosses
traces, orders, jumps of one and two levels and numbers of hits and leaves to go on from;
`All` asks for every trace; `Strict` forbids holes or folding, or has a single trial; `Tries` slices;
`Limits` has contexts the main unit rejects, or transitions of which the future is known;
`Starts` begins at two contexts, together or one after the other. Two branches of depth
three are the least for a jump that must be undone by backtracking, with a leaf left on the
other side. A search that is over, because STOP was posted, stands still.

The programs of `MessageExchange_programs`: `Variables` uses a FIFO and a LIFO with every
statement, and values may be refused; `RAMs` has two registers beside a FIFO, with a machine that skips on
one of them; in `Returning` a machine reads messages whole and puts them back into the FIFO and the LIFO that another
reads; `Skipping` has
four machines under `input_enabled`, each skipping in a buffer of another policy and reading its
neighbour's; `Casting` has receivers of the same multicasts with different capacities; `Saving`
has a machine that saves and one that skips a MULTILIFO. Three messages are enough to leave
one on either side of one that is taken from the middle. A program may come to an end.

What the properties say of the code:

- `StopIsFinal`: no evaluation once a stop is posted, fired, or the marker is set. This
  holds although a STOP posted by a prefilter while the pool is empty, or while ready is
  not, ends the loop *without being fired*: `hasReadyWork` refuses the hand-over and the
  controller suspends. In that case the stop handlers are never called and the lifecycle
  is suspended rather than stopped. `StopIsFired` states what does hold: a stop
  requested while results are analysed is fired.
- `EvalCountWithinLimit` is claimed for pools that give one context at a time without
  hit-or-jump: with the ALL strategy the limit is passed by the size of a batch, because
  it is tested when contexts are filtered and counted when they are evaluated.
- `EvaluatedWithinLimits` and `DistinctPlaces` are claimed for a fresh root (`FreshRoot`): the leaves
  of an earlier engine's graph get a width only if they are in the first batch. They rest
  on `NoDuplicate`, so on `NoReturn`: what is twice in a list is finalized twice.
- `NothingForgotten` is claimed without units that select, jump or stop: a selecting unit
  drops the other children by design.
- `NoDuplicate`, `EvaluatedOnce`: a context has one owner, whatever the units reject or select, where there
  is no hit-or-jump unit and one selecting unit at most (`NoReturn`). A hit-or-jump unit may put
  back what is evaluated, and leave in its backtrack list what it put in ready; for it `NothingTwice` of `HitOrJump` says where
  that does not happen. `SelectorPostfilter` does not look at what the list
  ante already holds, and neither do the units: with two selecting units that match the same
  child the lists share it, and TLC shows so at once when `Selectors` is given two units.
- `NoListenerSkipped`, `RequestsHaveListeners`: the protocol of the request manager.
- `ImplementsPool`: a strategy is a pool. No context is lost, doubled or popped while
  another is ready, by a requeue or the search for a trace either, and every pop returns.
- `ReadsWithinTable`: nothing but the lists of the table is looked at. With a list for each weight up to
  UNKNOWN_ACHIEVABLE this holds of requeues. With fewer it does not, so such tables are checked without
  requeues; TLC shows the read past the table when `Configs` is given `SmallConfigs` of `MCWaitingTable`.
- `PopsInOrder`: each strategy pops in the order its name promises. For the depth first ones
  this is the order of a walk of the tree, which needs the push, child and pop policies to fit.
- `WindowCovers`, `Partitioned`, `MaxCovers`: what makes the pops right. A weighted pop scans
  the window only; a block pop looks in the cache first.
- `RequeueWeighsAll`: a requeue that finds nothing strongly achievable has given a new weight
  to all that waited with a weight up to NON_PRIORITY, although it pushes contexts back into
  the table it is walking.
- `LimitsFirst`: BLOCK_RFS exceeds its limits only when nothing waits within them.
- `PopReturns`: a pop ends. It does not, in three ways.
- `GoalsHit`: whatever was jumped over or backtracked to, a context is said to achieve the goal
  only if the trace is on the path to it. Claimed for ordered searches and for those that go
  on from one hit; for the others it fails (`HitOrJump_goal`).
- `NothingTwice`: no context is evaluated twice by jumps, backtracking and restarts. It is claimed
  where one leaf is jumped to, and where a search that reached its goal is over, or has its leaves cleared by
  `hojSelectionFinal`: otherwise it goes on below the context that has the trace, and a local restart does so from
  leaves the last search left behind; see the notes below.
- `GraphHeld`: nothing that was sliced off is used again. Claimed where all roots have the height of the jump.
- `SearchComplete`: an ordered search with backtracking that keeps all hits misses no trace that
  the limits let it reach. The unit gives such an answer only in this configuration.
- `InOrder`, `ImplementsChannel`: what inputs receive was sent to the buffer it comes from, and from
  a FIFO comes once and in the order of sending. `assignTop` puts a new message first, and a message value that is pushed or
  assigned comes again (`Reordering`): programs with these statements are excluded from `InOrder`. `Channel` includes
  them: a message that has left its buffer comes back only by `PutBack`, when the program has read it, or
  stays where the buffer is a register. Inputs from a sender are excluded from both, since one from
  another sender reads a top it leaves where it is.
- `PresentMeansInput`: after the skipping, if something expected is PRESENT, an input finds it. It relates
  `popBefore`, `computePresence` and `pop`, three definitions of where a buffer is read. Without the
  skipping it fails for MULTIFIFO, whose `isTop` looks everywhere.
- `SkipsUnexpected`: a machine drops only messages that it may receive and does not expect.
- `SameOrder`: the receivers of the same multicasts see the same messages in the same order, as all or
  none of them are given one; broadcast does not promise it. The n-th message received from one buffer
  is the n-th received from the other. It is claimed where no value is refused: one that a
  receiver refuses has left its buffer without being received, and the other may receive it.
- `SkipEnds`: the saving loop ends where the machine expects nothing, on a buffer that is not a register
  (see below).

### Where the code disagrees with its comments

Each has a run that shows it.

1. `WaitingBlock_all`: `popTo` of BLOCK_ALL has a `while( true )` with no exit
   (`WaitingStrategyBLOCK.h:233`). With the default, unlimited block, all contexts are in the
   cache and the loop is never entered; with limits the first pop beyond the block hangs.
2. `WaitingBlock_depth`: in BLOCK_DFS the doubling of the limits is the `else` of the restart
   (`:523`). The restart is tried whenever the smallest height and the smallest width that
   wait are within the limits; they may be those of two contexts, neither of which is within
   both limits, and then every round restarts in vain.
3. `WaitingBlock_wrap`: BLOCK_BFS doubles in every round (`:420`) and never tries the whole of
   its limits, so contexts within the limits may stay out of every block it tries, until the
   limits overflow to zero.
4. `MessageExchange_saves`: `restoreMessage` takes the list of successors by value and writes
   to copies of their data (`AvmInputEnabledPrimitive.cpp:293`): the messages that were saved
   are lost.
5. `HitOrJump_goal`: in an unordered search that goes on from several hits, the points covered on the
   way to each root are forgotten after a round without a hit (`HitUnorderedProcessor.cpp:360`);
   a point is then counted twice, another is missing, and the goal is said to be achieved.

### Met while modelling

Seen in the code, part of the model where it says so, without a run of their own. Of hit-or-jump:

- the loop of `hojSelection` over all leaves removes from the backtrack list the one at
  `jumpOffset`, not the one selected (`AvmHitOrJumpProcessor.cpp:857`): `Unselected`. With several leaves to
  jump to, a leaf may be evaluated again; `NothingTwice` excludes that configuration;
- `updatePreserved` uses `continue` where it reaches a top and climbs on: `Climbs`;
- with an unordered search a leaf saved for backtracking keeps a number of points that lags its set
  (the count of `saveBacktrackable` defaults to 0, `AvmHitOrJumpProcessor.h:414`), so a goal below it can
  be missed: why `SearchComplete` is about ordered searches;
- `goalAchieved` is an equality, which a sum of hits can jump over;
- a local restart does not reset the coverage flags of the goal, the context backtracked to and the leaves;
- in mode *max* a dead end after a first goal stops with contexts left to backtrack to;
- in global scope the first jump ends at height `delta`, not `delta` below the initial contexts;
- after slicing with roots of different heights an ancestor of another root can be destroyed;
- leaves that hit as much as the selected ones and are not selected are not kept for backtracking;
- with *final* off and *stop* off, the context where the goal was reached is put in ready and evaluated again;
- an unordered search from a single root begins at the root itself, whose points count again;
- `hitSelect` indexes `mMaxHitEC` by a place in the list of leaves, which `updateRelativeLeaf` has shifted;
- `willNeverSat` gives up a disjunction of points as soon as one of them can never be satisfied
  (`fml/trace/TraceChecker.cpp:900`; points composed of others are not modelled).

Of the messages:

- the saving loop goes round for ever when a machine saves something and expects something, and the top
  is neither (`AvmInputEnabledPrimitive.cpp:217`): the second disjunct of `SkipOne`, which is why
  `SkipEnds` is about machines that expect nothing. The loop does not look at receivers either;
- `RamBuffer::pop` keeps the message (`RamBuffer.h:235`), so on a register that loop does not end even for a
  machine that expects nothing: `RAMs` has one, and `SkipEnds` excludes it;
- a message value that is pushed or assigned (`AvmBufferPrimitive.cpp:47`, `:246`, `:388`) has the routing it came with and
  is received again: `PushMessage`, `AssignMessage`;
- `popBefore` of `MultiLifoBuffer.h:240` moves its iterator before it looks: it never looks at the top and
  erases the neighbour of what it looked at;
- `popMessageFrom` pops only from the sender asked for, but is satisfied by another's message, which it
  leaves in the buffer (`AvmCommunicationFactory.cpp:736`): `InputFrom`;
- `outputTo` over broadcast has no successor (`AvmCommunicationFactory.cpp:1471`);
- assigning the top of a SET does not compare it with the rest (`SetBuffer.h:58`), although `push`
  does, to "assume that is a set" (`SetBuffer.h:268`);
- `BaseBufferQueue::equals` advances one of its two iterators (`BaseBufferQueue.cpp:38`), and
  `uncontains` (`BaseBufferQueue.h:319`) does not advance at all over a signal that is not there;
  `compareBUFFER` (`famcore/redundancy/BaseDataComparator.cpp:1043`) holds an empty buffer equal to any other, and
  does not look at MULTIFIFO and MULTILIFO buffers.

Of the loop and the strategies: `initializeTraceDriver` flushes the lists 0 to 5 of the table whatever its
size (`TransitionCoverageFilter.cpp:2690`), and a queue with a `weight` below 5 is accepted
(`ExecutionQueue.cpp:290`), so a requeue that finds nothing to drive a trace to reads past such a table (`SeekNone`);
`hasWaiting(2)` of the coverage unit (`TransitionCoverageFilter.cpp:1321`)
reads a third list where a basic strategy has two (and so does that of a WEIGHT table with fewer than two lists:
`Evaluate`); `setRequestRequeueWaiting` and
`hasRequestStatus` ignore their argument (`SymbexControllerRequestStatus.h:125`); a list
pushed to a strategy goes in first to last whatever the strategy (`WaitingStrategy.h:351`);
`finalizePostfiltering` drops all other results once a unit selects one (`MainProcessorUnit.cpp:666`).

**Fairness.** `WF_vars(Step)`: the engine is a single thread that never blocks, so while
a step is possible one is taken. `Termination` then follows from the program's limits
alone: nothing fair is asked of the choices. Hit-or-jump terminates because its trial
counter is bounded and each local restart consumes an initial context. The strategies have
`WF_vars(Next)` for the same reason, and `WaitingPool` asks `WF_vars(Pop)` of them: `popTo` is
a call the thread waits for. `HitOrJump` has `WF_vars(Next)`: its handlers and rounds are the
engine's. `MessageExchange` asks it of `SkipOne` alone, a loop without a wait; nothing obliges a
program to run another statement.

## 4. Theorems

`SymbexLoopProofs` proves, for every set of units in any order, all limits and all
outcomes of evaluations (assumptions `UnitsAssumption`, `LimitsAssumption`,
`OutcomesAssumption`, `ModesAssumption`: types of the constants and at most one
hit-or-jump unit):

- `TypeCorrect`: `Spec => []TypeOK`. `TypeOK` is inductive together with `FiringWhere`;
  the work is in `Evaluate`, which appends new contexts, and in the lists, for which
  this module has one lemma per operation.
- `RequestsConsistent`: `Spec => []RequestsHaveListeners`, by `RequestSteps`, which
  reduces every action to one of four things it may do to the requests.
- `ListenersAllCalled`: `Spec => NoListenerSkipped`, from `FiringWhere`: a request is fired
  only at places where no listener is left to be called.
- `NothingEvaluatedAfterStop`: `Spec => StopIsFinal`. The invariant `StopInv` is the
  argument: contexts are at work only while no stop is known of; from the moment the
  marker is set, the main prefilter rejects all that is in ready before the unit filters
  and the hand-over; firing STOP empties ready.

`WaitingBlockProofs` proves for every configuration, word and graph (`BlockAssumption`: types,
and periods and limits of at least 1):

- `TypeCorrect`: `Spec => []TypeOK`.
- `CacheMatchesBlock` and `PushMaxCovers`: `Spec => []Partitioned`, `Spec => []MaxCovers`. They
  hold together with `Searching`: a search runs only when the cache is empty and no child
  is left to push, so the block never moves under a full cache.
- `LimitsExhausted`: `Spec => LimitsFirst`. `AtLimits` says where BLOCK_RFS may be: it never restarts, and
  reaches the doubling only when the block has grown to the limits, so that by `Partitioned` what still
  waits in the queue is outside them.
- `BlockIsPool`: for BFS, DFS and RFS the safety part of `ImplementsPool`, `Pool!Init` and
  `[][Pool!Next]_(Pool!vars)`: pushes and the updates of the search are stutters of `WaitingPool`, a take is its
  `Pop`. The abstract pool is a set, so the argument needs that no two live contexts are the same
  one; `Lone` gives each a column of its own, and the lists have none in common. BLOCK_ALL is left out: with
  limits its pop takes contexts, goes on, and does not return (`WaitingBlock_all`).

`WaitingTableProofs` proves for every number of lists and all weights (`TableAssumption`):

- `TypeCorrect`: `Spec => []TypeOK`.
- `ScanCoversTable`: `Spec => []WindowCovers`. `WindowCovers` is inductive with `TypeOK`: a push
  widens the window to the list it uses, a pop drops empty lists only, a requeue empties lists.
- `RequeueComplete`: `Spec => RequeueWeighsAll`. `RequeueInv` says where what has not been weighed yet is:
  taken out of the table, or in a list the walk has still to come to. What is pushed back behind
  the walk or ahead of it has been weighed.
- `StrategyOrder`: `Spec => PopsInOrder`, by one order per strategy: `Placed` (each list holds the contexts of its
  weight) for WEIGHT, and `Ordered` for the others: the list, the children still to push and
  what is ready are in the order in which they are going to be popped. For the depth first strategies
  it holds because of facts on paths: a child comes after all that its parent leaves to the left.
- `NoReadPastTable`: if every unit that asks for requeues has a list for each weight up to UNKNOWN_ACHIEVABLE,
  `Spec => []ReadsWithinTable`.
- `TableIsPool`: the safety part of `ImplementsPool`, every step a step of `WaitingPool` or a stutter, the search for a
  trace after a requeue included; with fewer lists, up to a read past the table. `Spread`
  says that of all contexts in the lists none is reached through another (`Fork`), so each is in one list, at one place;
  `Phases`, that a requeue runs when nothing is ready or to be pushed.

`MessageExchangeProofs` proves for every program, that is, for all machines and their ancestors, ports,
buffers, policies, capacities and routings (`ExchangeAssumption`: types of the constants):

- `TypeCorrect`: `Spec => []TypeOK`.
- `CapacityKept`: `Spec => []WithinCapacity`. Every step is of one of six kinds (`StepKinds`): a new message
  `Comes` or is `Assigns`ed to a top, one that was read is put back (`Returns`), one is received (`Receives`) or
  read where it is (`Reads`), or input_enabled `Moves`, where messages may leave without being received. Lemmas on what each operation does to a buffer come first;
  the theorems are proved of the kinds instead of the actions.
- `ReceivedInOrder`: `Spec => []InOrder`. The strengthening is `Ordered`: in a program without the statements
  of `Reordering` the messages of a FIFO are in the order of their numbers, each above all that were received from it.
- `BuffersAreChannel`: `Spec => ImplementsChannel`, the refinement. The strengthening is `Fresh`: the
  messages of a buffer that no variable holds have different numbers up to `sent`, so that one that is taken
  out is out for good; what a variable holds may come back, which is a `PutBack` of `Channel`.
- `SkippedNotExpected`: `Spec => SkipsUnexpected`. Only the first step of `input_enabled` drops messages, and
  whatever the policy it keeps all but places where something is skippable (`KeptPicks`, `SkipKeeps`).
- `PresentIsRead`: `Spec => PresentMeansInput`. By policy: after skipping, the first, or last, message left is
  expected (`SkipLeavesFirst`, `SkipLeavesLast`), a set is read anywhere, and a register holds one message
  at most (`OneInRegister`, which is inductive with `TypeOK`).
- `MulticastsInSameOrder`: `Spec => []SameOrder`. `TwinInv`: twin buffers have `Seen` the same numbers. As they are
  received in increasing order (`Ordered`), the n-th received is the one that has n - 1 seen numbers below
  it, whichever of the two buffers they are counted in.

`EvaluationsLimited` of `SymbexLoopProofs`: `Spec => []EvalCountWithinLimit`, where the pool gives one
context at a time and no unit jumps; `CountInv` says that one context at most is ready or at work, and that
what has passed the prefilter of the main unit leaves room for one evaluation; it holds on top of `StopInv`.

`SymbexOwnersProofs` proves, under the same assumptions and `NoReturn`, one selecting unit at most and no
hit-or-jump unit:

- `NobodyOwnsTwice`: `Spec => []NoDuplicate`, and `EvaluatedAtMostOnce`: `Spec => EvaluatedOnce`.
  That the lists are disjoint is not inductive: `FinalizeChild` appends a child to main without
  looking whether some list has it already, and a selecting unit does so to ante. `OwnersInv`
  says why it has none: the children of a context are its own and different (`Family`);
  what waits has no evaluation number (`Unevaluated`); and the children of a context just
  evaluated (`AnalysedFree`), of a result (`ResultsFree`), or left to finalize (`KidsFree`) are
  in no list, except in ante those of a result the selecting unit has passed. Outside the postfilters
  contexts only flow between lists (`Flows`, one lemma per list operation in
  `SymbexLoopProofs`), which keeps all of it; `Evaluate` and the steps of the postfilters have
  one lemma each. `StopInv` is needed where children are finalized: nothing is at work then.

`SymbexPlacesProofs` proves, under the same assumptions:

- `PlacesDistinct`: `Spec => []DistinctPlaces`. Widths are given out at three places (the root's before the first
  step, the first child's and the others' when children are finalized), for each child in turn and in whatever
  order the pool gives the parents. `Columns` is the argument: who opens a column is above all others in it,
  and a first child is in that of its parent. It needs that the children of a context are
  numbered in their order (`Kin`), are finalized in that order (`InTurn`), and that nothing but the root is evaluated
  before widths are given (`FirstStep`).
  It stands on `OwnersInv`, so it is about engines without a hit-or-jump unit, as is the next.
- `LimitsKept`: `Spec => []EvaluatedWithinLimits`. `FitInv`: all that the main prefilter let pass fits; it needs
  `PlacesInv`, as the place of a context must not move between the filter and the evaluation.
- `NoSuccessorForgotten`: `Spec => []NothingForgotten`. `ReachInv`: what is due for its evaluation is in one of the lists
  `Reached`, or its container is in one of `Behind`.

`HitOrJumpProofs` proves for every graph and every configuration (`ConfigsAssumption`):

- `TypeCorrect`: `Spec => []TypeOK`. `TypeInv` types every member of the unit and the loops of `todo`; with
  it goes `Unachieved`: `hit` is under way only while the goal is not reached, so that it is not left without a request.
- `OrderedGoalsHit`: `Spec => [](config.ordered => GoalsHit)`. The points covered are a number, and what
  makes the number right is where the search stands: `OrderedInv` says that the first `covered` points are
  on the path to each root, to each context that is ready, waits or is left over from the search, and that
  each entry kept for backtracking has the first so many points on its path, its own number. `HitInv` says
  it of a `hit` under way: what is done in each loop of `todo` is on the path to the contexts left in it,
  counted above `covered`, and each of the best so far has `most` more. `HitsExtend` is the step: what
  `Hits` adds to an initial part of the trace that is on a path gives such a part again, in the order of the
  path, and without folding with one point per context. A jump keeps it because its roots are some of the
  leaves.
- `OnlyOnce`: `Spec => []NothingTwice`. A batch is evaluated once if it is in the `Fringe`, the contexts
  that are not evaluated and whose parent is. `OnceInv` is why: the lists that wait for a later search
  (buffer, leaves, entries kept for backtracking) share no context and are in the fringe (`Resting`); no
  root of a jump is above another and what is evaluated below one is within the height of the jump
  (`Going`), so that the leaves `hit` takes are new; while the jump is explored nothing kept for
  backtracking is below a root (`Clear`), so that what is put back is not what is explored. During `hit`,
  the loops of `todo` have no context above another that is left or above one that was found (`Toured`),
  so that none is found twice (`FoundOnce`).
  It needs that `hit` never counts more points than there are: its best leaves are then past the goal without
  being leaves of the exploration. In a search of a sequence `OrderedInv` has it. In one of an interleaving
  the points are sets and the counts are of their own: `FreeInv` says that behind each count there is a set
  of as many points (`Holds`). What breaks that is the mark of `hitSelect`, which a context that is
  jumped to again brings back with the points it had then; `Ahead` says why this does not happen: what was
  marked is not below a root other than itself, and where there are several roots it has all the points that
  are covered.
- `NothingGoneUsed`: `Spec => []GraphHeld`. A jump destroys what hangs on a path that it climbs from a root and
  no root is on. That spares the roots only if all of one beginning (`Shares`) are at one height (`Level`,
  `SliceSpares`), and stays in the graph only if they are as deep as the jump (`Deep`). `HeldInv` is why they
  are: what comes to be evaluated is no deeper than the height of the jump unless it is a root (`Coming`), so the leaves below the roots
  are at that height (`Fits`), which `TurnFits` says of what `hit` takes, with `OnceInv`. What is kept for
  later, the rest of the buffer and what reached the goal, is safe since no slice leaves the beginning of
  its root (`SliceBelow`): what is kept is a beginning or is below one that is done (`Placed`, `Poised`). What is
  gone takes all below it (`Closed`), so that no new child is. A search that does not slice has nothing to
  lose (`Whole`). A limit of the main unit (`beyond`) leaves leaves at other heights, and a goal that does not
  clear the leaves goes on from those of an earlier search, so `GraphHeld` is not claimed there.

Only model-checked:

- what depends on fairness: `Termination`, `StopIsFired`, `SkipEnds`, `SearchEnds`, and of `ImplementsPool` that a pop
  returns;
- of `HitOrJump`, `GoalsHit` for unordered searches with one hit, and `SearchComplete`, which is about what a
  whole traversal has looked at.

## 5. Plan

1. Done: `ExecutionQueues`, `SymbexLoop`, `WaitingPool` and the strategies of `famcore/queue`,
   `Buffers` and `MessageExchange` with `Channel`, with their proofs; `HitOrJump`.
2. An abstract worklist (waiting, evaluated, rejected contexts) that `SymbexLoop` implements.
3. `CoverageHeuristic`: the class, trial counters and requeueing of the coverage units; the
   stack of strategies and the trace drivers' use of the cache.
4. `RedundancyFilter` with its path iterators; `Lifecycle`, the static and dynamic states
   of runnable elements.
5. Proofs: the goals of the unordered searches of `HitOrJump`; the theorems of what is modelled next.
