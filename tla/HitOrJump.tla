----------------------------- MODULE HitOrJump -----------------------------
(***************************************************************************)
(* AvmHitOrJumpProcessor: the search of a trace of points in the graph of  *)
(* execution contexts.  The graph is explored down to a height; then the   *)
(* contexts that hit most points of the objective are looked for below the *)
(* relative roots, and some of them, or failing that some leaves, are the  *)
(* roots of the next jump.  One step is one context looked at by hit, or,  *)
(* around the unit, one round of SymbexController::analyseReady and the    *)
(* evaluation it leads to.                                                 *)
(***************************************************************************)
EXTENDS Integers, FiniteSets, SequencesExt

CONSTANT Configs  \* the graphs of the program, and the configurations of the unit

VARIABLES
  config,
  open,       \* the contexts that were evaluated
  ready,      \* the contexts handleRequestContinue put in ready
  waiting,    \* and those that wait
  limited,    \* the contexts rejected with hasReachedLimit
  gone,       \* the contexts jumpSlice destroyed
  requested,  \* the requests posted and not fired
  pc,         \* "run"; "hit" in mHitProcessor; "crashed"; "again" when a context was evaluated twice
  hoj,        \* the members of the unit and of its mHitProcessor
  todo,       \* what hit has still to look at
  saves       \* and, before that, to save

vars == <<config, open, ready, waiting, limited, gone, requested, pc, hoj, todo, saves>>

Config ==
  [ parent : Seq(Nat),               \* the graph, a tree: of context c, 0 above the top,
    path : Seq(SUBSET Nat),          \* and the contexts on the path to c, itself included,
    sat : Seq(SUBSET Nat),           \* which points c satisfies,
    beyond : SUBSET Nat,             \* which contexts are beyond a limit of the main unit,
    initial : Seq(Nat),              \* where the exploration begins
    points : Nat \ {0}, ordered : BOOLEAN, \* the trace: a sequence, or an interleaving
    transitions : BOOLEAN,           \* whether its points are transitions
    global : BOOLEAN, delta : Nat \ {0}, trialsLimit : Nat,
    hitCount : Nat \ {0}, jumpCount : Nat,
    consecutive : BOOLEAN, folding : BOOLEAN,
    max : BOOLEAN, lucky : BOOLEAN, final : BOOLEAN, slice : BOOLEAN, stop : BOOLEAN ]

\* Contexts are numbered as they are created, after the one above them; the exploration begins at
\* leaves of what another engine explored.
ASSUME ConfigsAssumption ==
  \A c \in Configs :
    /\ c \in Config
    /\ \A d \in DOMAIN c.parent : c.parent[d] < d
    /\ Len(c.path) = Len(c.parent) /\ Len(c.sat) = Len(c.parent)
    /\ \A d \in DOMAIN c.parent :
         c.path[d] = {d} \cup IF c.parent[d] = 0 THEN {} ELSE c.path[c.parent[d]]
    /\ c.initial # <<>> /\ c.initial \in Seq(DOMAIN c.parent)
    /\ \A i, j \in DOMAIN c.initial : c.initial[i] \in c.path[c.initial[j]] => i = j

Contexts == DOMAIN config.parent
Points == 1 .. config.points

\* configureImpl: what the heuristics imply of each other
HitCount == IF config.max THEN Cardinality(Contexts) + 1 ELSE config.hitCount
Backtracks == config.max \/ ~ config.lucky
Slices == ~ Backtracks /\ config.slice

\* the elements of s that are in S, in their order
Those(s, S) ==
  LET Among(k) == Cardinality({ j \in 1 .. k : s[j] \in S })
  IN [ i \in 1 .. Among(Len(s)) |-> s[CHOOSE k \in DOMAIN s : s[k] \in S /\ Among(k) = i] ]

-----------------------------------------------------------------------------
(* The graph. *)

Above(c) == IF c = 0 THEN {} ELSE config.path[c]

Height(c) == Cardinality(Above(c)) - 1
Ancestor(c, k) ==
  IF k <= Height(c) THEN CHOOSE a \in Above(c) : Height(a) = Height(c) - k ELSE 0
Top(c) == c = 0 \/ config.parent[c] = 0 \/ c \in Range(config.initial)
Below(c) == { d \in Contexts : c \in Above(d) /\ d # c }
Children(c) ==
  IF c \in open THEN { d \in Contexts \ gone : config.parent[d] = c } ELSE {}
Childless(c) == Children(c) = {}

\* TraceChecker::willNeverSat of one of the points P: what is reachable is known of transitions
WillNeverSat(c, P) ==
  /\ config.transitions /\ config.parent[c] # 0
  /\ \E p \in P : \A d \in Below(c) : p \notin config.sat[d]

Entry(c, covered, bits) == [ ec |-> c, covered |-> covered, bits |-> bits ]

Init ==
  /\ config \in Configs
  /\ open = UNION { Above(config.parent[c]) : c \in Range(config.initial) }
  /\ ready = <<>> /\ limited = {} /\ gone = {} /\ pc = "run" /\ todo = <<>> /\ saves = <<>>
  /\ requested = {"CONTINUE"}
  /\ hoj = [ roots |-> IF config.global THEN config.initial ELSE <<Head(config.initial)>>,
             leaves |-> <<>>, absolute |-> <<>>, black |-> <<>>,
             buffer |-> IF config.global THEN <<>> ELSE Tail(config.initial),
             backtrack |-> <<>>, positive |-> <<>>,
             covered |-> 0, bits |-> {}, most |-> 0, best |-> <<>>, selected |-> <<>>,
             height |-> IF config.global THEN config.delta
                        ELSE config.delta + Height(Head(config.initial)),
             trials |-> 0, stopped |-> TRUE, goal |-> FALSE ]
  /\ waiting = Range(hoj.roots)

-----------------------------------------------------------------------------
(* hit: the traversal of what was explored below the roots. *)

Achieved(h) == h.covered = config.points

\* the points that context c adds to those done on its path
Hits(c, done) ==
  LET rest == Points \ done
      hits == IF config.ordered
              THEN { p \in rest : \A r \in rest : r <= p => r \in config.sat[c] }
              ELSE rest \cap config.sat[c]
  IN IF config.folding \/ hits = {} THEN hits ELSE {Min(hits)}

\* the points whose future decides whether a path that misses the rest is given up
Wanted(rest) == IF config.ordered /\ rest # {} THEN {Min(rest)} ELSE rest

\* isAbsoluteLeaf, and what it does to the lists
IsAbsolute(h, c) ==
  Childless(c) /\ c \notin Range(h.leaves) \cup limited /\ Height(c) < h.height
AsLeaf(h, c) ==
  IF IsAbsolute(h, c) THEN [h EXCEPT !.absolute = Append(@, c)]
  ELSE IF Childless(c) /\ c \in limited \ Range(h.leaves) THEN [h EXCEPT !.leaves = Append(@, c)]
  ELSE h

\* willNeverReached, willNeverHit
IsLost(h, c, P) == IsAbsolute(h, c) \/ WillNeverSat(c, P)
AsLost(h, c, P) ==
  IF ~ IsAbsolute(h, c) /\ WillNeverSat(c, P)
  THEN [AsLeaf(h, c) EXCEPT !.black = Append(@, c)] ELSE AsLeaf(h, c)

(***************************************************************************)
(* saveBacktrackable.  What is covered up to this leaf is kept with it:    *)
(* the number of points if they are ordered, the set of points if not.     *)
(***************************************************************************)
Save(h, c, done, count) ==
  LET P == Wanted(Points \ done)
  IN IF ~ Childless(c) THEN h
     ELSE IF IsLost(h, c, P) THEN AsLost(h, c, P)
     ELSE [AsLost(h, c, P) EXCEPT !.backtrack = Append(@,
             IF config.ordered THEN Entry(c, h.covered + count, h.bits)
                               ELSE Entry(c, h.covered, done)) ]

\* a context that hits more than all before it
Better(h, c, done, count) == [h EXCEPT !.most = count, !.best = <<Entry(c, count, done)>>]
Equal(h, c, done, count) == [h EXCEPT !.best = Append(@, Entry(c, count, done))]

Candidate(h, c, done, count) ==
  IF count > h.most THEN Better(h, c, done, count) ELSE Equal(h, c, done, count)

\* Mutant of Replaced: what was found before is forgotten.
Replaced_Forgotten(h, count) == <<>>

\* the best ones so far are kept for backtracking when a better one is met
Replaced(h, count) == IF count > h.most /\ Backtracks THEN h.best ELSE <<>>

\* the next context to look at, the first created, and what remains
Turn == Min(Head(todo).left)
Others == [todo EXCEPT ![1].left = @ \ {Turn}]

aroundVars == <<config, open, ready, waiting, limited, gone, requested, pc>>

SaveBest ==
  /\ pc = "hit" /\ saves # <<>>
  /\ LET b == Head(saves) IN hoj' = Save(hoj, b.ec, b.bits, b.covered)
  /\ saves' = Tail(saves)
  /\ UNCHANGED <<todo, aroundVars>>

Looks == pc = "hit" /\ saves = <<>> /\ todo # <<>>

\* the end of a loop over contexts
Return ==
  /\ Looks /\ Head(todo).left = {}
  /\ todo' = Tail(todo)
  /\ UNCHANGED <<hoj, saves, aroundVars>>

\* a leaf of what was explored
Leaf(h, c, done, count) ==
  IF count >= h.most /\ count > 0 THEN Candidate(h, c, done, count)
  ELSE IF Backtracks THEN Save(h, c, done, count) ELSE h

\* the loop over the contexts left, below a path on which done was hit
Task(left, done, count) == [ left |-> left, done |-> done, count |-> count ]

\* hit of one context
Visit ==
  /\ Looks /\ Head(todo).left # {}
  /\ LET c == Turn
         done == Head(todo).done
         hits == Hits(c, done)
         now == done \cup hits
         total == Head(todo).count + Cardinality(hits)
         P == Wanted(Points \ now)
         asks == hits = {} \/ (config.ordered /\ config.folding /\ P # {})
         asked == IF asks THEN AsLost(hoj, c, P) ELSE hoj
         known == AsLeaf(asked, c)
     IN IF c \in Range(hoj.black) \/ (hits = {} /\ config.consecutive /\ done # {})
        THEN hoj' = hoj /\ saves' = <<>> /\ todo' = Others
        ELSE IF asks /\ IsLost(hoj, c, P) THEN hoj' = asked /\ saves' = <<>> /\ todo' = Others
        ELSE IF total = config.points - hoj.covered
        THEN hoj' = Candidate(asked, c, now, total) /\ saves' = Replaced(asked, total) /\ todo' = Others
        ELSE IF ~ Childless(c)
        THEN hoj' = asked /\ saves' = <<>> /\ todo' = <<Task(Children(c), now, total)>> \o Others
        ELSE IF IsAbsolute(asked, c) THEN hoj' = known /\ saves' = <<>> /\ todo' = Others
        ELSE hoj' = Leaf(known, c, now, total) /\ saves' = Replaced(known, total) /\ todo' = Others
  /\ UNCHANGED aroundVars

\* hitCoverageBitset: what is covered on the path to a root
BitsOf(h, r) ==
  LET known == { i \in DOMAIN h.selected : h.selected[i].ec = r }
  IN IF known = {} THEN h.bits ELSE h.selected[Min(known)].bits

\* HitOrderedProcessor::hit and HitUnorderedProcessor::hit: where it begins,
FromTop(h) == ~ config.ordered /\ Len(h.roots) = 1
Tasks(h) ==
  IF FromTop(h) THEN << Task({h.roots[1]}, h.bits, 0) >>
  ELSE [ i \in DOMAIN h.roots |->
           Task(Children(h.roots[i]), IF config.ordered THEN 1 .. h.covered ELSE BitsOf(h, h.roots[i]), 0) ]
Started(h) ==
  [h EXCEPT !.most = 0, !.best = <<>>, !.selected = IF FromTop(h) THEN @ ELSE <<>>]

\* and what it leaves
Covering(v) ==
  LET covered == v.covered + v.most
  IN IF v.most = 0 THEN v
     ELSE [v EXCEPT !.covered = covered,
                    !.bits = IF covered = config.points THEN Points ELSE @,
                    !.leaves = [ i \in DOMAIN v.best |-> v.best[i].ec ]]

-----------------------------------------------------------------------------
(* hojSelection and hojSelectionFinal: which leaves are the next roots. *)

\* updateRelativeLeaf: a leaf is dropped if it, or what is above it for a jump, leads nowhere
Dropped(h, l) ==
  \/ l \in Range(h.absolute)
  \/ \E k \in 0 .. config.delta - 1 :
       /\ Ancestor(l, k) \in Range(h.black)
       /\ \A j \in 0 .. k : ~ Top(Ancestor(l, j))

\* where jumpOffset is left by updateRelativeLeaf: by the last leaf that is not absolute
Offset(h) ==
  LET climbed == Those(h.leaves, Contexts \ Range(h.absolute))
      Stops(k) == \/ Top(Ancestor(Last(climbed), k))
                  \/ Ancestor(Last(climbed), k) \in Range(h.black)
      stops == { k \in 0 .. config.delta - 1 : Stops(k) }
  IN IF climbed = <<>> THEN 0 ELSE Min(stops \cup {config.delta})

\* the indices that RANDOM draws, or all
Picks(count, n) ==
  IF count = 1 \/ n = 1 THEN { <<i>> : i \in 1 .. n }
  ELSE IF count < n THEN { p \in [1 .. count -> 1 .. n] : IsInjective(p) }
  ELSE { [ i \in 1 .. n |-> i ] }

\* Mutant of Unselected: nothing is removed.
Unselected_None(h, leaves, pick) == {h.backtrack}

(***************************************************************************)
(* A leaf that is jumped to is no longer kept for backtracking, except     *)
(* that the loop over all leaves removes the one at jumpOffset, which is   *)
(* another's or none of theirs: what a vector holds beyond its end.        *)
(***************************************************************************)
Unselected(h, leaves, pick) ==
  LET Without(S) == Those(h.backtrack, { b \in Range(h.backtrack) : b.ec \notin S })
      offset == Offset(h) + 1
  IN IF config.jumpCount = 1 \/ config.jumpCount < Len(leaves) \/ Len(leaves) = 1
     THEN { Without({ leaves[i] : i \in Range(pick) }) }
     ELSE IF offset <= Len(leaves) THEN { Without({leaves[offset]}) }
     ELSE { Without(S) : S \in {{}} \cup { {b.ec} : b \in Range(h.backtrack) } }

\* hitSelect, which in an ordered search only marks the context
HitSelect(h, bests) ==
  IF config.ordered THEN h
  ELSE [h EXCEPT !.selected = @ \o bests, !.bits = Last(bests).bits]

Selections(h, hit) ==
  LET leaves == Those(h.leaves, { l \in Contexts : ~ Dropped(h, l) })
      none == [h EXCEPT !.leaves = <<>>, !.roots = <<>>]
      count == IF hit THEN HitCount ELSE config.jumpCount
      Roots(pick) == [ i \in DOMAIN pick |-> leaves[pick[i]] ]
      Bests(pick) == [ i \in DOMAIN pick |-> h.best[pick[i]] ]
  IN IF leaves = <<>> \/ count = 0 THEN {none}
     ELSE UNION { CASE hit ->
            { [HitSelect(none, Bests(pick)) EXCEPT !.roots = Roots(pick)] }
          [] ~ hit /\ Backtracks ->
            { [none EXCEPT !.roots = Roots(pick), !.backtrack = left] :
                left \in Unselected(h, leaves, pick) }
          [] ~ hit /\ ~ Backtracks -> { [none EXCEPT !.roots = Roots(pick)] }
          : pick \in Picks(count, Len(leaves)) }

FinalSelections(h) ==
  { [h EXCEPT !.leaves = <<>>, !.roots = <<>>,
              !.positive = @ \o [ i \in DOMAIN pick |-> h.leaves[pick[i]] ] ]
    : pick \in Picks(HitCount, Len(h.leaves)) }

-----------------------------------------------------------------------------
(* jumpSlice, for a lucky search: what no root is below is destroyed. *)

Cleared(h) == IF Slices THEN [h EXCEPT !.black = <<>>, !.absolute = <<>>] ELSE h

\* Mutant of Preserved: the roots alone.
Preserved_Roots(roots) == Range(roots)

\* updatePreserved
Preserved(roots) ==
  Range(roots) \cup
  { a \in Contexts : ~ Top(a) /\ \E r \in Range(roots), k \in 1 .. config.delta - 1 :
                      ~ Top(r) /\ a = Ancestor(r, k) }

\* updatePreserved goes on above the top of the graph
Climbs(roots) == \E r \in Range(roots) : ~ Top(r) /\ Height(r) < config.delta - 1

\* jumpSliceLucky
Sliced(roots) ==
  LET climbed == { a \in Contexts : \E r \in Range(roots), k \in 1 .. config.delta :
                     a = Ancestor(r, k) /\ \A j \in 0 .. k : ~ Top(Ancestor(r, j)) }
      cut == (UNION { Children(a) : a \in climbed }) \ Preserved(roots)
  IN cut \cup UNION { Below(c) : c \in cut }

SliceAround(roots) ==
  /\ gone' = IF Slices THEN gone \cup Sliced(roots) ELSE gone
  /\ pc' = IF Slices /\ Climbs(roots) THEN "crashed" ELSE "run"

-----------------------------------------------------------------------------
(* handleRequestContinue. *)

\* Mutant of GiveUp: no request is posted.
GiveUp_Silent(h, posted) ==
  hoj' = h /\ requested' = posted /\ UNCHANGED <<ready, waiting>>

GiveUp(h, posted) ==
  hoj' = h /\ requested' = posted \cup {"GOAL"} /\ UNCHANGED <<ready, waiting>>

\* Mutant of Backtrack: the coverage is not what it was at the leaf.
Backtrack_Covered(h, posted) ==
  LET b == Last(h.backtrack)
  IN /\ hoj' = [h EXCEPT !.backtrack = Front(@), !.roots = <<b.ec>>,
                         !.height = Height(b.ec) + config.delta, !.stopped = TRUE]
     /\ waiting' = {b.ec} /\ requested' = posted \cup {"CONTINUE"} /\ UNCHANGED ready

\* hojBacktrack
Backtrack(h, posted) ==
  LET b == Last(h.backtrack)
  IN /\ hoj' = [h EXCEPT !.backtrack = Front(@), !.roots = <<b.ec>>,
                         !.covered = b.covered, !.bits = b.bits,
                         !.height = Height(b.ec) + config.delta, !.stopped = TRUE]
     /\ waiting' = {b.ec}
     /\ requested' = posted \cup {"CONTINUE"}
     /\ UNCHANGED ready

BacktrackOrGiveUp(h, posted) ==
  IF h.backtrack = <<>> THEN GiveUp(h, posted) ELSE Backtrack(h, posted)

\* Mutant of Try: a jump does not ask to go on.
Try_Unposted(h, posted) ==
  LET t == [h EXCEPT !.trials = @ + 1]
  IN IF t.trials > config.trialsLimit \/ t.stopped THEN GiveUp(t, posted)
     ELSE IF t.roots = <<>> THEN BacktrackOrGiveUp(t, posted)
     ELSE /\ hoj' = [t EXCEPT !.height = @ + config.delta, !.stopped = TRUE]
          /\ ready' = t.roots /\ requested' = posted /\ UNCHANGED waiting

\* the end of the handler: the next trial
Try(h, posted) ==
  LET t == [h EXCEPT !.trials = @ + 1]
  IN IF t.trials > config.trialsLimit \/ t.stopped THEN GiveUp(t, posted)
     ELSE IF t.roots = <<>> THEN BacktrackOrGiveUp(t, posted)
     ELSE /\ hoj' = [t EXCEPT !.height = @ + config.delta, !.stopped = TRUE]
          /\ ready' = t.roots
          /\ requested' = posted \cup {"CONTINUE"}
          /\ UNCHANGED waiting

Jump(h, hit, posted) ==
  \/ /\ h.leaves # <<>>
     /\ \E s \in Selections(h, hit) :
          SliceAround(s.roots) /\ Try(Cleared(s), posted)
  \/ /\ h.leaves = <<>>
     /\ SliceAround(h.roots)
     /\ IF ~ h.goal /\ Backtracks /\ h.backtrack # <<>>
        THEN Backtrack(Cleared(h), posted)
        ELSE Try([Cleared(h) EXCEPT !.stopped = TRUE, !.roots = <<>>], posted)

Stays == gone' = gone /\ pc' = "run"

Found(h, posted) ==
  \E f \in IF config.final \/ config.max
           THEN { Cleared(s) : s \in FinalSelections(h) } ELSE {h} :
    IF config.max /\ f.backtrack # <<>> THEN Backtrack(f, posted) /\ Stays
    ELSE IF config.stop THEN GiveUp(f, posted) /\ Stays
    ELSE Jump(f, TRUE, posted \cup {"GOAL"})

\* what follows the answer of hit
Answered(v, hit) ==
  \/ hit /\ Achieved(v) /\ Found([v EXCEPT !.goal = TRUE], {})
  \/ hit /\ ~ Achieved(v) /\ Jump(v, TRUE, {})
  \/ /\ ~ hit
     /\ IF config.consecutive /\ v.covered > 0 THEN GiveUp(v, {}) /\ Stays ELSE Jump(v, FALSE, {})

HandleContinue ==
  /\ pc = "run" /\ requested = {"CONTINUE"} /\ ready = <<>> /\ waiting = {}
  /\ \/ hoj.roots = <<>> /\ BacktrackOrGiveUp(hoj, {}) /\ Stays /\ UNCHANGED <<todo, saves>>
     \/ hoj.roots # <<>> /\ Achieved(hoj) /\ Answered(hoj, TRUE) /\ UNCHANGED <<todo, saves>>
     \/ /\ hoj.roots # <<>> /\ ~ Achieved(hoj)
        /\ pc' = "hit" /\ hoj' = Started(hoj) /\ todo' = Tasks(hoj) /\ saves' = <<>>
        /\ UNCHANGED <<ready, waiting, gone, requested>>
  /\ UNCHANGED <<config, open, limited>>

\* the rest of the handler, when hit has looked at all
EndHit ==
  /\ pc = "hit" /\ todo = <<>> /\ saves = <<>>
  /\ Answered(Covering(hoj), hoj.most > 0)
  /\ UNCHANGED <<config, open, limited, todo, saves>>

\* handleRequestGoalAchieved: stop, or start again from the next initial context
HandleGoalAchieved ==
  /\ pc = "run" /\ "GOAL" \in requested /\ "STOP" \notin requested /\ ready = <<>>
  /\ IF hoj.buffer = <<>>
     THEN requested' = (requested \ {"GOAL"}) \cup {"STOP"} /\ UNCHANGED <<waiting, hoj>>
     ELSE /\ requested' = (requested \ {"GOAL"}) \cup {"CONTINUE"}
          /\ waiting' = {Head(hoj.buffer)}
          /\ hoj' = [hoj EXCEPT !.buffer = Tail(@), !.roots = <<Head(hoj.buffer)>>,
                                !.height = config.delta + Height(Head(hoj.buffer)),
                                !.covered = 0, !.bits = {}, !.stopped = TRUE, !.trials = 0]
  /\ UNCHANGED <<config, open, ready, limited, gone, pc, todo, saves>>

-----------------------------------------------------------------------------
(* prefilter of the main unit and of this one, and the evaluation of what passes. *)

Lost(c) ==
  /\ config.ordered /\ config.transitions  \* goalWillNeverAchieved, of the last point
  /\ config.points \notin config.sat[c] /\ WillNeverSat(c, {config.points})

Explore ==
  /\ pc = "run" /\ "STOP" \notin requested
  /\ ready # <<>> \/ "GOAL" \notin requested
  /\ \E batch \in IF ready # <<>> THEN {ready} ELSE { <<c>> : c \in waiting } :
       LET main == Range(batch) \ config.beyond
           lost == { c \in main : Lost(c) }
           passed == { c \in main \ lost : Height(c) < hoj.height }
       IN /\ limited' = limited \cup (Range(batch) \cap config.beyond)
          /\ hoj' = [hoj EXCEPT
                       !.stopped = @ /\ main = {},
                       !.black = @ \o Those(batch, lost),
                       !.leaves = @ \o Those(batch, main \ (lost \cup passed))]
          /\ pc' = IF passed \cap open = {} /\ IsInjective(Those(batch, passed)) THEN "run" ELSE "again"
          /\ open' = open \cup passed
          /\ ready' = <<>>
          /\ waiting' = (waiting \ Range(batch)) \cup
                        { d \in Contexts : config.parent[d] \in passed }
  /\ UNCHANGED <<config, gone, requested, todo, saves>>

Next == Explore \/ HandleContinue \/ Return \/ SaveBest \/ Visit \/ EndHit \/ HandleGoalAchieved

\* the engine is a thread that never waits
Spec == Init /\ [][Next]_vars /\ WF_vars(Next)

-----------------------------------------------------------------------------
Ended == pc \notin {"run", "hit"} \/ "STOP" \in requested

\* The lists of the unit hold contexts of the graph, and a search that runs has something to do.
TypeOK ==
  /\ open \subseteq Contexts /\ gone \subseteq Contexts
  /\ limited \subseteq config.beyond
  /\ waiting \subseteq Contexts /\ ready \in Seq(Contexts)
  /\ \A l \in {"roots", "leaves", "absolute", "black", "buffer", "positive"} :
       hoj[l] \in Seq(Contexts)
  /\ requested \subseteq {"CONTINUE", "GOAL", "STOP"} /\ requested # {}
  /\ pc \in {"run", "hit", "crashed", "again"}

\* whether the points P of the trace are on the path down to a context
Traced(c, P) ==
  \E at \in [P -> Above(c)] :
    /\ \A p \in P : p \in config.sat[at[p]]
    /\ config.ordered /\ ~ config.folding => IsInjective(at)
    /\ config.ordered => \A p, r \in P : p < r => at[p] <= at[r]
Witness(c) == Traced(c, Points)

GoalsAreReal ==
  /\ Achieved(hoj) => \A b \in Range(hoj.best) : Witness(b.ec)
  /\ \A c \in Range(hoj.positive) : Witness(c)

\* Whatever was jumped over, backtracked to or left of an earlier search, a context is said to
\* achieve the goal only if the trace is on the path to it (hit, hojSelectionFinal), in a search
\* that is ordered or that goes on from one context that hits.
GoalsHit == config.ordered \/ HitCount = 1 => GoalsAreReal

\* No context is evaluated twice, which would double its children, however backtracking,
\* selections and the restarts of a local search put contexts back; unless several leaves
\* are jumped to and kept at once (hojSelection), or the search goes on from what reached the goal,
\* which a local restart does too where hojSelectionFinal does not clear the leaves.
NothingTwice ==
  /\ config.jumpCount = 1 \/ ~ Backtracks
  /\ config.final \/ config.max \/ (config.stop /\ config.global)
  => pc # "again"

\* Of what jumpSlice destroys nothing is used again, and it never climbs above the graph, where
\* all leaves that are jumped to are as deep as the jump.
GraphHeld ==
  config.beyond = {} /\ config.final =>
    /\ pc # "crashed"
    /\ gone \cap (waiting \cup Range(ready) \cup Range(hoj.roots) \cup Range(hoj.leaves)
                  \cup Range(hoj.buffer) \cup Range(hoj.positive)) = {}

\* An ordered search with backtracking that keeps all that hit, and is not cut short by the
\* number of its trials, gives up only if no path that it may explore has the trace.
Reachable(c) ==
  /\ Above(config.parent[c]) \cap Range(config.initial) # {}
  /\ Above(config.parent[c]) \cap config.beyond = {}
AllInOne ==
  /\ config.ordered /\ ~ config.consecutive /\ config.global
  /\ Backtracks /\ HitCount > Cardinality(Contexts) /\ config.jumpCount = 1
  /\ \A c \in Range(config.initial) : Height(c) = 0
SearchComplete ==
  AllInOne /\ Ended /\ hoj.trials <= config.trialsLimit /\ ~ hoj.goal =>
    \A c \in Contexts : Reachable(c) => ~ Witness(c)

\* The search ends, whether the trials are limited or not.
SearchEnds == <>Ended
=============================================================================
