------------------------- MODULE SymbexOwnersProofs -------------------------
(* Nobody owns a context twice: the lists of the engine stay disjoint, and  *)
(* a context is evaluated at most once, for every list of units without a   *)
(* hit-or-jump unit and with one selecting unit at most, every limit and    *)
(* every outcome.                                                           *)
EXTENDS SymbexLoopProofs

-----------------------------------------------------------------------------
(* Contexts that flow: from the lists they wait in, to one another or out.  *)

\* the lists a context passes through before it is evaluated, less the selected ones
Passing == Queues \ {"analysed", "result", "ante", "failed"}

\* lists of contexts of S, none of which is twice in them
Lists(S, s) == s \in [Queues -> Seq(S)] /\ Disjoint(s)

\* From s to t no context enters the lists, and none leaves the lists of results and of
\* selected contexts.
Flows(S, s, t) ==
  /\ Lists(S, s) /\ Lists(S, t)
  /\ t["result"] = s["result"] /\ t["ante"] = s["ante"]
  /\ Held(t, "analysed") = Held(s, "analysed") /\ Held(t, "ante") = Held(s, "ante")
  /\ \A n \in Passing : \A c \in Held(t, n) : \E m \in Passing : c \in Held(s, m)
  /\ \A c \in Held(t, "failed") : \E m \in Passing \cup {"failed"} : c \in Held(s, m)

\* Nothing moves.
LEMMA StayFlows ==
  ASSUME NEW S, NEW s, Lists(S, s)
  PROVE  Flows(S, s, s)
BY DEF Flows

\* A filter erases a context.
LEMMA DropFlows ==
  ASSUME NEW S, NEW s, Lists(S, s), NEW a \in Passing, NEW i \in 1 .. Len(s[a])
  PROVE  Flows(S, s, Drop(s, a, i))
<1> DEFINE t == Drop(s, a, i)
<1>1. s \in [Queues -> Seq(S)] /\ Disjoint(s) /\ a \in Queues
  BY DEF Lists, Passing
<1>2. t \in [Queues -> Seq(S)] /\ \A n \in Queues \ {a} : t[n] = s[n]
  BY <1>1, DropType
<1>3. Disjoint(t) /\ \A n \in Queues : Held(t, n) \subseteq Held(s, n)
  BY <1>1, DropDisjoint
<1> HIDE DEF t
<1>4. {"analysed", "result", "ante", "failed"} \subseteq Queues \ {a}
  BY DEF Passing, Queues
<1>5. \A n \in {"analysed", "result", "ante", "failed"} : t[n] = s[n] /\ Held(t, n) = Held(s, n)
  BY <1>2, <1>4 DEF Held
<1>6. \A n \in Passing : n \in Queues
  BY DEF Passing
<1>7. Flows(S, s, t)
  BY <1>1, <1>2, <1>3, <1>5, <1>6 DEF Flows, Lists
<1> QED
  BY <1>7 DEF t

\* A context goes from one of these lists to another, or is rejected.
LEMMA MoveFlows ==
  ASSUME NEW S, NEW s, Lists(S, s), NEW a \in Passing, NEW i \in 1 .. Len(s[a]),
         NEW b \in Passing \cup {"failed"}
  PROVE  Flows(S, s, Move(s, a, i, b))
<1> DEFINE t == Move(s, a, i, b)
           c == s[a][i]
<1>1. s \in [Queues -> Seq(S)] /\ Disjoint(s) /\ a \in Queues /\ b \in Queues
  BY DEF Lists, Passing, Queues
<1>2. t \in [Queues -> Seq(S)] /\ \A n \in Queues \ {a, b} : t[n] = s[n]
  BY <1>1, MoveType
<1>3. /\ Disjoint(t)
      /\ \A n \in Queues \ {b} : Held(t, n) \subseteq Held(s, n) \ {c}
      /\ Held(t, b) \subseteq Held(s, b) \cup {c}
  BY <1>1, MoveDisjoint
<1>4. c \in Held(s, a)
  BY <1>1, PlacesType DEF Held
<1> HIDE DEF t, c
<1>5. {"analysed", "result", "ante"} \subseteq Queues \ {a, b}
  BY DEF Passing, Queues
<1>6. \A n \in {"analysed", "result", "ante"} : t[n] = s[n] /\ Held(t, n) = Held(s, n)
  BY <1>2, <1>5 DEF Held
<1>7. \A n \in Queues : \A d \in Held(t, n) : d \in Held(s, n) \/ (n = b /\ d \in Held(s, a))
  BY <1>3, <1>4
<1>8. Passing \cup {"failed"} \subseteq Queues
  BY DEF Passing, Queues
<1>9. Flows(S, s, t)
  BY <1>1, <1>2, <1>3, <1>6, <1>7, <1>8 DEF Flows, Lists
<1> QED
  BY <1>9 DEF t

\* A list is spliced into another.
LEMMA SpliceFlows ==
  ASSUME NEW S, NEW s, Lists(S, s), NEW a \in Passing, NEW b \in Passing, a # b
  PROVE  Flows(S, s, Splice(s, a, b))
<1> DEFINE t == Splice(s, a, b)
<1>1. s \in [Queues -> Seq(S)] /\ Disjoint(s) /\ a \in Queues /\ b \in Queues
  BY DEF Lists, Passing
<1>2. t \in [Queues -> Seq(S)] /\ \A n \in Queues : n # a /\ n # b => t[n] = s[n]
  <2>1. t \in [Queues -> Seq(S)]
    BY <1>1, SpliceType
  <2> QED
    BY <1>1, <2>1 DEF Splice
<1>3. /\ Disjoint(t)
      /\ \A n \in Queues : n # a /\ n # b => Held(t, n) = Held(s, n)
      /\ Held(t, a) = {} /\ Held(t, b) = Held(s, b) \cup Held(s, a)
  BY <1>1, SpliceDisjoint
<1> HIDE DEF t
<1>4. \A n \in {"analysed", "result", "ante", "failed"} : n \in Queues /\ n # a /\ n # b
  BY DEF Passing, Queues
<1>5. \A n \in Queues : \A d \in Held(t, n) : d \in Held(s, n) \/ (n = b /\ d \in Held(s, a))
  BY <1>3
<1>6. Passing \subseteq Queues
  BY DEF Passing
<1>7. Flows(S, s, t)
  BY <1>1, <1>2, <1>3, <1>4, <1>5, <1>6 DEF Flows, Lists
<1> QED
  BY <1>7 DEF t

\* Lists are cleared.
LEMMA ClearFlows ==
  ASSUME NEW S, NEW s, Lists(S, s), NEW N \in SUBSET Passing
  PROVE  Flows(S, s, Clear(s, N))
<1> DEFINE t == Clear(s, N)
<1>1. s \in [Queues -> Seq(S)] /\ Disjoint(s)
  BY DEF Lists
<1>2. t \in [Queues -> Seq(S)] /\ \A n \in Queues \ N : t[n] = s[n]
  BY <1>1, ClearType
<1>3. Disjoint(t) /\ \A n \in Queues : Held(t, n) = IF n \in N THEN {} ELSE Held(s, n)
  BY <1>1, ClearDisjoint
<1> HIDE DEF t
<1>4. {"analysed", "result", "ante", "failed"} \subseteq Queues \ N
  BY DEF Passing, Queues
<1>5. Passing \subseteq Queues
  BY DEF Passing
<1>6. Flows(S, s, t)
  BY <1>1, <1>2, <1>3, <1>4, <1>5 DEF Flows, Lists
<1> QED
  BY <1>6 DEF t

-----------------------------------------------------------------------------
(* The invariant. *)

\* the children of a context
Children(c) == Range(ec[c].kids)

\* where the results of a step are filtered, and where they may be left
Filtering == {"unitPostfilter", "finalizeResult"}
Late == Filtering \cup {"finalizeAnte", "push", "crashed"}

\* never evaluated, and in no list of N
Free(c, N) == ec[c].eval = 0 /\ \A n \in N : c \notin Held(q, n)

\* the unit that selects has looked at the result at place i
Selected(i) ==
  /\ pc = "unitPostfilter"
  /\ \E n \in DOMAIN PostUnits : PostUnits[n] \in Selectors /\ (n < unit \/ (n = unit /\ i < cur))

\* The children of a context are its own, and different; it has none before its evaluation.
Family ==
  \A c \in Known :
    /\ \A k \in Children(c) : ec[k].parent = c
    /\ Different(ec[c].kids)
    /\ ec[c].eval = 0 => ec[c].kids = <<>>

\* What waits for its evaluation has not been evaluated.
Unevaluated ==
  \A n \in Passing \cup {"ante"} : \A c \in Held(q, n) : ec[c].eval = 0

\* The children of the contexts just evaluated are in no list.
AnalysedFree ==
  \A p \in Held(q, "analysed") : \A k \in Children(p) : Free(k, Queues)

\* The children of a result are in no list but that of the selected contexts, once selected.
ResultsFree ==
  /\ pc \notin Late => q["result"] = <<>>
  /\ pc \in Filtering =>
       \A i \in DOMAIN q["result"] : \A k \in Children(q["result"][i]) :
         Free(k, Queues \ {"ante"}) /\ (k \in Held(q, "ante") => Selected(i))

\* The children left to finalize are in no list, and are not those of a result still to pop.
KidsFree ==
  /\ pc \notin {"finalizeResult", "crashed"} => kids = <<>>
  /\ pc = "finalizeResult" =>
       /\ Different(kids)
       /\ \A k \in Range(kids) : Free(k, Queues) /\ ec[k].parent \notin Held(q, "result")

OwnersInv ==
  Lists(Known, q) /\ Family /\ Unevaluated /\ AnalysedFree /\ ResultsFree /\ KidsFree

-----------------------------------------------------------------------------
(* The steps outside the postfilters: contexts flow. *)

\* The contexts in the lists and the children of contexts exist.
LEMMA KnownPlaces ==
  ASSUME TypeOK
  PROVE  /\ q \in [Queues -> Seq(Known)] /\ kids \in Seq(Known) /\ cur \in Nat \ {0} /\ unit \in Nat \ {0}
         /\ \A n \in Queues : Held(q, n) \subseteq Known
         /\ \A c \in Known : ec[c].kids \in Seq(Known) /\ Children(c) \subseteq Known
         /\ Range(kids) \subseteq Known
<1>1. /\ q \in [Queues -> Seq(Known)] /\ kids \in Seq(Known)
      /\ \A c \in Known : ec[c].kids \in Seq(Known)
  BY DEF TypeOK, ContextsOK
<1>2. cur \in Nat \ {0} /\ unit \in Nat \ {0}
  BY Zenon DEF TypeOK, ControlOK
<1>3. \A n \in Queues : Held(q, n) \subseteq Known
  BY <1>1, PlacesType DEF Held
<1>4. \A c \in Known : Children(c) \subseteq Known
  BY <1>1, RangeOfSeq DEF Children
<1> QED
  BY <1>1, <1>2, <1>3, <1>4, RangeOfSeq

\* A step in which contexts flow outside the postfilters keeps the invariant.
LEMMA FlowOwners ==
  ASSUME TypeOK, OwnersInv, Flows(Known, q, q'), UNCHANGED <<ec, kids>>,
         pc \notin Late, pc' \notin Late
  PROVE  OwnersInv'
<1> USE DEF OwnersInv
<1>1. Known' = Known /\ \A c \in Known : Children(c)' = Children(c)
  BY DEF Known, Children
<1>2. Lists(Known, q)' /\ Family'
  BY <1>1 DEF Flows, Family
<1>3. Unevaluated'
  BY DEF Flows, Unevaluated
<1>4. \A n \in Queues : \A c \in Held(q', n) : \E m \in Queues : c \in Held(q, m)
  <2>1. ASSUME NEW n \in Queues, NEW c \in Held(q', n) PROVE \E m \in Queues : c \in Held(q, m)
    <3>1. CASE n \in Passing
      BY <2>1, <3>1 DEF Flows, Passing
    <3>2. CASE n = "failed"
      BY <2>1, <3>2 DEF Flows, Passing, Queues
    <3>3. CASE n \in {"analysed", "ante", "result"}
      <4>1. Held(q', "result") = Held(q, "result")
        BY DEF Flows, Held
      <4> QED
        BY <2>1, <3>3, <4>1 DEF Flows
    <3> QED
      BY <3>1, <3>2, <3>3 DEF Passing
  <2> QED
    BY <2>1
<1>5. AnalysedFree'
  BY <1>4 DEF AnalysedFree, Free, Flows, Children
<1>6. ResultsFree' /\ KidsFree'
  BY DEF ResultsFree, KidsFree, Flows, Late, Filtering
<1> QED
  BY <1>2, <1>3, <1>5, <1>6

\* The first and the last place of a list that is not empty.
LEMMA EndPlaces ==
  ASSUME TypeOK, NEW a \in Queues, q[a] # <<>>
  PROVE  1 \in 1 .. Len(q[a]) /\ Len(q[a]) \in 1 .. Len(q[a])
BY KnownPlaces, EmptySeq, LenProperties

\* A filter keeps a context, rejects it or parks it.
LEMMA TakeFlows ==
  ASSUME TypeOK, Lists(Known, q), NEW b \in {"failed", "leaf"}, cur <= Len(Ready), Take(b) \/ Keep
  PROVE  Flows(Known, q, q')
<1>1. cur \in 1 .. Len(q["ready"]) /\ "ready" \in Passing /\ b \in Passing \cup {"failed"}
  BY KnownPlaces, LenProperties DEF Ready, Queues, Passing
<1>2. Flows(Known, q, Move(q, "ready", cur, b)) /\ Flows(Known, q, q)
  BY <1>1, MoveFlows, StayFlows
<1> QED
  BY <1>2 DEF Take, Keep, queueVars

LEMMA PrefilterFlows ==
  ASSUME TypeOK, Lists(Known, q), Prefilter
  PROVE  Flows(Known, q, q') /\ UNCHANGED <<ec, kids>> /\ pc \notin Late /\ pc' \notin Late
<1>1. UNCHANGED <<ec, kids>> /\ pc \notin Late /\ pc' \notin Late
  BY DEF Prefilter, MainPrefilter, ReadStopScript, EndMainPrefilter, RedundancyPrefilter,
     EndRedundancyPrefilter, FilterPrefilter, JumpPrefilter, PassPrefilter,
     CoveragePrefilterStop, NextPrefilter, EndPrefiltering, Keep, Take, EndPrefilter,
     Walking, Walked, Goto, queueVars, walkVars, Late, Filtering
<1>2. CASE \/ MainPrefilter \/ RedundancyPrefilter \/ FilterPrefilter \/ PassPrefilter
           \/ ReadStopScript
  <2>1. cur <= Len(Ready) /\ (Take("failed") \/ Keep)
    BY <1>2 DEF MainPrefilter, RedundancyPrefilter, FilterPrefilter, PassPrefilter,
       ReadStopScript, Walking
  <2> QED
    BY <1>1, <2>1, TakeFlows
<1>3. CASE JumpPrefilter
  <2>1. cur <= Len(Ready) /\ (Take("leaf") \/ Keep \/ q' = Drop(q, "ready", cur))
    BY <1>3 DEF JumpPrefilter, Walking
  <2>2. cur \in 1 .. Len(q["ready"]) /\ "ready" \in Passing
    BY <2>1, KnownPlaces, LenProperties DEF Ready, Queues, Passing
  <2>3. Flows(Known, q, Drop(q, "ready", cur))
    BY <2>2, DropFlows
  <2> QED
    BY <1>1, <2>1, <2>3, TakeFlows
<1>4. CASE \/ EndMainPrefilter \/ EndRedundancyPrefilter \/ CoveragePrefilterStop
           \/ NextPrefilter \/ EndPrefiltering
  <2>1. q' = q
    BY <1>4 DEF EndMainPrefilter, EndRedundancyPrefilter, CoveragePrefilterStop,
       NextPrefilter, EndPrefiltering, EndPrefilter, queueVars
  <2> QED
    BY <1>1, <2>1, StayFlows
<1> QED
  BY <1>2, <1>3, <1>4 DEF Prefilter

\* Firing a stop clears ready and waiting; firing another request moves nothing.
LEMMA FireFlows ==
  ASSUME Lists(Known, q), Fire
  PROVE  Flows(Known, q, q') /\ UNCHANGED <<ec, kids>> /\ pc \notin Late /\ pc' \notin Late
<1>1. UNCHANGED <<ec, kids>> /\ pc \notin Late /\ pc' \notin Late
  BY DEF Fire, FireStop, FireRequeueWaiting, NothingToFire, FireGoalReady, NoGoalReady,
     EndGoalReady, FireContinue, EndContinue, FireGoalResult, NoGoalResult, EndGoalResult,
     Goto, queueVars, walkVars, Late, Filtering
<1>2. q' = q \/ q' = Clear(q, {"ready", "waiting"})
  BY DEF Fire, FireStop, FireRequeueWaiting, NothingToFire, FireGoalReady, NoGoalReady,
     EndGoalReady, FireContinue, EndContinue, FireGoalResult, NoGoalResult, EndGoalResult,
     queueVars
<1>3. {"ready", "waiting"} \in SUBSET Passing
  BY DEF Passing, Queues
<1>4. Flows(Known, q, q) /\ Flows(Known, q, Clear(q, {"ready", "waiting"}))
  BY <1>3, StayFlows, ClearFlows
<1> QED
  BY <1>1, <1>2, <1>4

\* Without a hit-or-jump unit the handlers of requests move nothing.
LEMMA HandleFlows ==
  ASSUME JumpUnits = <<>>, Lists(Known, q), Handle
  PROVE  Flows(Known, q, q') /\ UNCHANGED <<ec, kids>> /\ pc \notin Late /\ pc' \notin Late
<1>1. IgnoreGoal
  BY DEF Handle, JumpGoal, JumpGivesUp, JumpBacktracks, JumpSelects, Listener, Jumps, Range
<1>2. q' = q /\ UNCHANGED <<ec, kids>> /\ pc \notin Late /\ pc' \notin Late
  BY <1>1 DEF IgnoreGoal, Listener, queueVars, walkVars, Late, Filtering
<1> QED
  BY <1>2, StayFlows

\* The loop itself: contexts are popped from the pool and handed over.
LEMMA RestFlows ==
  ASSUME TypeOK, Lists(Known, q),
         \/ AnalyseReady \/ PopWaiting \/ NothingToRefill \/ HandOver
         \/ EndEvaluate \/ NoResult \/ Loop
  PROVE  Flows(Known, q, q') /\ UNCHANGED <<ec, kids>> /\ pc \notin Late /\ pc' \notin Late
<1>1. UNCHANGED <<ec, kids>> /\ pc \notin Late /\ pc' \notin Late
  BY DEF AnalyseReady, PopWaiting, NothingToRefill, HandOver, EndEvaluate, NoResult, Loop,
     Goto, queueVars, walkVars, Late, Filtering
<1>2. {"waiting", "ready", "working"} \subseteq Passing
  BY DEF Passing, Queues
<1>3. /\ Flows(Known, q, q)
      /\ Flows(Known, q, Splice(q, "waiting", "ready"))
      /\ Flows(Known, q, Splice(q, "ready", "working"))
  BY <1>2, StayFlows, SpliceFlows
<1>4. ASSUME NEW i \in DOMAIN q["waiting"] PROVE Flows(Known, q, Move(q, "waiting", i, "ready"))
  <2>1. i \in 1 .. Len(q["waiting"])
    BY KnownPlaces, LenProperties DEF Queues
  <2> QED
    BY <1>2, <2>1, MoveFlows
<1>5. CASE PopWaiting
  BY <1>1, <1>3, <1>4, <1>5, Zenon DEF PopWaiting
<1>6. CASE ~PopWaiting
  <2>1. q' = q \/ q' = Splice(q, "ready", "working")
    BY <1>6 DEF AnalyseReady, NothingToRefill, HandOver, EndEvaluate, NoResult, Loop, queueVars
  <2> QED
    BY <1>1, <1>3, <2>1
<1> QED
  BY <1>5, <1>6

-----------------------------------------------------------------------------
(* The evaluation, and the results it hands to the postfilters. *)

\* the places of a sequence
LEMMA RangeHeld ==
  ASSUME NEW s, NEW a
  PROVE  Held(s, a) = Range(s[a])
BY DEF Held, Range

\* The context evaluated leaves for the results; its children are new.
LEMMA EvaluateOwners ==
  ASSUME TypeOK, OwnersInv, Evaluate
  PROVE  OwnersInv'
<1> DEFINE n == Len(ec)
<1> PICK c : c = Evaluated
  OBVIOUS
<1> USE DEF OwnersInv
<1>1. /\ q \in [Queues -> Seq(Known)] /\ Disjoint(q)
      /\ \A m \in Queues : Held(q, m) \subseteq Known
      /\ \A d \in Known : ec[d].kids \in Seq(Known) /\ Children(d) \subseteq Known
  BY KnownPlaces DEF Lists
<1>2. /\ 1 \in 1 .. Len(q["working"]) /\ c \in Known /\ c = q["working"][1]
      /\ q' = Move(q, "working", 1, "analysed") /\ kids' = kids
  BY EvaluateGraph
<1>3. PICK l \in Nat : Grows(l)
  BY EvaluateGraph
<1>4. /\ ec' \in Seq(Context) /\ Known' = 1 .. n + l /\ Known = 1 .. n /\ n \in Nat
      /\ \A d \in Known : d # c => ec'[d] = ec[d]
      /\ ec'[c].parent = ec[c].parent /\ ec'[c].eval = evalNumber + 1
      /\ ec'[c].kids = ec[c].kids \o [j \in 1 .. l |-> n + j]
      /\ \A d \in Known' \ Known : ec'[d].parent = c /\ ec'[d].eval = 0 /\ ec'[d].kids = <<>>
  BY <1>3, LenProperties DEF Grows, Known, TypeOK, ContextsOK
<1>5. /\ pc = "evaluate" /\ pc' = "evaluate" /\ evalNumber \in Nat
  BY Zenon DEF Evaluate, TypeOK, ControlOK
<1>6. c \in Held(q, "working")
  BY <1>1, <1>2, PlacesType DEF Held, Queues
<1>7. ec[c].eval = 0 /\ ec[c].kids = <<>>
  BY <1>2, <1>6 DEF Unevaluated, Family, Passing, Queues
<1>8. /\ ec'[c].kids = [j \in 1 .. l |-> n + j]
  BY <1>3, <1>4, <1>7
<1>9. /\ Disjoint(q') /\ q' \in [Queues -> Seq(Known)]
      /\ \A m \in Queues : m # "analysed" => Held(q', m) \subseteq Held(q, m) \ {c}
      /\ Held(q', "analysed") \subseteq Held(q, "analysed") \cup {c}
  <2>1. "working" \in Queues /\ "analysed" \in Queues
    BY DEF Queues
  <2>2. Move(q, "working", 1, "analysed") \in [Queues -> Seq(Known)]
    BY <1>1, <1>2, <2>1, MoveType
  <2>3. /\ Disjoint(Move(q, "working", 1, "analysed"))
        /\ \A m \in Queues \ {"analysed"} :
             Held(Move(q, "working", 1, "analysed"), m) \subseteq Held(q, m) \ {q["working"][1]}
        /\ Held(Move(q, "working", 1, "analysed"), "analysed")
             \subseteq Held(q, "analysed") \cup {q["working"][1]}
    BY <1>1, <1>2, <2>1, MoveDisjoint
  <2> QED
    BY <1>2, <2>2, <2>3
<1>10. q'["result"] = q["result"] /\ kids = <<>>
  <2>1. q'["result"] = q["result"]
    BY <1>1, <1>2 DEF Move, Add, Drop, Queues
  <2> QED
    BY <1>5, <2>1 DEF KidsFree
<1>11. Known \subseteq Known'
  BY <1>3, <1>4
<1>12. \A m \in Queues : Held(q', m) \subseteq Known
  BY <1>1, <1>2, <1>9
<1> HIDE DEF n
<1>13. Lists(Known, q)'
  <2>1. Seq(Known) \subseteq Seq(Known')
    BY <1>11, SeqMonotonic
  <2> QED
    BY <1>9, <2>1 DEF Lists
<1>14. \A d \in Known : d # c => Children(d)' = Children(d)
  BY <1>4 DEF Children
<1>15. Range(ec'[c].kids) \subseteq Known' \ Known /\ Different(ec'[c].kids)
  <2>1. \A j \in 1 .. l : n + j \in Known' \ Known
    BY <1>3, <1>4
  <2>2. \A i, j \in 1 .. l : n + i = n + j => i = j
    BY <1>3, <1>4
  <2> QED
    BY <1>8, <2>1, <2>2 DEF Range, Different
<1>16. \A d \in Known : ec'[d].parent = ec[d].parent
  BY <1>4
<1>17. Family'
  <2> SUFFICES ASSUME NEW d \in Known'
               PROVE  /\ \A k \in Range(ec'[d].kids) : ec'[k].parent = d
                      /\ Different(ec'[d].kids)
                      /\ ec'[d].eval = 0 => ec'[d].kids = <<>>
    BY DEF Family, Children
  <2>1. CASE d \in Known /\ d # c
    <3>1. ec'[d] = ec[d] /\ Children(d) \subseteq Known
      BY <1>1, <1>4, <2>1
    <3>2. /\ \A k \in Children(d) : ec[k].parent = d
          /\ Different(ec[d].kids)
          /\ ec[d].eval = 0 => ec[d].kids = <<>>
      BY <2>1 DEF Family
    <3> QED
      BY <1>16, <3>1, <3>2 DEF Children
  <2>2. CASE d = c
    <3>1. ec'[c].eval # 0
      BY <1>4, <1>5
    <3> QED
      BY <1>4, <1>15, <2>2, <3>1
  <2>3. CASE d \notin Known
    <3>1. ec'[d].kids = <<>> /\ Range(<<>>) = {} /\ Different(<<>>)
      BY <1>4, <2>3 DEF Range, Different
    <3> QED
      BY <3>1
  <2> QED
    BY <2>1, <2>2, <2>3
<1>18. Unevaluated'
  <2>1. \A m \in Passing \cup {"ante"} : m \in Queues /\ m # "analysed"
    BY DEF Passing, Queues
  <2>2. ASSUME NEW m \in Passing \cup {"ante"}, NEW d \in Held(q', m) PROVE ec'[d].eval = 0
    <3>1. d \in Held(q, m) /\ d # c /\ d \in Known
      BY <1>1, <1>9, <2>1, <2>2
    <3>2. ec[d].eval = 0
      BY <3>1 DEF Unevaluated
    <3> QED
      BY <1>4, <3>1, <3>2
  <2> QED
    BY <2>2 DEF Unevaluated
<1>19. AnalysedFree'
  <2> SUFFICES ASSUME NEW p \in Held(q', "analysed"), NEW k \in Children(p)'
               PROVE  ec'[k].eval = 0 /\ \A m \in Queues : k \notin Held(q', m)
    BY DEF AnalysedFree, Free
  <2>1. CASE p = c
    BY <1>4, <1>12, <1>15, <2>1 DEF Children
  <2>2. CASE p # c
    <3>1. p \in Held(q, "analysed") /\ p \in Known
      BY <1>1, <1>9, <2>2 DEF Queues
    <3>2. k \in Children(p) /\ k \in Known
      BY <1>1, <1>14, <2>2, <3>1
    <3>3. ec[k].eval = 0 /\ \A m \in Queues : k \notin Held(q, m)
      BY <3>1, <3>2 DEF AnalysedFree, Free
    <3>4. k # c
      BY <1>6, <3>3 DEF Queues
    <3> QED
      BY <1>4, <1>9, <3>2, <3>3, <3>4
  <2> QED
    BY <2>1, <2>2
<1>20. ResultsFree' /\ KidsFree'
  BY <1>2, <1>5, <1>10 DEF ResultsFree, KidsFree, Late, Filtering
<1> QED
  BY <1>13, <1>17, <1>18, <1>19, <1>20

\* The contexts just evaluated become the results the postfilters look at.
LEMMA AnalyseResultOwners ==
  ASSUME TypeOK, OwnersInv, AnalyseResult
  PROVE  OwnersInv'
<1> USE DEF OwnersInv
<1>1. /\ q \in [Queues -> Seq(Known)] /\ Disjoint(q)
  BY DEF Lists
<1>2. /\ pc = "analyseResult" /\ pc' = "unitPostfilter" /\ UNCHANGED <<ec, kids>>
      /\ q' = Splice(q, "analysed", "result")
  BY DEF AnalyseResult, Goto
<1>3. Known' = Known /\ \A c \in Known : Children(c)' = Children(c)
  BY <1>2 DEF Known, Children
<1>4. q["result"] = <<>> /\ kids = <<>>
  BY <1>2 DEF ResultsFree, KidsFree, Late, Filtering
<1>5. /\ Disjoint(q') /\ q' \in [Queues -> Seq(Known)]
      /\ \A m \in Queues : m # "analysed" /\ m # "result" => Held(q', m) = Held(q, m)
      /\ Held(q', "analysed") = {} /\ Held(q', "result") = Held(q, "analysed")
  <2>1. "analysed" \in Queues /\ "result" \in Queues
    BY DEF Queues
  <2>2. Splice(q, "analysed", "result") \in [Queues -> Seq(Known)]
    BY <1>1, <2>1, SpliceType
  <2>3. Held(q, "result") = {}
    BY <1>4 DEF Held
  <2>4. /\ Disjoint(Splice(q, "analysed", "result"))
        /\ \A m \in Queues : m # "analysed" /\ m # "result" =>
             Held(Splice(q, "analysed", "result"), m) = Held(q, m)
        /\ Held(Splice(q, "analysed", "result"), "analysed") = {}
        /\ Held(Splice(q, "analysed", "result"), "result") = Held(q, "result") \cup Held(q, "analysed")
    BY <1>1, <2>1, SpliceDisjoint
  <2> QED
    BY <1>2, <2>2, <2>3, <2>4
<1>6. Lists(Known, q)' /\ Family' /\ AnalysedFree'
  BY <1>2, <1>3, <1>5 DEF Lists, Family, AnalysedFree
<1>7. Unevaluated'
  <2>1. \A m \in Passing \cup {"ante"} : m \in Queues /\ m # "analysed" /\ m # "result"
    BY DEF Passing, Queues
  <2> QED
    BY <1>2, <1>5, <2>1 DEF Unevaluated
<1>8. ASSUME NEW i \in DOMAIN q'["result"], NEW k \in Range(ec'[q'["result"][i]].kids)
      PROVE  ec'[k].eval = 0 /\ \A m \in Queues : k \notin Held(q', m)
  <2>1. q'["result"][i] \in Held(q, "analysed")
    BY <1>5 DEF Held
  <2>2. k \in Children(q'["result"][i])
    BY <1>2 DEF Children
  <2>3. ec[k].eval = 0 /\ \A m \in Queues : k \notin Held(q, m)
    BY <2>1, <2>2 DEF AnalysedFree, Free
  <2> QED
    BY <1>2, <1>5, <2>3 DEF Queues
<1>9. ResultsFree'
  <2>1. "ante" \in Queues
    BY DEF Queues
  <2> QED
    BY <1>2, <1>8, <2>1 DEF ResultsFree, Late, Filtering, Free, Children
<1>10. KidsFree'
  BY <1>2, <1>4 DEF KidsFree
<1> QED
  BY <1>6, <1>7, <1>9, <1>10

-----------------------------------------------------------------------------
(* The postfilters. *)

\* Erasing a place: the elements left, in order.
LEMMA RemoveAtPlaces ==
  ASSUME NEW S, NEW s \in Seq(S), NEW i \in 1 .. Len(s)
  PROVE  /\ \A j \in DOMAIN RemoveAt(s, i) :
              \E k \in DOMAIN s : k \in {j, j + 1} /\ RemoveAt(s, i)[j] = s[k]
         /\ Range(RemoveAt(s, i)) \subseteq Range(s)
         /\ Different(s) => Different(RemoveAt(s, i))
<1> DEFINE t == RemoveAt(s, i)
           At(j) == IF j < i THEN j ELSE j + 1
<1>1. t \in Seq(S) /\ Len(t) = Len(s) - 1
  BY RemoveAtType
<1>2. \A j \in 1 .. Len(s) - 1 : t[j] = IF j < i THEN s[j] ELSE s[j + 1]
  BY RemoveAtElements
<1>3. DOMAIN t = 1 .. Len(s) - 1 /\ DOMAIN s = 1 .. Len(s) /\ Len(s) \in Nat
  BY <1>1, LenProperties
<1> HIDE DEF t
<1>4. ASSUME NEW j \in DOMAIN t
      PROVE  At(j) \in DOMAIN s /\ At(j) \in {j, j + 1} /\ t[j] = s[At(j)]
  BY <1>2, <1>3
<1>5. ASSUME NEW j \in DOMAIN t, NEW k \in DOMAIN t, At(j) = At(k)
      PROVE  j = k
  BY <1>3, <1>5
<1> HIDE DEF At
<1>6. Range(t) \subseteq Range(s)
  BY <1>4 DEF Range
<1>7. Different(s) => Different(t)
  BY <1>4, <1>5 DEF Different
<1> QED
  BY <1>4, <1>6, <1>7 DEF t

\* Removing an element leaves different elements different.
LEMMA WithoutPlaces ==
  ASSUME NEW S, NEW s \in Seq(S), NEW c
  PROVE  /\ Range(Without(s, c)) \subseteq Range(s)
         /\ Different(s) => Different(Without(s, c))
         /\ s = <<>> => Without(s, c) = <<>>
<1>1. CASE c \in Range(s)
  <2> DEFINE i == CHOOSE i \in DOMAIN s : s[i] = c
  <2>1. i \in 1 .. Len(s)
    BY <1>1 DEF Range
  <2>2. Without(s, c) = RemoveAt(s, i) /\ s # <<>>
    BY <1>1 DEF Without, Range
  <2> HIDE DEF i
  <2> QED
    BY <2>1, <2>2, RemoveAtPlaces
<1>2. CASE c \notin Range(s)
  BY <1>2 DEF Without
<1> QED
  BY <1>1, <1>2

\* What a unit selects from different children is different children.
LEMMA SomeOfPlaces ==
  ASSUME NEW S, NEW s \in Seq(S), Different(s), NEW t \in SomeOf(s)
  PROVE  Different(t) /\ Range(t) \subseteq Range(s)
<1>1. PICK f \in [DOMAIN t -> DOMAIN s] :
        /\ \A i, j \in DOMAIN t : i < j => f[i] < f[j]
        /\ \A i \in DOMAIN t : t[i] = s[f[i]]
  BY Zenon DEF SomeOf
<1>2. t \in Seq(S)
  BY SomeOfType
<1>3. DOMAIN t = 1 .. Len(t) /\ DOMAIN s = 1 .. Len(s) /\ Len(t) \in Nat /\ Len(s) \in Nat
  BY <1>2, LenProperties
<1>4. ASSUME NEW i \in DOMAIN t, NEW j \in DOMAIN t, t[i] = t[j]
      PROVE  i = j
  <2>1. f[i] = f[j] /\ f[i] \in Nat
    BY <1>1, <1>3, <1>4 DEF Different
  <2>2. ~(i < j) /\ ~(j < i)
    BY <1>1, <1>3, <2>1
  <2> QED
    BY <1>3, <2>2
<1>5. Different(t)
  BY <1>4 DEF Different
<1>6. Range(t) \subseteq Range(s)
  BY <1>1 DEF Range
<1> QED
  BY <1>5, <1>6

\* finalizePostfiltering(aChildEC) may take a context from the children of its container.
Trims ==
  /\ Known' = Known
  /\ \A d \in Known :
       /\ ec'[d].parent = ec[d].parent /\ ec'[d].eval = ec[d].eval
       /\ Range(ec'[d].kids) \subseteq Range(ec[d].kids)
       /\ Different(ec[d].kids) => Different(ec'[d].kids)
       /\ ec[d].kids = <<>> => ec'[d].kids = <<>>

LEMMA FinalizeTrims ==
  ASSUME TypeOK, NEW c \in Known, Finalize(c)
  PROVE  Trims
<1> DEFINE n == Len(ec)
           p == ec[c].parent
<1>1. /\ ec \in Seq(Context) /\ n \in Nat /\ Known = 1 .. n
      /\ \A d \in Known : ec[d] \in Context /\ ec[d].parent \in {0} \cup Known
                          /\ ec[d].kids \in Seq(Known)
  BY LenProperties DEF TypeOK, ContextsOK, Known
<1>2. \/ ec' = [ec EXCEPT ![p].kids = Without(@, c)]
      \/ ec' = [ec EXCEPT ![c].width = NewWidth(c)]
      \/ ec' = ec
  BY Zenon DEF Finalize
<1>3. DOMAIN ec = Known
  BY DEF Known
<1>4. CASE ec' = ec
  BY <1>4 DEF Trims, Known
<1>5. CASE ec' = [ec EXCEPT ![p].kids = Without(@, c)]
  <2>1. CASE p \notin Known
    <3>1. ec' = ec
      BY <1>1, <1>3, <1>5, <2>1
    <3> QED
      BY <1>4, <3>1
  <2>2. CASE p \in Known
    <3> DEFINE k == Without(ec[p].kids, c)
               r == [ec[p] EXCEPT !.kids = k]
    <3>1. ec' = [ec EXCEPT ![p] = r]
      BY <1>1, <1>3, <1>5, <2>2
    <3>2. /\ Range(k) \subseteq Range(ec[p].kids)
          /\ Different(ec[p].kids) => Different(k)
          /\ ec[p].kids = <<>> => k = <<>>
      BY <1>1, <2>2, WithoutPlaces
    <3>3. ec[p] \in Context
      BY <1>1, <2>2
    <3> HIDE DEF k, p
    <3>4. r.parent = ec[p].parent /\ r.eval = ec[p].eval /\ r.kids = k
      BY <3>3 DEF Context
    <3> HIDE DEF r
    <3>5. Known' = Known /\ \A d \in Known : ec'[d] = IF d = p THEN r ELSE ec[d]
      BY <1>3, <3>1 DEF Known
    <3> QED
      BY <2>2, <3>2, <3>4, <3>5 DEF Trims
  <2> QED
    BY <2>1, <2>2
<1>6. CASE ec' = [ec EXCEPT ![c].width = NewWidth(c)]
  <2> DEFINE r == [ec[c] EXCEPT !.width = NewWidth(c)]
  <2>1. ec' = [ec EXCEPT ![c] = r]
    BY <1>1, <1>3, <1>6
  <2>2. ec[c] \in Context
    BY <1>1
  <2>3. r.parent = ec[c].parent /\ r.eval = ec[c].eval /\ r.kids = ec[c].kids
    BY <2>2 DEF Context
  <2> HIDE DEF r
  <2>4. Known' = Known /\ \A d \in Known : ec'[d] = IF d = c THEN r ELSE ec[d]
    BY <1>3, <2>1 DEF Known
  <2> QED
    BY <2>3, <2>4 DEF Trims
<1> QED
  BY <1>2, <1>4, <1>5, <1>6

\* A postfilter lets a result pass, or rejects it.
LEMMA FilterOwners ==
  ASSUME TypeOK, OwnersInv, FilterPostfilter
  PROVE  OwnersInv'
<1> USE DEF OwnersInv
<1>1. /\ q \in [Queues -> Seq(Known)] /\ Disjoint(q) /\ cur \in Nat \ {0} /\ unit \in Nat \ {0}
  BY KnownPlaces DEF Lists
<1>2. /\ pc = "unitPostfilter" /\ pc' = "unitPostfilter" /\ cur <= Len(q["result"])
      /\ UNCHANGED <<ec, kids, unit>>
      /\ \/ cur' = cur + 1 /\ q' = q
         \/ q' = Move(q, "result", cur, "failed") /\ cur' = cur
  BY DEF FilterPostfilter, Postfiltering
<1>3. Known' = Known /\ Family' /\ KidsFree'
  BY <1>2 DEF Known, Family, Children, KidsFree
<1>4. CASE cur' = cur + 1 /\ q' = q
  <2>1. \A i \in DOMAIN q["result"] : Selected(i) => Selected(i)'
    <3> SUFFICES ASSUME NEW i \in DOMAIN q["result"], Selected(i) PROVE Selected(i)'
      OBVIOUS
    <3>1. i \in Nat
      BY <1>1, LenProperties DEF Queues
    <3> QED
      BY <1>1, <1>2, <1>4, <3>1 DEF Selected
  <2>2. ResultsFree'
    BY <1>2, <1>4, <2>1 DEF ResultsFree, Free, Children, Late, Filtering
  <2> QED
    BY <1>2, <1>3, <1>4, <2>2 DEF Lists, Unevaluated, AnalysedFree, Free, Children
<1>5. CASE q' = Move(q, "result", cur, "failed") /\ cur' = cur
  <2>1. cur \in 1 .. Len(q["result"]) /\ "result" \in Queues /\ "failed" \in Queues
        /\ q["result"] \in Seq(Known)
    BY <1>1, <1>2, LenProperties DEF Queues
  <2> DEFINE r == q["result"][cur]
  <2>2. /\ Disjoint(q')
        /\ \A n \in Queues \ {"failed"} : Held(q', n) \subseteq Held(q, n) \ {r}
        /\ Held(q', "failed") \subseteq Held(q, "failed") \cup {r}
    BY <1>1, <1>5, <2>1, MoveDisjoint
  <2>3. q' \in [Queues -> Seq(Known)]
    BY <1>1, <1>5, <2>1, MoveType
  <2>4. r \in Held(q, "result")
    BY <2>1, LenProperties DEF Held
  <2>5. q'["result"] = RemoveAt(q["result"], cur)
    BY <1>1, <1>5 DEF Move, Add, Drop, Queues
  <2> HIDE DEF r
  <2>6. \A n \in Queues : \A d \in Held(q', n) : d \in Held(q, n) \/ d = r
    BY <2>2
  <2>7. Unevaluated'
    BY <1>2, <2>2 DEF Unevaluated, Passing, Queues
  <2>8. AnalysedFree'
    <3> SUFFICES ASSUME NEW a \in Held(q', "analysed"), NEW k \in Range(ec[a].kids)
                 PROVE  ec[k].eval = 0 /\ \A n \in Queues : k \notin Held(q', n)
      BY <1>2 DEF AnalysedFree, Free, Children
    <3>1. a \in Held(q, "analysed")
      BY <2>2 DEF Queues
    <3>2. ec[k].eval = 0 /\ \A n \in Queues : k \notin Held(q, n)
      BY <3>1 DEF AnalysedFree, Free, Children
    <3> QED
      BY <2>1, <2>4, <2>6, <3>2
  <2>9. ResultsFree'
    <3> SUFFICES ASSUME NEW i \in DOMAIN q'["result"], NEW k \in Range(ec[q'["result"][i]].kids)
                 PROVE  /\ ec[k].eval = 0 /\ \A n \in Queues \ {"ante"} : k \notin Held(q', n)
                        /\ k \in Held(q', "ante") => Selected(i)'
      BY <1>2 DEF ResultsFree, Free, Children, Late, Filtering
    <3>1. PICK j \in DOMAIN q["result"] : j \in {i, i + 1} /\ q'["result"][i] = q["result"][j]
      BY <2>1, <2>5, RemoveAtPlaces
    <3>2. /\ ec[k].eval = 0 /\ \A n \in Queues \ {"ante"} : k \notin Held(q, n)
          /\ k \in Held(q, "ante") => Selected(j)
      BY <1>2, <3>1 DEF ResultsFree, Free, Children, Filtering
    <3>3. i \in Nat /\ j \in Nat
      <4>1. q'["result"] \in Seq(Known)
        BY <2>1, <2>3
      <4> QED
        BY <2>1, <4>1, LenProperties
    <3>4. Selected(j) => Selected(i)'
      BY <1>1, <1>2, <1>5, <3>1, <3>3 DEF Selected
    <3>5. k # r
      BY <2>1, <2>4, <3>2
    <3>6. "ante" \in Queues
      BY DEF Queues
    <3> QED
      BY <2>6, <3>2, <3>4, <3>5, <3>6
  <2> QED
    BY <1>3, <2>2, <2>3, <2>7, <2>8, <2>9 DEF Lists
<1> QED
  BY <1>2, <1>4, <1>5

\* The selecting unit copies children of a result to the selected contexts: it alone does,
\* and it looks at each result once.
LEMMA SelectorOwners ==
  ASSUME OneSelector, TypeOK, OwnersInv, SelectorPostfilter
  PROVE  OwnersInv'
<1> USE DEF OwnersInv
<1>1. /\ q \in [Queues -> Seq(Known)] /\ Disjoint(q) /\ cur \in Nat \ {0} /\ unit \in Nat \ {0}
  BY KnownPlaces DEF Lists
<1>2. /\ pc = "unitPostfilter" /\ pc' = "unitPostfilter" /\ cur <= Len(q["result"])
      /\ UNCHANGED <<ec, kids, unit>> /\ cur' = cur + 1
      /\ unit <= Len(PostUnits) /\ PostUnits[unit] \in Selectors
  BY DEF SelectorPostfilter, Postfiltering
<1>3. PICK s \in SomeOf(ec[q["result"][cur]].kids) : q' = [q EXCEPT !["ante"] = @ \o s]
  BY DEF SelectorPostfilter
<1> DEFINE r == q["result"][cur]
<1>4. /\ cur \in DOMAIN q["result"] /\ r \in Held(q, "result") /\ r \in Known
  <2>1. cur \in DOMAIN q["result"]
    BY <1>1, <1>2, LenProperties DEF Queues
  <2> QED
    BY <1>1, <2>1, PlacesType DEF Held, Queues
<1>5. ~ Selected(cur)
  <2>1. unit \in DOMAIN PostUnits
    BY <1>1, <1>2, UnitsAssumption, LenProperties
  <2>2. \A n \in DOMAIN PostUnits : PostUnits[n] \in Selectors => n = unit
    BY <1>2, <2>1 DEF OneSelector
  <2> QED
    BY <1>1, <2>2 DEF Selected
<1>6. \A k \in Children(r) : ec[k].eval = 0 /\ \A n \in Queues : k \notin Held(q, n)
  BY <1>2, <1>4, <1>5 DEF ResultsFree, Free, Filtering
<1>7. ec[r].kids \in Seq(Known) /\ Different(ec[r].kids)
  BY <1>4, KnownPlaces DEF Family
<1>8. s \in Seq(Known) /\ Different(s) /\ Range(s) \subseteq Children(r)
  BY <1>3, <1>7, SomeOfType, SomeOfPlaces DEF Children
<1>9. Appends(Known, q', q, "ante", s)
  <2>1. Outside(s, q)
    BY <1>6, <1>8 DEF Outside, Range
  <2>2. Longer(q', q, "ante", s)
    BY <1>1, <1>3 DEF Longer, Queues
  <2> QED
    BY <1>1, <1>8, <2>1, <2>2 DEF Appends, Queues
<1>10. /\ Disjoint(q')
       /\ \A n \in Queues \ {"ante"} : Held(q', n) = Held(q, n)
       /\ Held(q', "ante") = Held(q, "ante") \cup Range(s)
  BY <1>9, ConcatDisjoint
<1>11. q' \in [Queues -> Seq(Known)] /\ q'["result"] = q["result"]
  <2>1. q["ante"] \o s \in Seq(Known)
    BY <1>1, <1>8, ConcatProperties DEF Queues
  <2> QED
    BY <1>1, <1>3, <2>1 DEF Queues
<1> HIDE DEF r
<1>12. Known' = Known /\ Family' /\ KidsFree'
  BY <1>2, <1>10 DEF Known, Family, Children, KidsFree
<1>13. Unevaluated'
  <2> SUFFICES ASSUME NEW n \in Passing \cup {"ante"}, NEW d \in Held(q', n) PROVE ec[d].eval = 0
    BY <1>2 DEF Unevaluated
  <2>1. d \in Held(q, n) \/ d \in Children(r)
    BY <1>8, <1>10 DEF Passing
  <2> QED
    BY <1>6, <2>1 DEF Unevaluated
<1>14. \A k \in Known, p \in Known : k \in Children(p) /\ p # r => k \notin Range(s)
  BY <1>4, <1>8 DEF Family
<1>15. \A p \in Known : \A k \in Children(p) : k \in Known
  BY KnownPlaces
<1>16. AnalysedFree'
  <2> SUFFICES ASSUME NEW p \in Held(q', "analysed"), NEW k \in Children(p)
               PROVE  ec[k].eval = 0 /\ \A n \in Queues : k \notin Held(q', n)
    BY <1>2 DEF AnalysedFree, Free, Children
  <2>1. p \in Held(q, "analysed") /\ p \in Known
    BY <1>10, KnownPlaces DEF Queues
  <2>2. ec[k].eval = 0 /\ \A n \in Queues : k \notin Held(q, n)
    BY <2>1 DEF AnalysedFree, Free
  <2>3. p # r
    <3>1. \A i \in DOMAIN q["analysed"], j \in DOMAIN q["result"] : q["analysed"][i] # q["result"][j]
      BY <1>1 DEF Disjoint, Queues
    <3> QED
      BY <1>4, <2>1, <3>1 DEF Held
  <2>4. k \notin Range(s)
    BY <1>14, <1>15, <2>1, <2>3
  <2> QED
    BY <1>10, <2>2, <2>4
<1>17. ResultsFree'
  <2> SUFFICES ASSUME NEW i \in DOMAIN q["result"], NEW k \in Children(q["result"][i])
               PROVE  /\ ec[k].eval = 0 /\ \A n \in Queues \ {"ante"} : k \notin Held(q', n)
                      /\ k \in Held(q', "ante") => Selected(i)'
    BY <1>2, <1>11 DEF ResultsFree, Free, Children, Late, Filtering
  <2>1. /\ ec[k].eval = 0 /\ \A n \in Queues \ {"ante"} : k \notin Held(q, n)
        /\ k \in Held(q, "ante") => Selected(i)
    BY <1>2 DEF ResultsFree, Free, Filtering
  <2>2. i \in Nat /\ q["result"][i] \in Known
    BY <1>1, PlacesType DEF Queues
  <2>3. Selected(i) => Selected(i)'
    BY <1>1, <1>2, <2>2 DEF Selected
  <2>4. k \in Range(s) => Selected(i)'
    <3> SUFFICES ASSUME k \in Range(s) PROVE Selected(i)'
      OBVIOUS
    <3>1. q["result"][i] = r
      BY <1>14, <1>15, <2>2
    <3>2. i = cur
      BY <1>1, <1>4, <3>1 DEF Disjoint, Queues, r
    <3>3. unit \in DOMAIN PostUnits
      BY <1>1, <1>2, UnitsAssumption, LenProperties
    <3> QED
      BY <1>1, <1>2, <3>2, <3>3 DEF Selected
  <2> QED
    BY <1>10, <2>1, <2>3, <2>4
<1> QED
  BY <1>10, <1>11, <1>12, <1>13, <1>16, <1>17 DEF Lists

\* The walk over the units and the choice of what is finalized move nothing.
LEMMA WalkOwners ==
  ASSUME TypeOK, OwnersInv, NextPostfilter \/ EndPostfiltering \/ EndFinalize
  PROVE  OwnersInv'
<1> USE DEF OwnersInv
<1>1. UNCHANGED <<q, ec, kids>>
  BY DEF NextPostfilter, EndPostfiltering, EndFinalize, queueVars, walkVars
<1>2. Lists(Known, q)' /\ Family' /\ Unevaluated' /\ AnalysedFree'
  BY <1>1 DEF Lists, Known, Family, Unevaluated, AnalysedFree, Free, Children
<1>3. /\ q \in [Queues -> Seq(Known)] /\ cur \in Nat \ {0} /\ unit \in Nat \ {0}
  BY KnownPlaces
<1>4. CASE NextPostfilter
  <2>1. /\ pc = "unitPostfilter" /\ cur' = 1
        /\ \/ pc' = pc /\ unit' = unit + 1
           \/ pc' = "afterResult" /\ q["result"] = <<>>
    BY <1>4 DEF NextPostfilter, Postfiltering
  <2>2. \A i \in DOMAIN q["result"] : pc' = pc /\ Selected(i) => Selected(i)'
    <3> SUFFICES ASSUME NEW i \in DOMAIN q["result"], Selected(i), pc' = pc PROVE Selected(i)'
      OBVIOUS
    <3>1. PICK n \in DOMAIN PostUnits :
            PostUnits[n] \in Selectors /\ (n < unit \/ (n = unit /\ i < cur))
      BY DEF Selected
    <3>2. n \in Nat
      BY UnitsAssumption, LenProperties
    <3>3. n < unit'
      BY <1>3, <2>1, <3>1, <3>2
    <3> QED
      BY <2>1, <3>1, <3>3 DEF Selected
  <2>3. ResultsFree' /\ KidsFree'
    BY <1>1, <2>1, <2>2 DEF ResultsFree, KidsFree, Free, Children, Late, Filtering
  <2> QED
    BY <1>2, <2>3
<1>5. CASE EndPostfiltering
  <2>1. /\ pc = "unitPostfilter"
        /\ \/ pc' = "afterResult" /\ q["result"] = <<>>
           \/ pc' = "finalizeResult" /\ q["ante"] = <<>>
           \/ pc' = "finalizeAnte"
    BY <1>5 DEF EndPostfiltering
  <2>2. q["ante"] = <<>> => Held(q, "ante") = {}
    BY DEF Held
  <2>3. kids = <<>> /\ Different(<<>>) /\ Range(<<>>) = {}
    BY <2>1 DEF KidsFree, Different, Range
  <2>4. ResultsFree' /\ KidsFree'
    BY <1>1, <2>1, <2>2, <2>3 DEF ResultsFree, KidsFree, Free, Children, Late, Filtering
  <2> QED
    BY <1>2, <2>4
<1>6. CASE EndFinalize
  <2>1. /\ pc' = "push"
        /\ (pc = "finalizeResult" /\ kids = <<>>) \/ pc = "finalizeAnte"
    BY <1>6 DEF EndFinalize
  <2>2. ResultsFree' /\ KidsFree'
    BY <1>1, <2>1 DEF ResultsFree, KidsFree, Late, Filtering
  <2> QED
    BY <1>2, <2>2
<1> QED
  BY <1>4, <1>5, <1>6

\* The children of the next result are finalized next.
LEMMA PopResultOwners ==
  ASSUME TypeOK, OwnersInv, PopResult
  PROVE  OwnersInv'
<1> USE DEF OwnersInv
<1>1. q \in [Queues -> Seq(Known)] /\ Disjoint(q) /\ "result" \in Queues
  BY DEF Lists, Queues
<1>2. /\ pc = "finalizeResult" /\ pc' = "finalizeResult" /\ q["result"] # <<>>
      /\ UNCHANGED ec /\ kids' = ec[Head(q["result"])].kids /\ q' = Drop(q, "result", 1)
  BY DEF PopResult
<1>3. 1 \in 1 .. Len(q["result"]) /\ q["result"] \in Seq(Known)
  BY <1>1, <1>2, EndPlaces
<1>4. PICK r : r = q["result"][1]
  OBVIOUS
<1>5. /\ kids' = ec[r].kids /\ 1 \in DOMAIN q["result"] /\ r \in Held(q, "result") /\ r \in Known
  <2>1. Head(q["result"]) = r /\ DOMAIN q["result"] = 1 .. Len(q["result"])
    BY <1>2, <1>3, <1>4, HeadTailProperties, LenProperties
  <2> QED
    BY <1>2, <1>3, <1>4, <2>1, PlacesType DEF Held
<1>6. /\ Disjoint(q')
      /\ \A n \in Queues : Held(q', n) \subseteq Held(q, n)
      /\ \A n \in Queues : r \notin Held(q', n)
  BY <1>1, <1>2, <1>3, <1>4, DropDisjoint
<1>7. q' \in [Queues -> Seq(Known)] /\ q'["result"] = RemoveAt(q["result"], 1)
  <2>1. q' \in [Queues -> Seq(Known)]
    BY <1>1, <1>2, <1>3, DropType
  <2> QED
    BY <1>1, <1>2, <2>1 DEF Drop
<1>8. Known' = Known /\ Family'
  BY <1>2 DEF Known, Family, Children
<1>9. Unevaluated' /\ AnalysedFree'
  BY <1>2, <1>6 DEF Unevaluated, AnalysedFree, Free, Children, Passing, Queues
<1>10. \A i : ~ Selected(i)
  BY <1>2 DEF Selected
<1>11. \A i \in DOMAIN q["result"] : \A k \in Children(q["result"][i]) :
         ec[k].eval = 0 /\ \A n \in Queues : k \notin Held(q, n)
  BY <1>2, <1>10 DEF ResultsFree, Free, Filtering
<1>12. ResultsFree'
  <2> SUFFICES ASSUME NEW i \in DOMAIN q'["result"], NEW k \in Range(ec[q'["result"][i]].kids)
               PROVE  ec[k].eval = 0 /\ \A n \in Queues : k \notin Held(q', n)
    <3>1. "ante" \in Queues
      BY DEF Queues
    <3> QED
      BY <1>2, <3>1 DEF ResultsFree, Free, Children, Late, Filtering
  <2>1. PICK j \in DOMAIN q["result"] : q'["result"][i] = q["result"][j]
    BY <1>3, <1>7, RemoveAtPlaces
  <2> QED
    BY <1>6, <1>11, <2>1 DEF Children
<1>13. KidsFree'
  <2>1. Different(kids') /\ \A k \in Range(kids') : ec[k].parent = r
    BY <1>5 DEF Family, Children
  <2>2. \A k \in Range(kids') : ec[k].eval = 0 /\ \A n \in Queues : k \notin Held(q, n)
    BY <1>4, <1>5, <1>11 DEF Children
  <2> QED
    BY <1>1, <1>2, <1>6, <2>1, <2>2 DEF KidsFree, Free
<1> QED
  BY <1>6, <1>7, <1>8, <1>9, <1>12, <1>13 DEF Lists

\* Families after a context is finalized.
LEMMA TrimsFamily ==
  ASSUME TypeOK, Family, Trims
  PROVE  Family'
<1> SUFFICES ASSUME NEW d \in Known
             PROVE  /\ \A k \in Range(ec'[d].kids) : ec'[k].parent = d
                    /\ Different(ec'[d].kids)
                    /\ ec'[d].eval = 0 => ec'[d].kids = <<>>
  BY DEF Family, Children, Trims
<1>1. /\ \A k \in Range(ec[d].kids) : ec[k].parent = d
      /\ Different(ec[d].kids)
      /\ ec[d].eval = 0 => ec[d].kids = <<>>
  BY DEF Family, Children
<1>2. Range(ec[d].kids) \subseteq Known
  BY KnownPlaces DEF Children
<1> QED
  BY <1>1, <1>2 DEF Trims

\* A child waits for its evaluation, or is dropped, and the next one is looked at.
LEMMA FinalizeChildOwners ==
  ASSUME TypeOK, StopInv, OwnersInv, FinalizeChild
  PROVE  OwnersInv'
<1> USE DEF OwnersInv
<1>1. /\ q \in [Queues -> Seq(Known)] /\ Disjoint(q) /\ kids \in Seq(Known)
      /\ \A n \in Queues : Held(q, n) \subseteq Known
      /\ \A c \in Known : Range(ec[c].kids) \subseteq Known
      /\ Range(kids) \subseteq Known
  BY KnownPlaces DEF Lists, Children
<1>2. PICK c : /\ c = Head(kids) /\ Finalize(c)
               /\ q' = Add(q, "main", c) \/ q' = q
               /\ pc = "finalizeResult" /\ pc' \in {"finalizeResult", "crashed"}
               /\ kids # <<>> /\ kids' = Tail(kids)
  BY Zenon DEF FinalizeChild
<1>3. /\ c \in Range(kids) /\ Range(kids') \subseteq Range(kids) \ {c}
      /\ Different(kids')
  <2>1. Different(kids)
    BY <1>2 DEF KidsFree
  <2>2. /\ Len(kids) \in Nat \ {0} /\ DOMAIN kids = 1 .. Len(kids) /\ c = kids[1]
        /\ kids' \in Seq(Known) /\ Len(kids') = Len(kids) - 1
        /\ \A i \in 1 .. Len(kids') : kids'[i] = kids[i + 1]
    <3>1. Len(kids) \in Nat /\ Len(kids) # 0 /\ DOMAIN kids = 1 .. Len(kids)
      BY <1>1, <1>2, EmptySeq, LenProperties
    <3>2. /\ c = kids[1] /\ kids' \in Seq(Known) /\ Len(kids') = Len(kids) - 1
          /\ \A i \in 1 .. Len(kids) - 1 : kids'[i] = kids[i + 1]
      BY <1>1, <1>2, HeadTailProperties
    <3> QED
      BY <3>1, <3>2
  <2>3. DOMAIN kids' = 1 .. Len(kids')
    BY <2>2, LenProperties
  <2>4. \A i \in DOMAIN kids' : i + 1 \in DOMAIN kids /\ i + 1 # 1 /\ kids'[i] = kids[i + 1]
    BY <2>2, <2>3
  <2>5. 1 \in DOMAIN kids
    BY <2>2
  <2>6. \A i, j \in DOMAIN kids' : i + 1 = j + 1 => i = j
    BY <2>2, <2>3
  <2>7. Different(kids')
    BY <2>1, <2>4, <2>6 DEF Different
  <2>8. ASSUME NEW i \in DOMAIN kids' PROVE kids'[i] \in Range(kids) \ {c}
    BY <2>1, <2>2, <2>4, <2>5 DEF Different, Range
  <2> QED
    BY <2>2, <2>5, <2>7, <2>8 DEF Range
<1>4. /\ c \in Known /\ ec[c].eval = 0 /\ \A n \in Queues : c \notin Held(q, n)
      /\ ec[c].parent \notin Held(q, "result")
  BY <1>1, <1>2, <1>3 DEF KidsFree, Free
<1>5. Trims
  BY <1>2, <1>4, FinalizeTrims
<1>6. /\ Disjoint(q') /\ q' \in [Queues -> Seq(Known)]
      /\ \A n \in Queues \ {"main"} : Held(q', n) = Held(q, n)
      /\ Held(q', "main") \subseteq Held(q, "main") \cup {c}
      /\ \A n \in Queues \ {"main"} : q'[n] = q[n]
  <2>1. "main" \in Queues
    BY DEF Queues
  <2>2. /\ Add(q, "main", c) \in [Queues -> Seq(Known)]
        /\ \A n \in Queues \ {"main"} : Add(q, "main", c)[n] = q[n]
    BY <1>1, <1>4, <2>1, AddType
  <2>3. /\ Disjoint(Add(q, "main", c))
        /\ \A n \in Queues \ {"main"} : Held(Add(q, "main", c), n) = Held(q, n)
        /\ Held(Add(q, "main", c), "main") = Held(q, "main") \cup {c}
    BY <1>1, <1>4, <2>1, AddDisjoint
  <2>4. CASE q' = q
    BY <1>1, <2>4
  <2>5. CASE q' = Add(q, "main", c)
    BY <2>2, <2>3, <2>5
  <2> QED
    BY <1>2, <2>4, <2>5
<1>7. \A n \in Queues : \A d \in Held(q', n) : d \in Held(q, n) \/ d = c
  BY <1>6
<1>8. Lists(Known, q)' /\ Family'
  BY <1>5, <1>6, TrimsFamily DEF Lists, Trims
<1>9. \A d \in Known : ec'[d].eval = ec[d].eval /\ ec'[d].parent = ec[d].parent
                       /\ Range(ec'[d].kids) \subseteq Range(ec[d].kids)
  BY <1>5 DEF Trims
<1>10. Unevaluated'
  <2> SUFFICES ASSUME NEW n \in Passing \cup {"ante"}, NEW d \in Held(q', n) PROVE ec'[d].eval = 0
    BY DEF Unevaluated
  <2>1. n \in Queues
    BY DEF Passing, Queues
  <2>2. d \in Known /\ ec[d].eval = 0
    BY <1>1, <1>4, <1>7, <2>1 DEF Unevaluated
  <2> QED
    BY <1>9, <2>2
<1>11. AnalysedFree'
  <2>1. q["analysed"] = <<>>
    BY <1>2 DEF StopInv
  <2>2. q'["analysed"] = <<>>
    BY <1>6, <2>1 DEF Queues
  <2> QED
    BY <2>2 DEF AnalysedFree, Held
<1>12. q'["result"] = q["result"] /\ Held(q', "result") = Held(q, "result")
  BY <1>6 DEF Queues
<1>13. ResultsFree'
  <2> SUFFICES ASSUME pc' = "finalizeResult",
                      NEW i \in DOMAIN q["result"], NEW k \in Range(ec'[q["result"][i]].kids)
               PROVE  ec'[k].eval = 0 /\ \A n \in Queues : k \notin Held(q', n)
    <3>1. "ante" \in Queues
      BY DEF Queues
    <3> QED
      BY <1>2, <1>12, <3>1 DEF ResultsFree, Free, Children, Late, Filtering
  <2> DEFINE r == q["result"][i]
  <2>1. r \in Held(q, "result") /\ r \in Known
    BY <1>1, PlacesType DEF Held, Queues
  <2>2. k \in Range(ec[r].kids) /\ k \in Known /\ ec[k].parent = r
    <3>1. k \in Range(ec'[r].kids)
      OBVIOUS
    <3> HIDE DEF r
    <3>2. k \in Range(ec[r].kids)
      BY <1>9, <2>1, <3>1
    <3>3. k \in Known
      BY <1>1, <2>1, <3>2
    <3>4. ec[k].parent = r
      BY <2>1, <3>2 DEF Family, Children
    <3> QED
      BY <3>2, <3>3, <3>4
  <2>3. ~ Selected(i)
    BY <1>2 DEF Selected
  <2>4. ec[k].eval = 0 /\ \A n \in Queues : k \notin Held(q, n)
    BY <1>2, <2>2, <2>3 DEF ResultsFree, Free, Filtering, Children
  <2>5. k # c
    BY <1>4, <2>1, <2>2
  <2> QED
    BY <1>7, <1>9, <2>2, <2>4, <2>5
<1>14. KidsFree'
  <2> SUFFICES ASSUME NEW k \in Range(kids')
               PROVE  /\ ec'[k].eval = 0 /\ \A n \in Queues : k \notin Held(q', n)
                      /\ ec'[k].parent \notin Held(q', "result")
    BY <1>2, <1>3 DEF KidsFree, Free
  <2>1. k \in Range(kids) /\ k \in Known /\ k # c
    BY <1>1, <1>3
  <2>2. /\ ec[k].eval = 0 /\ \A n \in Queues : k \notin Held(q, n)
        /\ ec[k].parent \notin Held(q, "result")
    BY <1>2, <2>1 DEF KidsFree, Free
  <2> QED
    BY <1>7, <1>9, <1>12, <2>1, <2>2
<1> QED
  BY <1>8, <1>10, <1>11, <1>13, <1>14

\* A selected context waits for its evaluation, or is dropped.
LEMMA FinalizeSelectedOwners ==
  ASSUME TypeOK, StopInv, OwnersInv, FinalizeSelected
  PROVE  OwnersInv'
<1> USE DEF OwnersInv
<1>1. /\ q \in [Queues -> Seq(Known)] /\ Disjoint(q)
      /\ \A n \in Queues : Held(q, n) \subseteq Known
  BY KnownPlaces DEF Lists
<1>2. PICK c : /\ c = Head(q["ante"]) /\ Finalize(c) /\ q["ante"] # <<>>
               /\ q' = Move(q, "ante", 1, "main") \/ q' = Drop(q, "ante", 1)
               /\ pc = "finalizeAnte" /\ UNCHANGED <<pc, kids>>
  BY Zenon DEF FinalizeSelected, walkVars
<1>3. /\ "ante" \in Queues /\ "main" \in Queues /\ "analysed" \in Queues
      /\ 1 \in 1 .. Len(q["ante"]) /\ q["ante"] \in Seq(Known)
  BY <1>1, <1>2, EndPlaces DEF Queues
<1>4. c = q["ante"][1] /\ c \in Held(q, "ante") /\ c \in Known
  <2>1. c = q["ante"][1] /\ DOMAIN q["ante"] = 1 .. Len(q["ante"])
    BY <1>2, <1>3, HeadTailProperties, LenProperties
  <2> QED
    BY <1>1, <1>3, <2>1 DEF Held
<1>5. ec[c].eval = 0
  BY <1>4 DEF Unevaluated
<1>6. Trims
  BY <1>2, <1>4, FinalizeTrims
<1>7. /\ Disjoint(q') /\ q' \in [Queues -> Seq(Known)]
      /\ \A n \in Queues : \A d \in Held(q', n) : d \in Held(q, n) \/ d = c
  <2>1. CASE q' = Drop(q, "ante", 1)
    <3>1. q' \in [Queues -> Seq(Known)]
      BY <1>1, <1>3, <2>1, DropType
    <3>2. Disjoint(q') /\ \A n \in Queues : Held(q', n) \subseteq Held(q, n)
      BY <1>1, <1>3, <2>1, DropDisjoint
    <3> QED
      BY <3>1, <3>2
  <2>2. CASE q' = Move(q, "ante", 1, "main")
    <3>1. q' \in [Queues -> Seq(Known)]
      BY <1>1, <1>3, <2>2, MoveType
    <3>2. /\ Disjoint(q')
          /\ \A n \in Queues \ {"main"} : Held(q', n) \subseteq Held(q, n) \ {c}
          /\ Held(q', "main") \subseteq Held(q, "main") \cup {c}
      BY <1>1, <1>3, <1>4, <2>2, MoveDisjoint
    <3> QED
      BY <3>1, <3>2
  <2> QED
    BY <1>2, <2>1, <2>2
<1>8. Lists(Known, q)' /\ Family'
  BY <1>6, <1>7, TrimsFamily DEF Lists, Trims
<1>9. Unevaluated'
  <2> SUFFICES ASSUME NEW n \in Passing \cup {"ante"}, NEW d \in Held(q', n) PROVE ec'[d].eval = 0
    BY DEF Unevaluated
  <2>1. n \in Queues
    BY DEF Passing, Queues
  <2>2. d \in Known /\ ec[d].eval = 0
    BY <1>1, <1>4, <1>5, <1>7, <2>1 DEF Unevaluated
  <2> QED
    BY <1>6, <2>2 DEF Trims
<1>10. AnalysedFree'
  <2>1. q'["analysed"] = q["analysed"] /\ q["analysed"] = <<>>
    <3>1. q["analysed"] = <<>>
      BY <1>2 DEF StopInv
    <3>2. Frame
      BY PostfilterFrame DEF Postfilter
    <3> QED
      BY <3>1, <3>2 DEF Frame
  <2> QED
    BY <2>1 DEF AnalysedFree, Held
<1>11. ResultsFree' /\ KidsFree'
  BY <1>2 DEF ResultsFree, KidsFree, Late, Filtering
<1> QED
  BY <1>8, <1>9, <1>10, <1>11

\* The children go to the pool and the results are forgotten.
LEMMA PushOwners ==
  ASSUME TypeOK, OwnersInv, PushWaiting
  PROVE  OwnersInv'
<1> USE DEF OwnersInv
<1>1. /\ q \in [Queues -> Seq(Known)] /\ Disjoint(q)
      /\ "main" \in Passing /\ "waiting" \in Passing
  BY DEF Lists, Passing, Queues
<1>2. /\ pc = "push" /\ pc' = "afterResult" /\ UNCHANGED <<ec, kids>>
      /\ q' = Clear(Splice(q, "main", "waiting"), {"result"})
  BY DEF PushWaiting, Goto, walkVars
<1> DEFINE r == Splice(q, "main", "waiting")
<1>3. Flows(Known, q, r)
  BY <1>1, SpliceFlows
<1> HIDE DEF r
<1>4. r \in [Queues -> Seq(Known)] /\ Disjoint(r)
  BY <1>3 DEF Flows, Lists
<1>5. /\ Disjoint(q') /\ q' \in [Queues -> Seq(Known)] /\ q'["result"] = <<>>
      /\ \A n \in Queues : Held(q', n) \subseteq Held(r, n)
  <2>1. q' = Clear(r, {"result"})
    BY <1>2 DEF r
  <2>2. q' \in [Queues -> Seq(Known)]
    BY <1>4, <2>1, ClearType
  <2>3. Disjoint(q') /\ \A n \in Queues : Held(q', n) = IF n \in {"result"} THEN {} ELSE Held(r, n)
    BY <1>4, <2>1, ClearDisjoint
  <2>4. q'["result"] = <<>>
    BY <2>1 DEF Clear, Queues
  <2> QED
    BY <2>2, <2>3, <2>4
<1>6. Lists(Known, q)' /\ Family'
  BY <1>2, <1>5 DEF Lists, Known, Family, Children
<1>7. \A n \in Passing : n \in Queues
  BY DEF Passing
<1>8. "ante" \in Queues /\ "analysed" \in Queues /\ "failed" \in Queues
  BY DEF Queues
<1>9. Unevaluated'
  <2> SUFFICES ASSUME NEW n \in Passing \cup {"ante"}, NEW d \in Held(q', n) PROVE ec[d].eval = 0
    BY <1>2 DEF Unevaluated
  <2>1. d \in Held(r, n)
    BY <1>5, <1>7, <1>8
  <2>2. \E m \in Passing \cup {"ante"} : d \in Held(q, m)
    BY <1>3, <2>1 DEF Flows
  <2> QED
    BY <2>2 DEF Unevaluated
<1>10. AnalysedFree'
  <2> SUFFICES ASSUME NEW a \in Held(q', "analysed"), NEW k \in Children(a)
               PROVE  ec[k].eval = 0 /\ \A n \in Queues : k \notin Held(q', n)
    BY <1>2 DEF AnalysedFree, Free, Children
  <2>1. a \in Held(q, "analysed")
    BY <1>3, <1>5, <1>8 DEF Flows
  <2>2. ec[k].eval = 0 /\ \A n \in Queues : k \notin Held(q, n)
    BY <2>1 DEF AnalysedFree, Free
  <2>3. ASSUME NEW n \in Queues, k \in Held(r, n) PROVE FALSE
    <3>1. CASE n \in Passing
      BY <1>3, <1>7, <2>2, <2>3, <3>1 DEF Flows
    <3>2. CASE n = "failed"
      BY <1>3, <1>7, <1>8, <2>2, <2>3, <3>2 DEF Flows
    <3>3. CASE n \in {"analysed", "ante", "result"}
      <4>1. Held(r, "result") = Held(q, "result")
        BY <1>3 DEF Flows, Held
      <4> QED
        BY <1>3, <2>2, <2>3, <3>3, <4>1 DEF Flows
    <3> QED
      BY <3>1, <3>2, <3>3 DEF Passing
  <2> QED
    BY <1>5, <2>2, <2>3
<1>11. ResultsFree' /\ KidsFree'
  BY <1>2, <1>5 DEF ResultsFree, KidsFree, Late, Filtering
<1> QED
  BY <1>6, <1>9, <1>10, <1>11

-----------------------------------------------------------------------------
(* The theorems. *)

\* The engine starts from different contexts of its graph, none of them evaluated.
LEMMA InputsFresh ==
  /\ \A n \in DOMAIN Inputs : Inputs[n] \in DOMAIN InitialGraph /\ InitialGraph[Inputs[n]].eval = 0
  /\ Different(Inputs)
  /\ \A c \in DOMAIN InitialGraph :
       /\ \A k \in Range(InitialGraph[c].kids) : InitialGraph[k].parent = c
       /\ Different(InitialGraph[c].kids)
       /\ InitialGraph[c].eval = 0 => InitialGraph[c].kids = <<>>
<1>1. CASE Leaves = 0
  <2>1. /\ DOMAIN Inputs = {1} /\ Inputs[1] = 1 /\ DOMAIN InitialGraph = {1}
        /\ InitialGraph[1].eval = 0 /\ InitialGraph[1].kids = <<>>
    BY <1>1 DEF Inputs, InitialGraph, EC
  <2>2. Range(<<>>) = {} /\ Different(<<>>)
    BY DEF Range, Different
  <2> QED
    BY <2>1, <2>2 DEF Different
<1>2. CASE Leaves # 0
  <2> DEFINE N == 1 .. Leaves + 1
  <2>1. Leaves \in Nat \ {0}
    BY <1>2, LimitsAssumption
  <2>2. Inputs = [n \in 1 .. Leaves |-> n + 1]
    BY <1>2 DEF Inputs
  <2>3. /\ DOMAIN InitialGraph = N /\ 1 \in N
        /\ InitialGraph[1] = [EC(0, 0, 1, "OK") EXCEPT !.eval = 1, !.kids = Inputs]
        /\ \A c \in N \ {1} : InitialGraph[c] = EC(1, 1, c - 1, "OK")
    BY <1>2, <2>1 DEF InitialGraph
  <2>4. /\ InitialGraph[1].eval = 1 /\ InitialGraph[1].kids = Inputs
        /\ \A c \in N \ {1} : InitialGraph[c].eval = 0 /\ InitialGraph[c].kids = <<>>
                              /\ InitialGraph[c].parent = 1
    BY <2>3 DEF EC
  <2>5. \A n \in DOMAIN Inputs : Inputs[n] \in N \ {1}
    BY <2>1, <2>2
  <2>6. Different(Inputs)
    BY <2>1, <2>2 DEF Different
  <2>7. \A k \in Range(Inputs) : k \in N \ {1}
    BY <2>5 DEF Range
  <2>8. Range(<<>>) = {} /\ Different(<<>>)
    BY DEF Range, Different
  <2> HIDE DEF N
  <2>9. \A n \in DOMAIN Inputs : Inputs[n] \in DOMAIN InitialGraph /\ InitialGraph[Inputs[n]].eval = 0
    BY <2>3, <2>4, <2>5
  <2>10. ASSUME NEW c \in DOMAIN InitialGraph
         PROVE  /\ \A k \in Range(InitialGraph[c].kids) : InitialGraph[k].parent = c
                /\ Different(InitialGraph[c].kids)
                /\ InitialGraph[c].eval = 0 => InitialGraph[c].kids = <<>>
    <3>1. CASE c = 1
      <4>1. InitialGraph[c].kids = Inputs /\ InitialGraph[c].eval = 1
        BY <2>4, <3>1
      <4> QED
        BY <2>4, <2>6, <2>7, <3>1, <4>1
    <3>2. CASE c # 1
      <4>1. InitialGraph[c].kids = <<>>
        BY <2>3, <2>4, <2>10, <3>2
      <4> QED
        BY <2>8, <4>1
    <3> QED
      BY <3>1, <3>2
  <2> QED
    BY <2>6, <2>9, <2>10
<1> QED
  BY <1>1, <1>2

\* Without a hit-or-jump unit the contexts the engine starts from all wait.
LEMMA OwnersInit == NoReturn /\ Init => OwnersInv
<1> SUFFICES ASSUME NoReturn, Init PROVE OwnersInv
  OBVIOUS
<1>1. /\ ec = InitialGraph /\ kids = <<>> /\ Known = DOMAIN InitialGraph /\ pc = "analyseReady"
      /\ q["waiting"] = Inputs
      /\ \A n \in Queues \ {"waiting"} : q[n] = <<>>
  BY ModesAssumption DEF NoReturn, Init, Known, Queues, Searched, Parked
<1>2. q \in [Queues -> Seq(Known)]
  BY ContextsInit DEF ContextsOK
<1>3. DOMAIN <<>> = {}
  OBVIOUS
<1>4. \A n \in Queues : \A i \in DOMAIN q[n] : n = "waiting" /\ i \in DOMAIN Inputs /\ q[n][i] = Inputs[i]
  BY <1>1, <1>3
<1>5. Disjoint(q)
  BY <1>4, InputsFresh DEF Disjoint, Different
<1>6. Unevaluated
  <2> SUFFICES ASSUME NEW n \in Queues, NEW i \in DOMAIN q[n] PROVE ec[q[n][i]].eval = 0
    BY DEF Unevaluated, Held, Passing, Queues
  <2> QED
    BY <1>1, <1>4, InputsFresh
<1>7. Family
  BY <1>1, InputsFresh DEF Family, Children
<1>8. q["analysed"] = <<>> /\ q["result"] = <<>>
  BY <1>1 DEF Queues
<1>9. AnalysedFree /\ ResultsFree /\ KidsFree
  BY <1>1, <1>8 DEF AnalysedFree, ResultsFree, KidsFree, Held, Late, Filtering
<1> QED
  BY <1>2, <1>5, <1>6, <1>7, <1>9 DEF OwnersInv, Lists

LEMMA OwnersStep ==
  NoReturn /\ TypeOK /\ StopInv /\ OwnersInv /\ [Next]_vars => OwnersInv'
<1> SUFFICES ASSUME OneSelector, JumpUnits = <<>>, TypeOK, StopInv, OwnersInv, [Next]_vars
             PROVE  OwnersInv'
  BY DEF NoReturn
<1>1. Lists(Known, q)
  BY DEF OwnersInv
<1>2. CASE UNCHANGED vars
  BY <1>2 DEF vars, queueVars, walkVars, OwnersInv, Lists, Known, Family, Unevaluated,
     AnalysedFree, ResultsFree, KidsFree, Children, Free, Selected
<1>3. CASE Prefilter \/ Fire \/ Handle \/ AnalyseReady \/ PopWaiting \/ NothingToRefill
           \/ HandOver \/ EndEvaluate \/ NoResult \/ Loop
  <2>1. Flows(Known, q, q') /\ UNCHANGED <<ec, kids>> /\ pc \notin Late /\ pc' \notin Late
    BY <1>1, <1>3, PrefilterFlows, FireFlows, HandleFlows, RestFlows
  <2> QED
    BY <2>1, FlowOwners
<1>4. CASE Postfilter
  BY <1>4, FilterOwners, SelectorOwners, WalkOwners, PopResultOwners, FinalizeChildOwners,
     FinalizeSelectedOwners, PushOwners DEF Postfilter
<1>5. CASE Evaluate \/ AnalyseResult
  BY <1>5, EvaluateOwners, AnalyseResultOwners
<1> QED
  BY <1>2, <1>3, <1>4, <1>5 DEF Next, Step, Terminated

\* Evaluate alone numbers a context, and the context it takes has no number.
LEMMA NumbersKept ==
  NoReturn /\ TypeOK /\ OwnersInv /\ [Next]_vars =>
    \A c \in Known : ec[c].eval # 0 => ec'[c].eval = ec[c].eval
<1> SUFFICES ASSUME JumpUnits = <<>>, TypeOK, OwnersInv, [Next]_vars, NEW c \in Known, ec[c].eval # 0
             PROVE  ec'[c].eval = ec[c].eval
  BY DEF NoReturn
<1>1. Lists(Known, q)
  BY DEF OwnersInv
<1>2. CASE Prefilter \/ Fire \/ Handle \/ AnalyseReady \/ PopWaiting \/ NothingToRefill
           \/ HandOver \/ EndEvaluate \/ NoResult \/ Loop
  BY <1>1, <1>2, PrefilterFlows, FireFlows, HandleFlows, RestFlows
<1>3. CASE Evaluate
  <2>1. /\ 1 \in 1 .. Len(q["working"]) /\ Evaluated = q["working"][1]
        /\ \E l \in Nat : Grows(l)
    BY <1>3, EvaluateGraph
  <2>2. q["working"] \in Seq(Known)
    BY <1>1 DEF Lists, Queues
  <2>3. Evaluated \in Held(q, "working") /\ "working" \in Passing
    BY <2>1, <2>2, LenProperties DEF Held, Passing, Queues
  <2>4. Evaluated # c
    BY <2>3 DEF OwnersInv, Unevaluated
  <2> QED
    BY <2>1, <2>4 DEF Grows
<1>4. CASE FinalizeChild
  <2>1. kids \in Seq(Known) /\ kids # <<>> /\ Finalize(Head(kids))
    BY Zenon, <1>4, KnownPlaces DEF FinalizeChild
  <2>2. Head(kids) \in Known
    BY <2>1, HeadTailProperties
  <2> QED
    BY <2>1, <2>2, FinalizeTrims DEF Trims
<1>5. CASE FinalizeSelected
  <2>1. q["ante"] \in Seq(Known)
    BY <1>1 DEF Lists, Queues
  <2>2. q["ante"] # <<>> /\ Finalize(Head(q["ante"]))
    BY Zenon, <1>5 DEF FinalizeSelected
  <2>3. Head(q["ante"]) \in Known
    BY <2>1, <2>2, HeadTailProperties
  <2> QED
    BY <2>2, <2>3, FinalizeTrims DEF Trims
<1>6. CASE \/ FilterPostfilter \/ SelectorPostfilter \/ NextPostfilter \/ EndPostfiltering
           \/ PopResult \/ EndFinalize \/ PushWaiting \/ AnalyseResult \/ UNCHANGED vars
  BY <1>6 DEF FilterPostfilter, SelectorPostfilter, NextPostfilter, EndPostfiltering,
     PopResult, EndFinalize, PushWaiting, AnalyseResult, vars, queueVars
<1> QED
  BY <1>2, <1>3, <1>4, <1>5, <1>6 DEF Next, Step, Terminated, Postfilter

\* What the theorems rest on: where nobody puts contexts back, the invariant holds.
LEMMA NoReturnOwners == Spec => [](TypeOK /\ StopInv /\ (NoReturn => OwnersInv))
<1>1. Init => StopInv /\ (NoReturn => OwnersInv)
  BY StopInvInit, OwnersInit
<1>2. /\ TypeOK /\ StopInv /\ (NoReturn => OwnersInv) /\ [Next]_vars
      => StopInv' /\ (NoReturn => OwnersInv)'
  BY StopInvStep, OwnersStep DEF NoReturn, OneSelector
<1> QED
  BY <1>1, <1>2, TypeAndFiring, PTL DEF Spec

\* Without a hit-or-jump unit every move of the loop, the filters and finalizePostfiltering takes
\* a context from one list to one other: no two lists of the engine ever share a context, and
\* none holds one twice, whatever the units reject or select.
THEOREM NobodyOwnsTwice == Spec => []NoDuplicate
<1>1. StopInv /\ (NoReturn => OwnersInv) => NoDuplicate
  BY DEF OwnersInv, Lists, NoDuplicate
<1> QED
  BY <1>1, NoReturnOwners, PTL

\* Without a hit-or-jump unit SymbexProcessor::runStep never takes a context that has a number:
\* no child is reached from two results, or through two lists.
THEOREM EvaluatedAtMostOnce == Spec => EvaluatedOnce
<1>1. TypeOK /\ StopInv /\ (NoReturn => OwnersInv) /\ [Next]_vars =>
        [NoReturn => \A c \in Known : ec[c].eval # 0 => ec'[c].eval = ec[c].eval]_vars
  BY NumbersKept
<1> QED
  BY <1>1, NoReturnOwners, PTL DEF Spec, EvaluatedOnce

=============================================================================
