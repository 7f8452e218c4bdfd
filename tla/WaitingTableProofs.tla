------------------------- MODULE WaitingTableProofs -------------------------
(* Theorems about the strategies that keep a table of lists.               *)
EXTENDS WaitingTable, ListLemmas

\* The constants, as the proofs use them.
LEMMA ConstantTypes ==
  /\ \A c \in Configs : /\ c.weighted \in BOOLEAN /\ c.count \in 0 .. 126
                        /\ ~ c.weighted => c.count = 1
  /\ Weights \subseteq 0 .. 255 /\ NewWeights \subseteq 0 .. 255
  /\ MaxKids \in Nat
<1>1. Configs \subseteq Config /\ Weights \subseteq 0 .. 255 /\ NewWeights \subseteq 0 .. 255 /\ MaxKids \in Nat
  BY TableAssumption DEF TableAssumption
<1>2. ASSUME NEW c \in Config
      PROVE  c.weighted \in BOOLEAN /\ c.count \in 0 .. 126 /\ (~ c.weighted => c.count = 1)
  <2>1. CASE c \in [ basic : Basic \cup {"ORDER"}, weighted : {FALSE}, count : {1}, requeues : {FALSE} ]
    <3>1. c.weighted \in {FALSE} /\ c.count = 1
      BY <2>1
    <3>2. 1 \in 0 .. 126
      OBVIOUS
    <3> QED
      BY <3>1, <3>2, Zenon
  <2>2. CASE c \in [ basic : Basic, weighted : {TRUE}, count : 0 .. 126, requeues : BOOLEAN ]
    <3>1. c.weighted \in {TRUE} /\ c.count \in 0 .. 126
      BY <2>2
    <3> QED
      BY <3>1, Zenon
  <2> QED
    BY <2>1, <2>2 DEF Config
<1> QED
  BY <1>1, <1>2

\* Only WEIGHT is asked for requeues.
LEMMA RequeueNeedsWeight ==
  ASSUME NEW c \in Configs, c.requeues
  PROVE  c.weighted
<1>1. c \in Config
  BY TableAssumption DEF TableAssumption
<1>2. CASE c \in [ basic : Basic \cup {"ORDER"}, weighted : {FALSE}, count : {1}, requeues : {FALSE} ]
  <2>1. c.requeues \in {FALSE}
    BY <1>2
  <2> QED
    BY <2>1, Zenon
<1>3. CASE c \in [ basic : Basic, weighted : {TRUE}, count : 0 .. 126, requeues : BOOLEAN ]
  <2>1. c.weighted \in {TRUE}
    BY <1>3
  <2> QED
    BY <2>1, Zenon
<1> QED
  BY <1>1, <1>2, <1>3 DEF Config

\* The configuration is chosen once.
LEMMA StepConfig == [Next]_vars => config' = config
BY DEF Next, Push, Pop, Evaluate, Requeue, Flush, Repush, EndRepush,
       SeekTake, SeekNone, Restore, EndRestore, vars

\* The number of lists leaves room for the offsets, which are octets.
LEMMA CountType == config \in Configs => Count \in 0 .. 126
<1>1. \A c \in Configs : c.count \in 0 .. 126
  BY ConstantTypes
<1> QED
  BY <1>1 DEF Count

\* Inserting a context in a list gives a list of contexts.
LEMMA InsertAtType ==
  ASSUME NEW S, NEW s \in Seq(S), NEW e \in S, NEW i \in 1 .. Len(s) + 1
  PROVE  InsertAt(s, i, e) \in Seq(S)
<1> DEFINE front == SubSeq(s, 1, i - 1)
           back == SubSeq(s, i, Len(s))
<1>1. Len(s) \in Nat /\ \A k \in 1 .. Len(s) : s[k] \in S
  BY LenProperties, ElementOfSeq
<1>2. front \in Seq(S) /\ back \in Seq(S)
  BY <1>1, SubSeqProperties
<1>3. <<e>> \in Seq(S)
  OBVIOUS
<1> HIDE DEF front, back
<1>4. (front \o <<e>>) \o back \in Seq(S)
  BY <1>2, <1>3, ConcatProperties
<1>5. InsertAt(s, i, e) = (front \o <<e>>) \o back
  BY DEF InsertAt, front, back
<1> QED
  BY <1>4, <1>5

\* A context is put in a list of the table, whatever its weight, at a place of it.
LEMMA PlaceType ==
  ASSUME TypeOK, NEW c \in Context
  PROVE  /\ Place(c) \in Places
         /\ PushPlaces(table[Place(c)], c) \subseteq 1 .. Len(table[Place(c)]) + 1
<1>1. Count \in 0 .. 126 /\ c.weight \in 0 .. 255
  BY ConstantTypes DEF TypeOK, Count, Context
<1>2. Place(c) \in Places
  <2>1. CASE config.weighted
    <3>1. Place(c) = IF c.weight < Count THEN c.weight ELSE Count
      BY <2>1, Zenon DEF Place, Clamp
    <3> QED
      BY <1>1, <3>1 DEF Places
  <2>2. CASE ~ config.weighted
    <3>1. Count = 1
      BY <2>2, ConstantTypes, Zenon DEF TypeOK, Count
    <3>2. Place(c) = 1
      BY <2>2, Zenon DEF Place
    <3> QED
      BY <3>1, <3>2 DEF Places
  <2> QED
    BY <2>1, <2>2
<1> QED
  BY <1>2, Zenon DEF PushPlaces

\* A push leaves the table and the window well typed.
LEMMA PushOneType ==
  ASSUME TypeOK, NEW c \in Context, PushOne(c)
  PROVE  table' \in [Places -> Seq(Context)] /\ wmin' \in 0 .. 255 /\ wmax' \in 0 .. 255
<1>1. PICK i \in 1 .. Len(table[Place(c)]) + 1 :
        table' = [table EXCEPT ![Place(c)] = InsertAt(table[Place(c)], i, c)]
  BY PlaceType DEF PushOne
<1>2. InsertAt(table[Place(c)], i, c) \in Seq(Context)
  BY PlaceType, InsertAtType DEF TypeOK
<1>3. c.weight \in 0 .. 255
  BY DEF Context
<1>4. wmin' \in {wmin, c.weight} /\ wmax' \in {wmax, c.weight}
  BY DEF PushOne
<1> QED
  BY <1>1, <1>2, <1>3, <1>4 DEF TypeOK

\* A pop takes contexts from one list.
LEMMA TakeFromType ==
  ASSUME TypeOK, NEW w \in Places, table[w] # <<>>, TakeFrom(w)
  PROVE  /\ table' \in [Places -> Seq(Context)] /\ ready' \in Seq(Context)
         /\ \A v \in Places \ {w} : table'[v] = table[v]
<1>1. table[w] \in Seq(Context) /\ ready \in Seq(Context) /\ DOMAIN table = Places
  BY DEF TypeOK
<1>2. CASE config.basic = "ALL"
  <2>1. ready' = ready \o table[w] /\ table' = [table EXCEPT ![w] = <<>>]
    BY <1>2 DEF TakeFrom
  <2>2. ready \o table[w] \in Seq(Context) /\ <<>> \in Seq(Context)
    BY <1>1, ConcatProperties
  <2> QED
    BY <2>1, <2>2 DEF TypeOK
<1>3. CASE config.basic # "ALL"
  <2>1. PICK i \in PopPlaces(table[w]) :
          /\ ready' = Append(ready, table[w][i])
          /\ table' = [table EXCEPT ![w] = RemoveAt(table[w], i)]
    BY <1>3 DEF TakeFrom
  <2>2. Len(table[w]) \in Nat \ {0} /\ DOMAIN table[w] = 1 .. Len(table[w])
    BY <1>1, EmptySeq, LenProperties
  <2>3. i \in 1 .. Len(table[w])
    BY <1>3, <2>1, <2>2 DEF PopPlaces
  <2>4. table[w][i] \in Context
    BY <1>1, <2>3, ElementOfSeq
  <2>5. Append(ready, table[w][i]) \in Seq(Context)
    BY <1>1, <2>4, AppendProperties
  <2>6. RemoveAt(table[w], i) \in Seq(Context)
    BY <1>1, <2>3, RemoveAtType
  <2> QED
    BY <2>1, <2>5, <2>6 DEF TypeOK
<1> QED
  BY <1>2, <1>3

\* A pop takes from one list that is not empty, and the window may start there.
LEMMA PopsAList ==
  ASSUME TypeOK, Pop
  PROVE  \E w \in Places : /\ table[w] # <<>> /\ TakeFrom(w)
                           /\ IF config.weighted
                              THEN w \in FirstFrom(wmin) /\ wmin' = w
                              ELSE wmin' = wmin
<1>1. Count \in 0 .. 126 /\ config.weighted \in BOOLEAN
  BY ConstantTypes DEF TypeOK, Count
<1>2. CASE config.weighted
  <2>1. PICK w \in FirstFrom(wmin) : TakeFrom(w) /\ wmin' = w
    BY <1>2, Zenon DEF Pop, PopWeighted
  <2>2. wmin \in Nat
    BY DEF TypeOK
  <2>3. w \in wmin .. Count /\ table[w] # <<>>
    BY <2>1 DEF FirstFrom
  <2>4. w \in Places
    BY <1>1, <2>2, <2>3 DEF Places
  <2> QED
    BY <1>2, <2>1, <2>3, <2>4, Zenon
<1>3. CASE ~ config.weighted
  <2>1. HasWaiting /\ PopBasic
    BY <1>3, Zenon DEF Pop
  <2>2. Places = {0, 1}
    BY <1>3, ConstantTypes DEF TypeOK, Count, Places
  <2>3. table[IF table[0] # <<>> THEN 0 ELSE 1] # <<>>
    BY <2>1, <2>2, Zenon DEF HasWaiting
  <2> QED
    BY <1>3, <2>1, <2>2, <2>3, Zenon DEF PopBasic
<1> QED
  BY <1>1, <1>2, <1>3, Zenon

\* What is pushed after an evaluation is a list of contexts.
LEMMA KidsType ==
  ASSUME NEW c \in Context, NEW n \in Nat, NEW f \in [1 .. n -> Weights]
  PROVE  ChildOrder([ i \in 1 .. n |-> [path |-> Append(c.path, i), weight |-> f[i]] ]) \in Seq(Context)
<1> DEFINE s == [ i \in 1 .. n |-> [path |-> Append(c.path, i), weight |-> f[i]] ]
<1>1. ASSUME NEW i \in 1 .. n
      PROVE  [path |-> Append(c.path, i), weight |-> f[i]] \in Context
  <2>1. c.path \in Seq(Nat) /\ i \in Nat
    BY DEF Context
  <2>2. Append(c.path, i) \in Seq(Nat)
    BY <2>1, AppendProperties
  <2>3. f[i] \in Weights /\ Weights \subseteq 0 .. 255
    BY ConstantTypes
  <2>4. f[i] \in 0 .. 255
    BY <2>3
  <2> QED
    BY <2>1, <2>2, <2>4 DEF Context
<1>2. s \in [1 .. n -> Context]
  BY <1>1
<1>3. s \in Seq(Context) /\ Len(s) = n
  BY <1>2, SeqDef, LenProperties
<1> HIDE DEF s
<1>4. Reverse(s) \in [1 .. n -> Context]
  BY <1>2, <1>3 DEF Reverse
<1>5. Reverse(s) \in Seq(Context)
  BY <1>4, SeqDef
<1> QED
  BY <1>3, <1>5 DEF ChildOrder, s

\* What is taken out of the table for a trace is one of its lists, with the same
\* contexts; one may have another weight.
LEMMA SeekTakes ==
  ASSUME TypeOK, SeekTake
  PROVE  /\ rmin' \in Places /\ rmin' \in Nat /\ table[rmin'] # <<>>
         /\ table' = [table EXCEPT ![rmin'] = <<>>]
         /\ requeued' \in Seq(Context) /\ Len(requeued') = Len(table[rmin'])
         /\ \A k \in 1 .. Len(requeued') : requeued'[k].path = table[rmin'][k].path
         /\ Paths(requeued') = Paths(table[rmin'])
         /\ pc' \in {"restore", "driven"} /\ pc = "seek" /\ config' = config
<1> DEFINE s == table[rmin']
<1>1. rmin' \in rmin .. Count /\ s # <<>>
  BY DEF SeekTake, SeekList, FirstFrom
<1>2. Count \in 0 .. 126 /\ rmin \in Nat
  BY CountType DEF TypeOK
<1>3. rmin' \in Places /\ rmin' \in Nat
  BY <1>1, <1>2 DEF Places
<1>4. s \in Seq(Context)
  BY <1>3 DEF TypeOK
<1>5. Len(s) \in Nat /\ DOMAIN s = 1 .. Len(s) /\ s \in [1 .. Len(s) -> Context]
  BY <1>4, LenProperties
<1> HIDE DEF s
<1>6. /\ requeued' \in Seq(Context) /\ Len(requeued') = Len(s)
      /\ \A k \in 1 .. Len(requeued') : requeued'[k].path = s[k].path
  <2>1. CASE requeued' = s
    BY <1>4, <2>1
  <2>2. ASSUME NEW i \in DOMAIN s, requeued' = [s EXCEPT ![i].weight = SelectedAchievable]
        PROVE  /\ requeued' \in Seq(Context) /\ Len(requeued') = Len(s)
               /\ \A k \in 1 .. Len(requeued') : requeued'[k].path = s[k].path
    <3>1. s[i] \in Context
      BY <1>5, <2>2
    <3>2. /\ [s[i] EXCEPT !.weight = SelectedAchievable] \in Context
          /\ [s[i] EXCEPT !.weight = SelectedAchievable].path = s[i].path
      BY <3>1 DEF Context, SelectedAchievable
    <3>3. requeued' = [s EXCEPT ![i] = [s[i] EXCEPT !.weight = SelectedAchievable]]
      BY <2>2
    <3>4. requeued' \in [1 .. Len(s) -> Context]
      BY <1>5, <3>2, <3>3
    <3>5. requeued' \in Seq(Context) /\ Len(requeued') = Len(s)
      BY <1>5, <3>4, SeqDef, LenProperties
    <3>6. \A k \in 1 .. Len(s) : requeued'[k].path = s[k].path
      BY <1>5, <3>2, <3>3
    <3> QED
      BY <3>5, <3>6
  <2>3. requeued' = s \/ \E i \in DOMAIN s : requeued' = [s EXCEPT ![i].weight = SelectedAchievable]
    BY DEF SeekTake, s
  <2> QED
    BY <2>1, <2>2, <2>3
<1>7. Paths(requeued') = Paths(s)
  <2>1. DOMAIN requeued' = 1 .. Len(s)
    BY <1>6, LenProperties
  <2> QED
    BY <1>5, <1>6, <2>1 DEF Paths
<1> QED
  BY <1>1, <1>3, <1>6, <1>7 DEF SeekTake, s

\* After an evaluation the loop goes on, or nothing is known of it.
LEMMA EvaluateEnds ==
  ASSUME Evaluate
  PROVE  pc' \in {"idle", "crashed"}
BY Zenon DEF Evaluate

\* TypeOK holds at first.
LEMMA InitType == Init => TypeOK
<1> SUFFICES ASSUME Init PROVE TypeOK
  OBVIOUS
<1>1. Count \in 0 .. 126 /\ wmin \in 0 .. 255 /\ wmax \in 0 .. 255
  BY ConstantTypes DEF Init, Count
<1>2. <<>> \in Seq(Context) /\ <<>> \in Seq(Nat)
  OBVIOUS
<1>3. [path |-> <<>>, weight |-> 0] \in Context
  BY <1>2 DEF Context
<1>4. << [path |-> <<>>, weight |-> 0] >> \in Seq(Context)
  BY <1>3
<1>5. table \in [Places -> Seq(Context)]
  BY <1>2 DEF Init
<1>6. kids \in Seq(Context) /\ ready \in Seq(Context) /\ requeued \in Seq(Context)
  BY <1>2, <1>4 DEF Init
<1>7. posted \in BOOLEAN /\ strong \in BOOLEAN
  BY Zenon DEF Init
<1>8. rmin \in Nat /\ created \in Nat /\ stale \subseteq Seq(Nat)
  BY DEF Init
<1> QED
  BY <1>1, <1>5, <1>6, <1>7, <1>8 DEF Init, TypeOK

\* Every step preserves TypeOK.
LEMMA NextType == TypeOK /\ [Next]_vars => TypeOK'
<1> SUFFICES ASSUME TypeOK, [Next]_vars PROVE TypeOK'
  OBVIOUS
<1>1. /\ ready \in Seq(Context) /\ kids \in Seq(Context) /\ requeued \in Seq(Context)
      /\ Count \in 0 .. 126
  BY ConstantTypes DEF TypeOK, Count
<1>2. CASE Push
  <2>1. Head(kids) \in Context /\ Tail(kids) \in Seq(Context)
    BY <1>1, <1>2, HeadTailProperties DEF Push
  <2>2. config' = config /\ UNCHANGED <<pc, ready, created, requeueVars>>
    BY <1>2 DEF Push
  <2>3. table' \in [Places -> Seq(Context)] /\ wmin' \in 0 .. 255 /\ wmax' \in 0 .. 255
    BY <1>2, <2>1, PushOneType DEF Push
  <2>4. kids' \in Seq(Context)
    BY <1>2, <2>1 DEF Push
  <2> QED
    BY <2>2, <2>3, <2>4 DEF TypeOK, requeueVars, Places, Count
<1>3. CASE Pop
  <2>1. PICK w \in Places : /\ table[w] # <<>> /\ TakeFrom(w) /\ wmin' \in {wmin, w}
    BY <1>1, <1>3, PopsAList
  <2>2. table' \in [Places -> Seq(Context)] /\ ready' \in Seq(Context)
    BY <2>1, TakeFromType
  <2>3. wmin' \in 0 .. 255
    BY <1>1, <2>1 DEF TypeOK, Places
  <2> QED
    BY <1>3, <2>2, <2>3 DEF Pop, TypeOK, requeueVars, Places, Count
<1>4. CASE Evaluate
  <2>6. pc' \in {"idle", "crashed"}
    BY <1>4, EvaluateEnds
  <2>1. Head(ready) \in Context /\ Tail(ready) \in Seq(Context)
    BY <1>1, <1>4, HeadTailProperties DEF Evaluate
  <2>2. PICK n \in 0 .. MaxKids :
          /\ created' = created + n
          /\ \E f \in [1 .. n -> Weights] :
               kids' = ChildOrder([ i \in 1 .. n |->
                         [path |-> Append(Head(ready).path, i), weight |-> f[i]] ])
    BY <1>4 DEF Evaluate
  <2>3. n \in Nat /\ created' \in Nat
    BY <2>2, ConstantTypes DEF TypeOK
  <2>4. kids' \in Seq(Context)
    BY <2>1, <2>2, <2>3, KidsType
  <2>5. posted' \in BOOLEAN
    BY <1>4 DEF Evaluate, TypeOK
  <2> QED
    BY <1>4, <2>1, <2>3, <2>4, <2>5, <2>6 DEF Evaluate, TypeOK, Places, Count
<1>5. CASE Requeue
  <2>1. stale' \subseteq Seq(Nat)
    <3>1. stale' = PathsIn({ w \in Places : w <= NonPriority })
      BY <1>5 DEF Requeue
    <3>2. ASSUME NEW w \in Places, NEW i \in DOMAIN table[w]
          PROVE  table[w][i].path \in Seq(Nat)
      <4>1. table[w] \in Seq(Context) /\ i \in 1 .. Len(table[w])
        BY LenProperties DEF TypeOK
      <4>2. table[w][i] \in Context
        BY <4>1, ElementOfSeq
      <4> QED
        BY <4>2 DEF Context
    <3> QED
      BY <3>1, <3>2 DEF PathsIn
  <2> QED
    BY <1>5, <2>1 DEF Requeue, TypeOK, Places, Count
<1>6. CASE Flush
  <2>1. CASE rmin' \in FirstFrom(rmin) /\ requeued' = table[rmin'] /\ table' = [table EXCEPT ![rmin'] = <<>>]
    <3>1. rmin' \in Places /\ rmin' \in Nat
      BY <1>1, <2>1 DEF FirstFrom, Places, TypeOK
    <3>2. requeued' \in Seq(Context) /\ table' \in [Places -> Seq(Context)]
      BY <2>1, <3>1 DEF TypeOK
    <3> QED
      BY <1>6, <3>1, <3>2 DEF Flush, TypeOK, Places, Count
  <2>2. CASE /\ rmin' = IF rmin <= Count THEN Count + 1 ELSE rmin
             /\ requeued' = <<>> /\ UNCHANGED table
    <3>1. rmin' \in Nat
      BY <1>1, <2>2 DEF TypeOK
    <3>2. requeued' \in Seq(Context)
      BY <2>2
    <3> QED
      BY <1>6, <2>2, <3>1, <3>2 DEF Flush, TypeOK, Places, Count
  <2> QED
    BY <1>6, <2>1, <2>2 DEF Flush
<1>7. CASE Repush
  <2>1. Head(requeued) \in Context /\ Tail(requeued) \in Seq(Context)
    BY <1>1, <1>7, HeadTailProperties DEF Repush
  <2>2. PICK w \in NewWeights : /\ PushOne([Head(requeued) EXCEPT !.weight = w])
                                /\ strong' = (strong \/ w = StronglyAchievable)
    BY <1>7 DEF Repush
  <2>3. w \in 0 .. 255
    BY <2>2, ConstantTypes
  <2>6. [Head(requeued) EXCEPT !.weight = w] \in Context
    BY <2>1, <2>3 DEF Context
  <2>4. table' \in [Places -> Seq(Context)] /\ wmin' \in 0 .. 255 /\ wmax' \in 0 .. 255
    BY <2>2, <2>6, PushOneType
  <2>5. strong' \in BOOLEAN
    BY <2>2, Zenon
  <2> QED
    BY <1>7, <2>1, <2>4, <2>5 DEF Repush, TypeOK, Places, Count
<1>8. CASE EndRepush
  <2>1. pc' \in {"flush", "seek", "idle"} /\ rmin' \in Nat
    BY <1>8 DEF EndRepush, TypeOK
  <2> QED
    BY <1>8, <2>1 DEF EndRepush, TypeOK, Places, Count
<1>10. CASE SeekTake
  <2>1. /\ rmin' \in Nat /\ requeued' \in Seq(Context) /\ pc' \in {"restore", "driven"}
        /\ table' \in [Places -> Seq(Context)]
    <3>1. /\ rmin' \in Nat /\ requeued' \in Seq(Context) /\ pc' \in {"restore", "driven"}
          /\ rmin' \in Places /\ table' = [table EXCEPT ![rmin'] = <<>>]
      BY <1>10, SeekTakes
    <3>2. table \in [Places -> Seq(Context)] /\ <<>> \in Seq(Context)
      BY DEF TypeOK
    <3>3. table' \in [Places -> Seq(Context)]
      BY <3>1, <3>2
    <3> QED
      BY <3>1, <3>3
  <2> QED
    BY <1>10, <2>1 DEF SeekTake, TypeOK, Places, Count
<1>11. CASE SeekNone
  BY <1>11 DEF SeekNone, requeueVars, TypeOK, Places, Count
<1>12. CASE Restore
  <2>1. Head(requeued) \in Context /\ Tail(requeued) \in Seq(Context)
    BY <1>1, <1>12, HeadTailProperties DEF Restore
  <2>2. table' \in [Places -> Seq(Context)] /\ wmin' \in 0 .. 255 /\ wmax' \in 0 .. 255
    BY <1>12, <2>1, PushOneType DEF Restore
  <2> QED
    BY <1>12, <2>1, <2>2 DEF Restore, TypeOK, Places, Count
<1>13. CASE EndRestore
  <2>1. pc' \in {"seek", "idle"} /\ rmin' \in Nat
    BY <1>13 DEF EndRestore, TypeOK
  <2> QED
    BY <1>13, <2>1 DEF EndRestore, TypeOK, Places, Count
<1>9. CASE UNCHANGED vars
  BY <1>9 DEF vars, requeueVars, TypeOK, Places, Count
<1> QED
  BY <1>2, <1>3, <1>4, <1>5, <1>6, <1>7, <1>8, <1>9, <1>10, <1>11, <1>12, <1>13 DEF Next

\* The lists, the window and the requeue keep their types for every strategy and
\* every number of lists; weights stay octets.
THEOREM TypeCorrect == Spec => []TypeOK
<1>1. Init => TypeOK
  BY InitType
<1>2. TypeOK /\ [Next]_vars => TypeOK'
  BY NextType
<1> QED
  BY <1>1, <1>2, PTL DEF Spec

-----------------------------------------------------------------------------
(* The window of WEIGHT. *)

TableInv == TypeOK /\ WindowCovers

\* A push widens the window to the list it uses.
LEMMA PushOneWindow ==
  ASSUME TableInv, NEW c \in Context, PushOne(c), config' = config
  PROVE  WindowCovers'
<1>1. SUFFICES ASSUME config.weighted
               PROVE  wmin' <= Count /\ \A w \in Places : table'[w] # <<>> => wmin' <= w /\ w <= wmax'
  BY Zenon DEF WindowCovers, Places, Count
<1>2. /\ c.weight \in 0 .. 255 /\ Count \in 0 .. 126
      /\ wmin \in 0 .. 255 /\ wmax \in 0 .. 255 /\ DOMAIN table = Places
  <2>1. c.weight \in 0 .. 255
    BY DEF Context
  <2>2. Count \in 0 .. 126
    BY CountType DEF TableInv, TypeOK
  <2> QED
    BY <2>1, <2>2 DEF TableInv, TypeOK
<1>3. /\ wmin' = IF c.weight < wmin THEN c.weight ELSE wmin
      /\ wmax' = IF c.weight > wmax THEN c.weight ELSE wmax
  BY <1>1, Zenon DEF PushOne
<1>4. wmin <= Count /\ \A w \in Places : table[w] # <<>> => wmin <= w /\ w <= wmax
  BY <1>1, Zenon DEF TableInv, WindowCovers
<1>5. Place(c) = IF c.weight < Count THEN c.weight ELSE Count
  BY <1>1, Zenon DEF Place, Clamp
<1>6. wmin' <= Place(c) /\ Place(c) <= wmax'
  <2>1. wmin <= Count
    BY <1>4
  <2>2. wmin' <= c.weight /\ wmin' <= wmin /\ c.weight <= wmax'
    BY <1>2, <1>3
  <2>3. wmin' \in Nat /\ wmax' \in Nat /\ Place(c) \in {c.weight, Count} /\ Place(c) <= c.weight
    BY <1>2, <1>3, <1>5
  <2> QED
    BY <1>2, <2>1, <2>2, <2>3
<1>7. \A w \in Places : w # Place(c) => table'[w] = table[w]
  BY <1>2 DEF PushOne
<1>8. wmin' <= wmin /\ wmax <= wmax' /\ wmin' \in Nat /\ wmax' \in Nat
  BY <1>2, <1>3
<1>9. ASSUME NEW w \in Places, table'[w] # <<>>
      PROVE  wmin' <= w /\ w <= wmax'
  <2>1. CASE w = Place(c)
    BY <1>6, <2>1
  <2>2. CASE w # Place(c)
    <3>1. wmin <= w /\ w <= wmax /\ w \in Nat
      BY <1>2, <1>4, <1>7, <1>9, <2>2 DEF Places
    <3> QED
      BY <1>2, <1>8, <3>1
  <2> QED
    BY <2>1, <2>2
<1> QED
  BY <1>2, <1>4, <1>8, <1>9

\* Every step keeps the lists in use in the window.
LEMMA NextWindow == TableInv /\ [Next]_vars => WindowCovers'
<1> SUFFICES ASSUME TableInv, [Next]_vars PROVE WindowCovers'
  OBVIOUS
<1>1. /\ Count \in 0 .. 126 /\ wmin \in 0 .. 255 /\ wmax \in 0 .. 255
      /\ DOMAIN table = Places
      /\ kids \in Seq(Context) /\ requeued \in Seq(Context)
  BY ConstantTypes DEF TableInv, TypeOK, Count
<1>2. CASE Push
  <2>1. Head(kids) \in Context
    BY <1>1, <1>2, HeadTailProperties DEF Push
  <2> QED
    BY <1>2, <2>1, PushOneWindow DEF Push
<1>3. CASE Pop
  <2>1. config' = config /\ wmax' = wmax
    BY <1>3 DEF Pop
  <2>2. PICK w \in Places : /\ table[w] # <<>> /\ TakeFrom(w)
                            /\ IF config.weighted
                               THEN w \in FirstFrom(wmin) /\ wmin' = w
                               ELSE wmin' = wmin
    BY <1>3, PopsAList DEF TableInv
  <2>3. \A v \in Places \ {w} : table'[v] = table[v]
    BY <2>2, TakeFromType DEF TableInv
  <2>4. ASSUME config.weighted
        PROVE  wmin' <= Count /\ \A v \in Places : table'[v] # <<>> => wmin' <= v /\ v <= wmax'
    <3>1. /\ wmin' = w /\ w \in wmin .. Count
          /\ \A u \in wmin .. w - 1 : table[u] = <<>>
      BY <2>2, <2>4, Zenon DEF FirstFrom
    <3>2. \A v \in Places : table[v] # <<>> => wmin <= v /\ v <= wmax
      BY <2>4, Zenon DEF TableInv, WindowCovers
    <3>3. ASSUME NEW v \in Places, table'[v] # <<>>
          PROVE  wmin' <= v /\ v <= wmax'
      <4>1. table[v] # <<>> /\ wmin <= v /\ v <= wmax
        BY <2>2, <2>3, <3>2, <3>3
      <4>2. ~ (v \in wmin .. w - 1)
        BY <3>1, <4>1
      <4> QED
        BY <1>1, <2>1, <3>1, <4>1, <4>2 DEF Places
    <3> QED
      BY <1>1, <3>1, <3>3
  <2> QED
    BY <2>1, <2>4, Zenon DEF WindowCovers, Places, Count
<1>4. CASE Flush
  <2>1. \A w \in Places : table'[w] = <<>> \/ table'[w] = table[w]
    BY <1>1, <1>4 DEF Flush
  <2>2. wmin' = wmin /\ wmax' = wmax /\ config' = config
    BY <1>4 DEF Flush
  <2> QED
    BY <2>1, <2>2, Zenon DEF TableInv, WindowCovers, Places, Count
<1>5. CASE Repush
  <2>1. Head(requeued) \in Context
    BY <1>1, <1>5, HeadTailProperties DEF Repush
  <2>2. PICK w \in NewWeights : PushOne([Head(requeued) EXCEPT !.weight = w])
    BY <1>5 DEF Repush
  <2>3. w \in 0 .. 255
    BY <2>2, ConstantTypes
  <2>4. [Head(requeued) EXCEPT !.weight = w] \in Context
    BY <2>1, <2>3 DEF Context
  <2> QED
    BY <1>5, <2>2, <2>4, PushOneWindow DEF Repush
<1>6. CASE Evaluate \/ Requeue \/ EndRepush \/ SeekNone \/ EndRestore \/ UNCHANGED vars
  <2>1. UNCHANGED <<config, table, wmin, wmax>>
    BY <1>6 DEF Evaluate, Requeue, EndRepush, SeekNone, EndRestore, vars
  <2> QED
    BY <2>1, Zenon DEF TableInv, WindowCovers, Places, Count
<1>7. CASE SeekTake
  <2>1. \A w \in Places : table'[w] = <<>> \/ table'[w] = table[w]
    BY <1>1, <1>7 DEF SeekTake
  <2>2. wmin' = wmin /\ wmax' = wmax /\ config' = config
    BY <1>7 DEF SeekTake
  <2> QED
    BY <2>1, <2>2, Zenon DEF TableInv, WindowCovers, Places, Count
<1>8. CASE Restore
  <2>1. Head(requeued) \in Context
    BY <1>1, <1>8, HeadTailProperties DEF Restore
  <2> QED
    BY <1>8, <2>1, PushOneWindow DEF Restore
<1> QED
  BY <1>2, <1>3, <1>4, <1>5, <1>6, <1>7, <1>8 DEF Next

\* The scan of a weighted pop, from mPushWeightMin to mPushWeightMax, misses no
\* list in use and stays within the table, for every number of lists and all
\* weights, those beyond the table included, with requeues at any time.
THEOREM ScanCoversTable == Spec => []WindowCovers
<1>1. Init => TableInv
  <2> SUFFICES ASSUME Init PROVE WindowCovers
    BY InitType DEF TableInv
  <2>1. config \in Configs /\ wmin = Count
    BY DEF Init
  <2>2. wmin <= Count
    BY <2>1, CountType
  <2>3. \A w \in Places : table[w] = <<>>
    BY DEF Init
  <2> QED
    BY <2>2, <2>3, Zenon DEF WindowCovers
<1>2. TableInv /\ [Next]_vars => TableInv'
  BY NextType, NextWindow DEF TableInv
<1>3. TableInv => WindowCovers
  BY DEF TableInv
<1> QED
  BY <1>1, <1>2, <1>3, PTL DEF Spec

\* No requeue reads past the table, if every unit that asks for requeues has a
\* list for each weight up to UNKNOWN_ACHIEVABLE: whatever is in use, whatever the
\* weights, and wherever the walk starts.
THEOREM NoReadPastTable ==
  ASSUME \A c \in Configs : c.requeues => c.count >= UnknownAchievable
  PROVE  Spec => []ReadsWithinTable
<1> DEFINE Inv == /\ config \in Configs /\ pc # "crashed" /\ posted \in BOOLEAN
                  /\ posted \/ pc # "idle" => config.requeues
<1>1. Init => Inv
  BY DEF Init
<1>2. Inv /\ [Next]_vars => Inv'
  <2> SUFFICES ASSUME Inv, [Next]_vars PROVE Inv'
    OBVIOUS
  <2>1. config.requeues => ~ (Count < StronglyAchievable) /\ ~ (Count < UnknownAchievable)
    <3>1. Count \in 0 .. 126
      BY CountType
    <3> QED
      BY <3>1 DEF Count, StronglyAchievable, UnknownAchievable
  <2>2. CASE Evaluate
    <3>1. pc' = "idle" /\ config' = config
      BY <2>1, <2>2, Zenon DEF Evaluate
    <3>2. posted' \in (IF config.requeues THEN {posted, TRUE} ELSE {posted})
      BY <2>2, Zenon DEF Evaluate
    <3> QED
      BY <3>1, <3>2, Zenon
  <2>3. CASE Push \/ Pop
    BY <2>3 DEF Push, Pop, requeueVars
  <2>4. CASE Requeue
    BY <2>4 DEF Requeue
  <2>5. CASE Flush \/ Repush \/ EndRepush
    BY <2>5 DEF Flush, Repush, EndRepush
  <2>6. CASE SeekTake \/ Restore \/ EndRestore
    BY <2>6 DEF SeekTake, Restore, EndRestore
  <2>7. CASE SeekNone
    BY <2>1, <2>7 DEF SeekNone, requeueVars
  <2>8. CASE UNCHANGED vars
    BY <2>8 DEF vars, requeueVars
  <2> QED
    BY <2>2, <2>3, <2>4, <2>5, <2>6, <2>7, <2>8 DEF Next
<1>3. Inv => ReadsWithinTable
  BY DEF ReadsWithinTable
<1> QED
  BY <1>1, <1>2, <1>3, PTL DEF Spec

-----------------------------------------------------------------------------
(* What pushes and pops do to the contexts of the lists. *)

\* Inserting at place i shifts what comes from there on.
LEMMA InsertAtElements ==
  ASSUME NEW S, NEW s \in Seq(S), NEW e \in S, NEW i \in 1 .. Len(s) + 1
  PROVE  /\ Len(InsertAt(s, i, e)) = Len(s) + 1
         /\ \A k \in 1 .. Len(s) + 1 :
              InsertAt(s, i, e)[k] = IF k < i THEN s[k] ELSE IF k = i THEN e ELSE s[k - 1]
<1> DEFINE front == SubSeq(s, 1, i - 1)
           back == SubSeq(s, i, Len(s))
<1>1. Len(s) \in Nat /\ \A k \in 1 .. Len(s) : s[k] \in S
  BY LenProperties, ElementOfSeq
<1>2. /\ front \in Seq(S) /\ Len(front) = i - 1
      /\ \A k \in 1 .. i - 1 : front[k] = s[k]
  BY <1>1, SubSeqProperties
<1>3. /\ back \in Seq(S) /\ Len(back) = Len(s) - i + 1
      /\ \A k \in 1 .. Len(s) - i + 1 : back[k] = s[i + k - 1]
  BY <1>1, SubSeqProperties
<1>4. InsertAt(s, i, e) = (front \o <<e>>) \o back
  BY DEF InsertAt
<1>5. <<e>> \in Seq(S) /\ Len(<<e>>) = 1 /\ <<e>>[1] = e
  OBVIOUS
<1> HIDE DEF front, back
<1>6. /\ front \o <<e>> \in Seq(S) /\ Len(front \o <<e>>) = i
      /\ \A k \in 1 .. i : (front \o <<e>>)[k] = IF k < i THEN s[k] ELSE e
  BY <1>2, <1>5, ConcatProperties
<1>9. PICK f \in Seq(S) : f = front \o <<e>>
  BY <1>6
<1>10. /\ Len(f \o back) = Len(f) + Len(back)
       /\ \A k \in 1 .. Len(f) + Len(back) :
            (f \o back)[k] = IF k <= Len(f) THEN f[k] ELSE back[k - Len(f)]
  <2>1. ASSUME NEW b \in Seq(S)
        PROVE  /\ Len(f \o b) = Len(f) + Len(b)
               /\ \A k \in 1 .. Len(f) + Len(b) :
                    (f \o b)[k] = IF k <= Len(f) THEN f[k] ELSE b[k - Len(f)]
    BY ConcatProperties
  <2> QED
    BY <1>3, <2>1, Zenon
<1>11. Len(f) = i /\ Len(f) + Len(back) = Len(s) + 1
  <2>1. Len(f) = i
    BY <1>6, <1>9, Zenon
  <2>2. i + (Len(s) - i + 1) = Len(s) + 1
    BY <1>1
  <2> QED
    BY <1>3, <2>1, <2>2, Zenon
<1>7. /\ Len(InsertAt(s, i, e)) = Len(s) + 1
      /\ \A k \in 1 .. Len(s) + 1 :
           InsertAt(s, i, e)[k] = IF k <= i THEN (front \o <<e>>)[k] ELSE back[k - i]
  BY <1>4, <1>9, <1>10, <1>11, Zenon
<1>8. ASSUME NEW k \in 1 .. Len(s) + 1
      PROVE  InsertAt(s, i, e)[k] = IF k < i THEN s[k] ELSE IF k = i THEN e ELSE s[k - 1]
  <2>1. CASE k <= i
    BY <1>6, <1>7, <2>1
  <2>2. CASE k > i
    <3>1. k - i \in 1 .. Len(s) - i + 1 /\ i + (k - i) - 1 = k - 1 /\ ~ (k <= i) /\ ~ (k < i) /\ k # i
      BY <1>1, <2>2
    <3>2. back[k - i] = s[k - 1]
      BY <1>3, <3>1, Zenon
    <3>3. InsertAt(s, i, e)[k] = back[k - i]
      BY <1>7, <3>1, Zenon
    <3> QED
      BY <3>1, <3>2, <3>3, Zenon
  <2> QED
    BY <2>1, <2>2
<1> QED
  BY <1>7, <1>8

\* Inserting adds the element to those held.
LEMMA InsertAtHeld ==
  ASSUME NEW S, NEW s \in Seq(S), NEW e \in S, NEW i \in 1 .. Len(s) + 1
  PROVE  Held(InsertAt(s, i, e)) = Held(s) \cup {e}
<1>1. PICK t \in Seq(S) : t = InsertAt(s, i, e)
  BY InsertAtType
<1>2. /\ Len(s) \in Nat /\ DOMAIN s = 1 .. Len(s) /\ DOMAIN t = 1 .. Len(s) + 1
      /\ \A k \in 1 .. Len(s) + 1 : t[k] = IF k < i THEN s[k] ELSE IF k = i THEN e ELSE s[k - 1]
  BY <1>1, InsertAtElements, LenProperties
<1>3. ASSUME NEW k \in DOMAIN t PROVE t[k] \in Held(s) \cup {e}
  <2>1. CASE k < i
    <3>1. k \in DOMAIN s /\ t[k] = s[k]
      BY <1>2, <2>1
    <3> QED
      BY <3>1, Zenon DEF Held
  <2>2. CASE k = i
    BY <1>2, <2>2
  <2>3. CASE ~ (k < i) /\ k # i
    <3>1. k - 1 \in DOMAIN s /\ t[k] = s[k - 1]
      BY <1>2, <2>3
    <3> QED
      BY <3>1, Zenon DEF Held
  <2> QED
    BY <2>1, <2>2, <2>3, Zenon
<1>4. ASSUME NEW k \in DOMAIN s PROVE \E j \in DOMAIN t : t[j] = s[k]
  <2>1. CASE k < i
    BY <1>2, <2>1
  <2>2. CASE ~ (k < i)
    <3>1. k + 1 \in DOMAIN t /\ ~ (k + 1 < i) /\ k + 1 # i /\ (k + 1) - 1 = k
      BY <1>2, <2>2
    <3> QED
      BY <1>2, <3>1
  <2> QED
    BY <2>1, <2>2
<1>5. i \in DOMAIN t /\ t[i] = e
  BY <1>2
<1>6. Held(t) \subseteq Held(s) \cup {e}
  BY <1>3, Zenon DEF Held
<1>7. Held(s) \cup {e} \subseteq Held(t)
  BY <1>4, <1>5, Zenon DEF Held
<1> QED
  BY <1>1, <1>6, <1>7

\* The first element and the others are all.
LEMMA HeadTailHeld ==
  ASSUME NEW S, NEW s \in Seq(S), s # <<>>
  PROVE  Held(s) = {Head(s)} \cup Held(Tail(s))
<1>1. /\ Len(s) \in Nat \ {0} /\ DOMAIN s = 1 .. Len(s) /\ Head(s) = s[1]
      /\ DOMAIN Tail(s) = 1 .. Len(s) - 1
      /\ \A j \in 1 .. Len(s) - 1 : Tail(s)[j] = s[j + 1]
  BY EmptySeq, LenProperties, HeadTailProperties
<1>2. \A k \in DOMAIN s : k = 1 \/ (k - 1 \in DOMAIN Tail(s) /\ Tail(s)[k - 1] = s[k])
  BY <1>1
<1>3. \A k \in DOMAIN Tail(s) : k + 1 \in DOMAIN s /\ Tail(s)[k] = s[k + 1]
  BY <1>1
<1>4. 1 \in DOMAIN s
  BY <1>1
<1>5. ASSUME NEW k \in DOMAIN s PROVE s[k] \in {Head(s)} \cup Held(Tail(s))
  <2>1. CASE k = 1
    BY <1>1, <2>1
  <2>2. CASE k # 1
    <3>1. s[k] \in Held(Tail(s))
      BY <1>2, <2>2, Zenon DEF Held
    <3> QED
      BY <3>1
  <2> QED
    BY <2>1, <2>2
<1>7. Held(s) \subseteq {Head(s)} \cup Held(Tail(s))
  BY <1>5, Zenon DEF Held
<1>6. Head(s) \in Held(s) /\ Held(Tail(s)) \subseteq Held(s)
  BY <1>1, <1>3, <1>4, Zenon DEF Held
<1> QED
  BY <1>6, <1>7

\* The paths of the contexts held.
LEMMA PathsHeld ==
  ASSUME NEW s
  PROVE  Paths(s) = { c.path : c \in Held(s) }
BY DEF Paths, Held

\* A push adds one context to one list, and leaves the others alone.
LEMMA PushOneHeld ==
  ASSUME TypeOK, NEW c \in Context, PushOne(c)
  PROVE  /\ Place(c) \in Places /\ table' \in [Places -> Seq(Context)]
         /\ Held(table'[Place(c)]) = Held(table[Place(c)]) \cup {c}
         /\ \A w \in Places \ {Place(c)} : table'[w] = table[w]
<1>1. table \in [Places -> Seq(Context)] /\ Place(c) \in Places
  BY PlaceType DEF TypeOK
<1>2. PICK i \in 1 .. Len(table[Place(c)]) + 1 :
        table' = [table EXCEPT ![Place(c)] = InsertAt(table[Place(c)], i, c)]
  BY PlaceType DEF PushOne
<1>3. PICK s \in Seq(Context) : s = table[Place(c)]
  BY <1>1
<1>4. Held(InsertAt(s, i, c)) = Held(s) \cup {c}
  BY <1>2, <1>3, InsertAtHeld
<1> QED
  BY <1>1, <1>2, <1>3, <1>4, PushOneType

-----------------------------------------------------------------------------
(* A requeue weighs every context it should. *)

\* What is still to weigh was taken out of the table, or is in a list still to come.
Carrying == pc \in {"repush", "restore", "driven"}
RequeueInv ==
  /\ ~ Carrying => requeued = <<>>
  /\ pc = "flush" =>
       stale \subseteq PathsIn({ w \in Places : rmin <= w /\ w <= NonPriority })
  /\ pc = "repush" =>
       stale \subseteq Paths(requeued) \cup PathsIn({ w \in Places : rmin < w /\ w <= NonPriority })

\* When no list from v on is the first in use, none is in use.
LEMMA NoneFrom ==
  ASSUME TypeOK, NEW v \in Nat, FirstFrom(v) = {}, NEW w \in Places, v <= w
  PROVE  table[w] = <<>>
<1>1. Count \in 0 .. 126
  BY CountType DEF TypeOK
<1> DEFINE T == { u \in v .. Count : table[u] # <<>> }
<1>2. SUFFICES ASSUME table[w] # <<>> PROVE FALSE
  OBVIOUS
<1>3. w \in T /\ T \subseteq Nat
  BY <1>1, <1>2 DEF Places
<1>4. PICK x \in T : \A y \in T : x <= y
  <2> HIDE DEF T
  <2> QED
    BY <1>3, LeastNatural
<1>5. ASSUME NEW u \in v .. x - 1 PROVE table[u] = <<>>
  <2>1. x \in v .. Count /\ u \in v .. Count /\ ~ (x <= u)
    BY <1>1, <1>4
  <2> QED
    BY <1>4, <2>1
<1>6. x \in FirstFrom(v)
  BY <1>4, <1>5, Zenon DEF FirstFrom
<1> QED
  BY <1>6

\* The paths of a list, and of some lists of the table, one by one.
LEMMA PathsMember ==
  ASSUME NEW p, NEW s
  PROVE  p \in Paths(s) <=> \E c \in Held(s) : c.path = p
BY DEF Paths, Held

LEMMA PathsInMember ==
  ASSUME NEW p, NEW S
  PROVE  p \in PathsIn(S) <=> \E w \in S : p \in Paths(table[w])
BY DEF PathsIn, Paths

LEMMA PathsInMemberNext ==
  ASSUME NEW p, NEW S
  PROVE  p \in PathsIn(S)' <=> \E w \in S' : p \in Paths(table'[w])
BY DEF PathsIn, Paths

\* What a push leaves in the lists.
LEMMA PushOneKeeps ==
  ASSUME TypeOK, NEW c \in Context, PushOne(c), NEW w \in Places
  PROVE  Paths(table[w]) \subseteq Paths(table'[w])
<1>1. Held(table[w]) \subseteq Held(table'[w])
  <2>1. CASE w = Place(c)
    BY <2>1, PushOneHeld
  <2>2. CASE w # Place(c)
    BY <2>2, PushOneHeld
  <2> QED
    BY <2>1, <2>2
<1> QED
  BY <1>1, PathsMember

\* A requeue keeps count of what it has to weigh, whatever is pushed meanwhile.
LEMMA NextRequeue == TypeOK /\ RequeueInv /\ [Next]_vars => RequeueInv'
<1> SUFFICES ASSUME TypeOK, RequeueInv, [Next]_vars PROVE RequeueInv'
  OBVIOUS
<1>0. /\ Count \in 0 .. 126 /\ rmin \in Nat /\ DOMAIN table = Places
      /\ kids \in Seq(Context) /\ requeued \in Seq(Context)
  BY CountType DEF TypeOK
<1> DEFINE Later(q, r, S, tab) ==
             \A p \in S : p \in Paths(q) \/ \E w \in Places : r < w /\ w <= NonPriority /\ p \in Paths(tab[w])
           From(r, S, tab) ==
             \A p \in S : \E w \in Places : r <= w /\ w <= NonPriority /\ p \in Paths(tab[w])
<1>1. /\ ~ Carrying => requeued = <<>>
      /\ pc = "flush" => From(rmin, stale, table)
      /\ pc = "repush" => Later(requeued, rmin, stale, table)
  <2>1. ASSUME pc = "flush" PROVE From(rmin, stale, table)
    <3>1. PICK S : S = { w \in Places : rmin <= w /\ w <= NonPriority }
      OBVIOUS
    <3>2. stale \subseteq PathsIn(S)
      BY <2>1, <3>1 DEF RequeueInv
    <3> QED
      BY <3>1, <3>2, PathsInMember
  <2>2. ASSUME pc = "repush" PROVE Later(requeued, rmin, stale, table)
    <3>1. PICK S : S = { w \in Places : rmin < w /\ w <= NonPriority }
      OBVIOUS
    <3>2. stale \subseteq Paths(requeued) \cup PathsIn(S)
      BY <2>2, <3>1 DEF RequeueInv
    <3> QED
      BY <3>1, <3>2, PathsInMember
  <2> QED
    BY <2>1, <2>2 DEF RequeueInv
<1>2. SUFFICES /\ config' = config
               /\ ~ Carrying' => requeued' = <<>>
               /\ pc' = "flush" => From(rmin', stale', table')
               /\ pc' = "repush" => Later(requeued', rmin', stale', table')
  <2> SUFFICES ASSUME /\ config' = config
                      /\ ~ Carrying' => requeued' = <<>>
                      /\ pc' = "flush" => From(rmin', stale', table')
                      /\ pc' = "repush" => Later(requeued', rmin', stale', table')
               PROVE  RequeueInv'
    OBVIOUS
  <2>1. Places' = Places
    BY Zenon DEF Places, Count
  <2>2. ASSUME pc' = "flush"
        PROVE  stale' \subseteq PathsIn({ w \in Places : rmin <= w /\ w <= NonPriority })'
    BY <2>1, <2>2, PathsInMemberNext
  <2>3. ASSUME pc' = "repush"
        PROVE  stale' \subseteq Paths(requeued') \cup PathsIn({ w \in Places : rmin < w /\ w <= NonPriority })'
    BY <2>1, <2>3, PathsInMemberNext
  <2> QED
    BY <2>2, <2>3 DEF RequeueInv, Paths
<1>3. ASSUME NEW c \in Context, PushOne(c), NEW w \in Places, NEW p \in Paths(table[w])
      PROVE  p \in Paths(table'[w])
  BY <1>3, PushOneKeeps
<1>4. CASE Push
  <2>1. Head(kids) \in Context /\ PushOne(Head(kids))
    BY <1>0, <1>4, HeadTailProperties DEF Push
  <2>2. UNCHANGED <<config, pc, requeued, rmin, stale>>
    BY <1>4 DEF Push, requeueVars
  <2> QED
    BY <1>1, <1>3, <2>1, <2>2 DEF Carrying
<1>5. CASE Pop \/ Evaluate
  <2>1. pc = "idle" /\ pc' \in {"idle", "crashed"} /\ requeued' = requeued /\ config' = config
    <3>1. Pop => pc = "idle" /\ pc' = "idle" /\ requeued' = requeued /\ config' = config
      BY DEF Pop, requeueVars
    <3>2. Evaluate => pc = "idle" /\ pc' \in {"idle", "crashed"} /\ requeued' = requeued /\ config' = config
      BY EvaluateEnds DEF Evaluate
    <3> QED
      BY <1>5, <3>1, <3>2
  <2> QED
    BY <1>1, <2>1 DEF Carrying
<1>6. CASE Requeue
  <2>1. /\ pc = "idle" /\ pc' = "flush" /\ requeued' = requeued /\ config' = config
        /\ rmin' = 0 /\ table' = table
        /\ stale' = PathsIn({ w \in Places : w <= NonPriority })
    BY <1>6 DEF Requeue
  <2>2. \A w \in Places : 0 <= w
    BY <1>0 DEF Places
  <2>3. From(0, stale', table)
    BY <2>1, <2>2, PathsInMember
  <2> QED
    BY <1>1, <2>1, <2>3 DEF Carrying
<1>7. CASE Flush
  <2>1. pc = "flush" /\ pc' = "repush" /\ stale' = stale /\ config' = config
    BY <1>7 DEF Flush
  <2>2. CASE /\ rmin' \in FirstFrom(rmin)
             /\ requeued' = table[rmin'] /\ table' = [table EXCEPT ![rmin'] = <<>>]
    <3>1. rmin' \in rmin .. Count /\ \A u \in rmin .. rmin' - 1 : table[u] = <<>>
      BY <2>2, Zenon DEF FirstFrom
    <3>2. rmin' \in Nat /\ rmin' \in Places
      BY <1>0, <3>1 DEF Places
    <3>3. ASSUME NEW w \in Places, rmin <= w, NEW p \in Paths(table[w])
          PROVE  (w = rmin' /\ p \in Paths(requeued')) \/ (rmin' < w /\ p \in Paths(table'[w]))
      <4>1. w \in Nat
        BY <1>0 DEF Places
      <4>2. table[w] # <<>>
        BY <3>3 DEF Paths
      <4>3. ~ (w \in rmin .. rmin' - 1)
        BY <3>1, <4>2
      <4>4. CASE w = rmin'
        BY <2>2, <3>3, <4>4
      <4>5. CASE w # rmin'
        <5>1. rmin' < w
          <6>1. \A a, r, v \in Nat : a <= v /\ ~ (v \in a .. r - 1) /\ v # r => r < v
            OBVIOUS
          <6> QED
            BY <1>0, <3>2, <3>3, <4>1, <4>3, <4>5, <6>1, Zenon
        <5>2. table'[w] = table[w]
          BY <1>0, <2>2, <4>5
        <5> QED
          BY <3>3, <5>1, <5>2
      <4> QED
        BY <4>4, <4>5
    <3>4. Later(requeued', rmin', stale', table')
      BY <1>1, <2>1, <3>3
    <3> QED
      BY <2>1, <3>4 DEF Carrying
  <2>3. CASE FirstFrom(rmin) = {}
    <3>1. \A w \in Places : rmin <= w => table[w] = <<>>
      BY <1>0, <2>3, NoneFrom
    <3>2. \A p \in stale : FALSE
      BY <1>1, <2>1, <3>1 DEF Paths
    <3> QED
      BY <2>1, <3>2 DEF Carrying
  <2> QED
    BY <1>7, <2>2, <2>3, Zenon DEF Flush
<1>8. CASE Repush
  <2>1. Head(requeued) \in Context /\ requeued # <<>>
    BY <1>0, <1>8, HeadTailProperties DEF Repush
  <2>2. PICK v \in NewWeights : PushOne([Head(requeued) EXCEPT !.weight = v])
    BY <1>8 DEF Repush
  <2>3. v \in 0 .. 255
    BY <2>2, ConstantTypes
  <2>4. PICK c \in Context : PushOne(c)
    BY <2>1, <2>2, <2>3 DEF Context
  <2>5. /\ pc = "repush" /\ pc' = "repush" /\ config' = config /\ rmin' = rmin
        /\ requeued' = Tail(requeued) /\ stale' = stale \ {Head(requeued).path}
    BY <1>8 DEF Repush
  <2>6. ASSUME NEW p \in Paths(requeued)
        PROVE  p = Head(requeued).path \/ p \in Paths(Tail(requeued))
    BY <1>0, <2>1, HeadTailHeld, PathsMember
  <2>7. \A w \in Places : \A p \in Paths(table[w]) : p \in Paths(table'[w])
    BY <1>3, <2>4
  <2>8. Later(requeued', rmin', stale', table')
    BY <1>1, <2>5, <2>6, <2>7
  <2> QED
    BY <2>5, <2>8 DEF Carrying
<1>9. CASE EndRepush
  <2>1. /\ pc = "repush" /\ requeued = <<>> /\ requeued' = <<>>
        /\ pc' \in {"flush", "seek", "idle"} /\ (pc' = "flush" => rmin' = rmin + 1)
        /\ UNCHANGED <<config, table, stale>>
    BY <1>9 DEF EndRepush
  <2>2. ASSUME pc' = "flush" PROVE From(rmin', stale', table')
    <3>1. \A w \in Places : rmin < w => rmin' <= w
      BY <1>0, <2>1, <2>2 DEF Places
    <3> QED
      BY <1>1, <2>1, <3>1 DEF Paths
  <2> QED
    BY <2>1, <2>2
<1>10. CASE UNCHANGED vars
  <2>1. UNCHANGED <<config, pc, table, requeued, rmin, stale>>
    BY <1>10 DEF vars, requeueVars
  <2> QED
    BY <1>1, <2>1 DEF Carrying
<1>11. CASE SeekTake \/ Restore
  <2>1. config' = config /\ pc' \in {"restore", "driven"}
    BY <1>11 DEF SeekTake, Restore
  <2> QED
    BY <2>1 DEF Carrying
<1>12. CASE SeekNone \/ EndRestore
  <2>1. /\ config' = config /\ pc' \in {"seek", "idle", "crashed"}
        /\ requeued = <<>> /\ requeued' = requeued
    BY <1>1, <1>12 DEF SeekNone, EndRestore, requeueVars, Carrying
  <2> QED
    BY <2>1
<1> QED
  BY <1>4, <1>5, <1>6, <1>7, <1>8, <1>9, <1>10, <1>11, <1>12 DEF Next

\* handleRequestRequeueWaitingTable leaves no context of a weight up to
\* NON_PRIORITY with the weight it had, unless it found one strongly achievable
\* and stopped there, for every table, all weights, and lists that the new
\* weights fill again behind the walk or ahead of it. What it takes out afterwards
\* to look for a trace keeps the weight it got.
THEOREM RequeueComplete == Spec => RequeueWeighsAll
<1>1. Init => RequeueInv
  BY DEF Init, RequeueInv
<1>2. TypeOK /\ RequeueInv /\ [Next]_vars => RequeueInv'
  BY NextRequeue
<1>3. TypeOK /\ RequeueInv /\ [Next]_vars
        => [pc = "repush" /\ pc' \notin {"repush", "flush"} => strong \/ stale = {}]_vars
  <2> SUFFICES ASSUME TypeOK, RequeueInv, Next, pc = "repush", pc' \notin {"repush", "flush"}, ~ strong
               PROVE  stale = {}
    BY DEF vars, requeueVars
  <2>1. EndRepush
    BY DEF Next, Push, Pop, Evaluate, Requeue, Flush, Repush, SeekTake, SeekNone, Restore, EndRestore
  <2>2. requeued = <<>> /\ rmin >= NonPriority /\ rmin \in Nat
    BY <2>1 DEF EndRepush, TypeOK
  <2>3. \A w \in Places : w \in Nat
    BY CountType DEF Places, TypeOK
  <2>4. \A w \in Places : ~ (rmin < w /\ w <= NonPriority)
    BY <2>2, <2>3 DEF NonPriority
  <2>5. Paths(requeued) = {}
    BY <2>2 DEF Paths
  <2>6. \A p \in stale : p \in Paths(requeued) \/ p \in PathsIn({ w \in Places : rmin < w /\ w <= NonPriority })
    BY DEF RequeueInv
  <2> QED
    BY <2>4, <2>5, <2>6, PathsInMember
<1> QED
  BY <1>1, <1>2, <1>3, TypeCorrect, PTL DEF Spec, RequeueWeighsAll

-----------------------------------------------------------------------------
(* Lists whose contexts are related in the order of the list. *)

\* R holds between each context of s and those that come after it.
Pairwise(s, R) == \A i, j \in DOMAIN s : i < j => <<s[i], s[j]>> \in R

\* Inserting keeps that, when the context stands in R at its place.
LEMMA PairwiseInsert ==
  ASSUME NEW S, NEW s \in Seq(S), NEW e \in S, NEW i \in 1 .. Len(s) + 1, NEW R,
         Pairwise(s, R),
         \A k \in DOMAIN s : (k < i => <<s[k], e>> \in R) /\ (~ (k < i) => <<e, s[k]>> \in R)
  PROVE  Pairwise(InsertAt(s, i, e), R)
<1>1. PICK t \in Seq(S) : t = InsertAt(s, i, e)
  BY InsertAtType
<1>2. /\ Len(s) \in Nat /\ DOMAIN s = 1 .. Len(s) /\ DOMAIN t = 1 .. Len(s) + 1
      /\ \A k \in 1 .. Len(s) + 1 : t[k] = IF k < i THEN s[k] ELSE IF k = i THEN e ELSE s[k - 1]
  BY <1>1, InsertAtElements, LenProperties
<1>3. ASSUME NEW k \in DOMAIN t
      PROVE  /\ k < i => k \in DOMAIN s /\ t[k] = s[k]
             /\ k = i => t[k] = e
             /\ i < k => k - 1 \in DOMAIN s /\ t[k] = s[k - 1] /\ ~ (k - 1 < i)
  BY <1>2
<1>4. ASSUME NEW j \in DOMAIN t, NEW k \in DOMAIN t, j < k
      PROVE  <<t[j], t[k]>> \in R
  <2>0. j \in Nat /\ k \in Nat /\ i \in Nat
    BY <1>2
  <2>1. CASE k < i
    BY <1>3, <1>4, <2>0, <2>1 DEF Pairwise
  <2>2. CASE k = i
    BY <1>3, <1>4, <2>0, <2>2
  <2>3. CASE i < k
    <3>1. CASE j < i
      <4>1. j < k - 1
        BY <2>0, <2>3, <3>1
      <4> QED
        BY <1>3, <2>3, <3>1, <4>1 DEF Pairwise
    <3>2. CASE j = i
      BY <1>3, <2>3, <3>2
    <3>3. CASE i < j
      <4>1. j - 1 < k - 1
        BY <1>4, <2>0
      <4> QED
        BY <1>3, <2>3, <3>3, <4>1 DEF Pairwise
    <3> QED
      BY <2>0, <3>1, <3>2, <3>3
  <2> QED
    BY <2>0, <2>1, <2>2, <2>3
<1> QED
  BY <1>1, <1>4 DEF Pairwise

\* So does erasing, and what stays is what was at the other places.
LEMMA PairwiseRemove ==
  ASSUME NEW S, NEW s \in Seq(S), NEW i \in DOMAIN s, NEW R, Pairwise(s, R)
  PROVE  /\ Pairwise(RemoveAt(s, i), R)
         /\ \A x \in Held(RemoveAt(s, i)) : \E j \in DOMAIN s \ {i} : x = s[j]
         /\ \A j \in DOMAIN s \ {i} : s[j] \in Held(RemoveAt(s, i))
<1>0. Len(s) \in Nat /\ DOMAIN s = 1 .. Len(s) /\ i \in 1 .. Len(s)
  BY LenProperties
<1>1. PICK t \in Seq(S) : t = RemoveAt(s, i) /\ Len(t) = Len(s) - 1
  BY <1>0, RemoveAtType
<1>2. DOMAIN t = 1 .. Len(s) - 1
  BY <1>1, LenProperties
<1>3. \A j \in DOMAIN t : t[j] = IF j < i THEN s[j] ELSE s[j + 1]
  BY <1>0, <1>1, <1>2, RemoveAtElements
<1>4. ASSUME NEW j \in DOMAIN t
      PROVE  /\ j < i => j \in DOMAIN s \ {i} /\ t[j] = s[j]
             /\ ~ (j < i) => j + 1 \in DOMAIN s \ {i} /\ t[j] = s[j + 1]
  BY <1>0, <1>2, <1>3
<1>5. ASSUME NEW j \in DOMAIN t, NEW k \in DOMAIN t, j < k
      PROVE  <<t[j], t[k]>> \in R
  <2>0. j \in Nat /\ k \in Nat /\ i \in Nat
    BY <1>0, <1>2
  <2>1. CASE k < i
    BY <1>4, <1>5, <2>0, <2>1 DEF Pairwise
  <2>2. CASE ~ (k < i) /\ j < i
    <3>1. j < k + 1
      BY <1>5, <2>0
    <3> QED
      BY <1>4, <2>2, <3>1 DEF Pairwise
  <2>3. CASE ~ (j < i)
    <3>1. j + 1 < k + 1 /\ ~ (k < i)
      BY <1>5, <2>0, <2>3
    <3> QED
      BY <1>4, <2>3, <3>1 DEF Pairwise
  <2> QED
    BY <2>1, <2>2, <2>3
<1>6. Pairwise(t, R)
  BY <1>5 DEF Pairwise
<1>7. ASSUME NEW x \in Held(t) PROVE \E j \in DOMAIN s \ {i} : x = s[j]
  <2>1. PICK j \in DOMAIN t : x = t[j]
    BY Zenon DEF Held
  <2> QED
    BY <1>4, <2>1
<1>8. ASSUME NEW j \in DOMAIN s \ {i} PROVE s[j] \in Held(t)
  <2>1. CASE j < i
    <3>1. j \in DOMAIN t /\ t[j] = s[j]
      BY <1>0, <1>2, <1>3, <2>1
    <3> QED
      BY <3>1, Zenon DEF Held
  <2>2. CASE ~ (j < i)
    <3>1. j - 1 \in DOMAIN t /\ ~ (j - 1 < i) /\ (j - 1) + 1 = j
      BY <1>0, <1>2, <2>2
    <3>2. t[j - 1] = s[j]
      BY <1>3, <3>1
    <3> QED
      BY <3>1, <3>2, Zenon DEF Held
  <2> QED
    BY <2>1, <2>2
<1> QED
  BY <1>1, <1>6, <1>7, <1>8

\* And so does taking the first, which stands in R with the others.
LEMMA PairwiseTail ==
  ASSUME NEW S, NEW s \in Seq(S), s # <<>>, NEW R, Pairwise(s, R)
  PROVE  /\ Pairwise(Tail(s), R)
         /\ \A x \in Held(Tail(s)) : <<Head(s), x>> \in R
<1>1. /\ Len(s) \in Nat \ {0} /\ DOMAIN s = 1 .. Len(s) /\ Head(s) = s[1]
      /\ DOMAIN Tail(s) = 1 .. Len(s) - 1
      /\ \A j \in 1 .. Len(s) - 1 : Tail(s)[j] = s[j + 1]
  BY EmptySeq, LenProperties, HeadTailProperties
<1>2. ASSUME NEW j \in DOMAIN Tail(s)
      PROVE  j \in Nat /\ 1 < j + 1 /\ 1 \in DOMAIN s /\ j + 1 \in DOMAIN s /\ Tail(s)[j] = s[j + 1]
  BY <1>1
<1>3. ASSUME NEW j \in DOMAIN Tail(s), NEW k \in DOMAIN Tail(s), j < k
      PROVE  <<Tail(s)[j], Tail(s)[k]>> \in R
  <2>1. j + 1 < k + 1
    BY <1>2, <1>3
  <2> QED
    BY <1>2, <2>1 DEF Pairwise
<1>4. ASSUME NEW j \in DOMAIN Tail(s) PROVE <<Head(s), Tail(s)[j]>> \in R
  BY <1>1, <1>2 DEF Pairwise
<1> QED
  BY <1>3, <1>4, Zenon DEF Pairwise, Held

-----------------------------------------------------------------------------
(* No context twice, and none below another. *)

\* The paths p and q part: neither is the other, or leads to it.
Fork(p, q) == \E k \in 1 .. Len(p) : k <= Len(q) /\ p[k] # q[k]
Forked == { x \in Context \X Context : Fork(x[1].path, x[2].path) }
Across(s, t) == \A p \in Paths(s), q \in Paths(t) : Fork(p, q)

\* Whatever the loop holds parts from whatever else it holds.
Spread ==
  /\ \A w \in Places : Pairwise(table[w], Forked)
  /\ Pairwise(kids, Forked) /\ Pairwise(requeued, Forked) /\ Pairwise(ready, Forked)
  /\ \A v, w \in Places : v # w => Across(table[v], table[w])
  /\ \A w \in Places :
       Across(table[w], kids) /\ Across(table[w], requeued) /\ Across(table[w], ready)
  /\ Across(kids, ready)

\* A requeue runs when nothing else is to be pushed or evaluated.
Phases ==
  /\ ~ Carrying => requeued = <<>>
  /\ pc \notin {"idle", "crashed"} => kids = <<>> /\ ready = <<>>

LEMMA ForkSymmetric ==
  ASSUME NEW p \in Seq(Nat), NEW q \in Seq(Nat), Fork(p, q)
  PROVE  Fork(q, p) /\ p # q
<1>1. Len(p) \in Nat /\ Len(q) \in Nat
  BY LenProperties
<1> QED
  BY <1>1 DEF Fork

\* A child parts from what its parent parts from.
LEMMA ForkChild ==
  ASSUME NEW p \in Seq(Nat), NEW q \in Seq(Nat), NEW i \in Nat, Fork(p, q)
  PROVE  Fork(Append(p, i), q)
<1>1. PICK k \in 1 .. Len(p) : k <= Len(q) /\ p[k] # q[k]
  BY DEF Fork
<1>2. Len(p) \in Nat /\ Len(Append(p, i)) = Len(p) + 1 /\ Append(p, i)[k] = p[k]
  BY <1>1, LenProperties, AppendProperties
<1> QED
  BY <1>1, <1>2 DEF Fork

\* The contexts of a list have paths.
LEMMA PathsType ==
  ASSUME NEW s \in Seq(Context)
  PROVE  Held(s) \subseteq Context /\ Paths(s) \subseteq Seq(Nat)
<1>1. \A i \in DOMAIN s : s[i] \in Context
  BY LenProperties, ElementOfSeq
<1>2. \A c \in Context : c.path \in Seq(Nat)
  BY DEF Context
<1> QED
  BY <1>1, <1>2 DEF Held, Paths

LEMMA AcrossSymmetric ==
  ASSUME NEW s \in Seq(Context), NEW t \in Seq(Context), Across(s, t)
  PROVE  Across(t, s)
BY PathsType, ForkSymmetric DEF Across

LEMMA ForkedMember ==
  ASSUME NEW c \in Context, NEW d \in Context
  PROVE  <<c, d>> \in Forked <=> Fork(c.path, d.path)
BY DEF Forked

\* The contexts taken out of the table for a trace part as they did.
LEMMA SeekForked ==
  ASSUME TypeOK, SeekTake, Pairwise(table[rmin'], Forked)
  PROVE  Pairwise(requeued', Forked)
<1> DEFINE s == table[rmin']
<1>1. /\ requeued' \in Seq(Context) /\ Len(requeued') = Len(s)
      /\ \A k \in 1 .. Len(requeued') : requeued'[k].path = s[k].path
  BY SeekTakes
<1>2. s \in Seq(Context)
  BY SeekTakes DEF TypeOK
<1>3. Pairwise(s, Forked)
  OBVIOUS
<1> HIDE DEF s
<1>4. DOMAIN s = 1 .. Len(s) /\ DOMAIN requeued' = 1 .. Len(s)
  BY <1>1, <1>2, LenProperties
<1>5. ASSUME NEW i \in 1 .. Len(s), NEW j \in 1 .. Len(s), i < j
      PROVE  <<requeued'[i], requeued'[j]>> \in Forked
  <2>1. s[i] \in Context /\ s[j] \in Context /\ requeued'[i] \in Context /\ requeued'[j] \in Context
    BY <1>1, <1>2, ElementOfSeq
  <2>2. <<s[i], s[j]>> \in Forked
    BY <1>3, <1>4, <1>5 DEF Pairwise
  <2>3. Fork(s[i].path, s[j].path)
    BY <2>1, <2>2, ForkedMember
  <2>4. Fork(requeued'[i].path, requeued'[j].path)
    BY <1>1, <2>3
  <2> QED
    BY <2>1, <2>4, ForkedMember
<1> QED
  BY <1>4, <1>5 DEF Pairwise

\* The paths of a list are those of its first context and of the others, which
\* part from it.
LEMMA HeadTailPaths ==
  ASSUME NEW s \in Seq(Context), s # <<>>, Pairwise(s, Forked)
  PROVE  /\ Head(s) \in Context /\ Tail(s) \in Seq(Context)
         /\ Paths(s) = {Head(s).path} \cup Paths(Tail(s))
         /\ Pairwise(Tail(s), Forked)
         /\ \A p \in Paths(Tail(s)) : Fork(Head(s).path, p)
<1>1. Head(s) \in Context /\ Tail(s) \in Seq(Context)
  BY HeadTailProperties
<1>2. Held(s) = {Head(s)} \cup Held(Tail(s))
  BY HeadTailHeld
<1>3. Paths(s) = {Head(s).path} \cup Paths(Tail(s))
  <2>1. ASSUME NEW p
        PROVE  p \in Paths(s) <=> p \in {Head(s).path} \cup Paths(Tail(s))
    BY <1>2, PathsMember
  <2> QED
    BY <2>1
<1>4. Pairwise(Tail(s), Forked) /\ \A x \in Held(Tail(s)) : <<Head(s), x>> \in Forked
  BY PairwiseTail
<1>5. ASSUME NEW p \in Paths(Tail(s)) PROVE Fork(Head(s).path, p)
  <2>1. PICK x \in Held(Tail(s)) : x.path = p
    BY PathsMember
  <2>2. x \in Context
    BY <1>1, PathsType
  <2> QED
    BY <1>1, <1>4, <2>1, <2>2, ForkedMember
<1> QED
  BY <1>1, <1>3, <1>4, <1>5

\* Pushing the first of a list that parts from the table leaves the others of the
\* list, the table and any list that parted from both apart.
LEMMA PushSpread ==
  ASSUME TypeOK, NEW s \in Seq(Context), s # <<>>, NEW c \in Context,
         c.path = Head(s).path, PushOne(c), Pairwise(s, Forked),
         \A w \in Places : Pairwise(table[w], Forked) /\ Across(table[w], s),
         \A v, w \in Places : v # w => Across(table[v], table[w])
  PROVE  /\ \A w \in Places : Pairwise(table'[w], Forked) /\ Across(table'[w], Tail(s))
         /\ \A v, w \in Places : v # w => Across(table'[v], table'[w])
         /\ Place(c) \in Places
         /\ Paths(table'[Place(c)]) = Paths(table[Place(c)]) \cup {c.path}
         /\ \A w \in Places \ {Place(c)} : table'[w] = table[w]
<1>1. /\ Head(s) \in Context /\ Tail(s) \in Seq(Context) /\ c.path \in Seq(Nat)
      /\ Paths(s) = {c.path} \cup Paths(Tail(s))
      /\ \A p \in Paths(Tail(s)) : Fork(c.path, p)
  BY HeadTailPaths DEF Context
<1>2. /\ Place(c) \in Places /\ table' \in [Places -> Seq(Context)] /\ table \in [Places -> Seq(Context)]
      /\ Held(table'[Place(c)]) = Held(table[Place(c)]) \cup {c}
      /\ \A w \in Places \ {Place(c)} : table'[w] = table[w]
  BY PushOneHeld DEF TypeOK
<1>3. ASSUME NEW w \in Places
      PROVE  Paths(table'[w]) = Paths(table[w]) \cup IF w = Place(c) THEN {c.path} ELSE {}
  <2>1. CASE w = Place(c)
    <3>1. ASSUME NEW p
          PROVE  p \in Paths(table'[w]) <=> p \in Paths(table[w]) \cup {c.path}
      BY <1>2, <2>1, PathsMember
    <3> QED
      BY <2>1, <3>1
  <2>2. CASE w # Place(c)
    BY <1>2, <2>2
  <2> QED
    BY <2>1, <2>2
<1>4. ASSUME NEW w \in Places, NEW p \in Paths(table[w])
      PROVE  p \in Seq(Nat) /\ Fork(p, c.path) /\ Fork(c.path, p)
  <2>1. table[w] \in Seq(Context)
    BY <1>2
  <2>2. p \in Seq(Nat)
    BY <2>1, PathsType
  <2>3. Fork(p, c.path)
    BY <1>1 DEF Across
  <2> QED
    BY <1>1, <2>2, <2>3, ForkSymmetric
<1>5. ASSUME NEW w \in Places PROVE Across(table'[w], Tail(s))
  BY <1>1, <1>3, <1>5 DEF Across
<1>6. ASSUME NEW v \in Places, NEW w \in Places, v # w PROVE Across(table'[v], table'[w])
  BY <1>3, <1>4, <1>6 DEF Across
<1>7. ASSUME NEW w \in Places PROVE Pairwise(table'[w], Forked)
  <2>1. CASE w # Place(c)
    BY <1>2, <2>1
  <2>2. CASE w = Place(c)
    <3>1. PICK t \in Seq(Context) : t = table[w]
      BY <1>2
    <3>2. PICK i \in 1 .. Len(t) + 1 : table' = [table EXCEPT ![w] = InsertAt(table[w], i, c)]
      BY <2>2, <3>1, PlaceType DEF PushOne
    <3>3. ASSUME NEW k \in DOMAIN t PROVE <<t[k], c>> \in Forked /\ <<c, t[k]>> \in Forked
      <4>1. t[k] \in Context /\ t[k].path \in Paths(t)
        BY LenProperties, ElementOfSeq DEF Paths
      <4> QED
        BY <1>4, <3>1, <4>1, ForkedMember
    <3>4. Pairwise(InsertAt(t, i, c), Forked)
      BY <3>1, <3>3, PairwiseInsert
    <3> QED
      BY <1>2, <3>1, <3>2, <3>4
  <2> QED
    BY <2>1, <2>2
<1> QED
  BY <1>2, <1>3, <1>5, <1>6, <1>7

\* What a pop takes parts from what it leaves.
LEMMA PopSpread ==
  ASSUME TypeOK, NEW w \in Places, table[w] # <<>>, ready = <<>>, TakeFrom(w),
         Pairwise(table[w], Forked)
  PROVE  /\ table' \in [Places -> Seq(Context)] /\ ready' \in Seq(Context)
         /\ \A v \in Places \ {w} : table'[v] = table[v]
         /\ Pairwise(table'[w], Forked) /\ Pairwise(ready', Forked) /\ Across(table'[w], ready')
         /\ Paths(ready') # {} /\ Paths(ready') \subseteq Paths(table[w])
         /\ Paths(table'[w]) = Paths(table[w]) \ Paths(ready')
<1>1. /\ table' \in [Places -> Seq(Context)] /\ ready' \in Seq(Context)
      /\ \A v \in Places \ {w} : table'[v] = table[v]
  BY TakeFromType
<1>2. PICK s \in Seq(Context) : s = table[w]
  BY DEF TypeOK
<1>3. Len(s) \in Nat \ {0} /\ DOMAIN s = 1 .. Len(s) /\ \A i \in DOMAIN s : s[i] \in Context
  BY <1>2, EmptySeq, LenProperties, ElementOfSeq
<1>4. DOMAIN table = Places
  BY DEF TypeOK
<1>5. CASE config.basic = "ALL"
  <2>1. ready' = <<>> \o s /\ table'[w] = <<>>
    BY <1>2, <1>4, <1>5 DEF TakeFrom
  <2>2. ready' = s
    BY <2>1, ConcatEmptySeq
  <2>3. Paths(<<>>) = {} /\ Pairwise(<<>>, Forked)
    BY DEF Paths, Pairwise
  <2>4. Paths(s) # {}
    <3>1. 1 \in DOMAIN s
      BY <1>3
    <3>2. s[1].path \in Paths(s)
      BY <3>1, Zenon DEF Paths
    <3> QED
      BY <3>2
  <2> QED
    BY <1>1, <1>2, <2>1, <2>2, <2>3, <2>4 DEF Across
<1>6. CASE config.basic # "ALL"
  <2>1. PICK i \in DOMAIN s :
          ready' = Append(<<>>, s[i]) /\ table'[w] = RemoveAt(s, i)
    <3>1. PICK i \in PopPlaces(table[w]) :
            /\ ready' = Append(ready, table[w][i])
            /\ table' = [table EXCEPT ![w] = RemoveAt(table[w], i)]
      BY <1>6 DEF TakeFrom
    <3>2. i \in DOMAIN s
      BY <1>2, <1>3, <1>6, <3>1 DEF PopPlaces
    <3> QED
      BY <1>2, <1>4, <3>1, <3>2
  <2>2. PICK c \in Context : c = s[i]
    BY <1>3
  <2>3. ready' = <<c>>
    BY <2>1, <2>2
  <2>4. Held(<<c>>) = {c} /\ Pairwise(<<c>>, Forked)
    BY DEF Held, Pairwise
  <2>5. Paths(ready') = {c.path} /\ Pairwise(ready', Forked)
    BY <2>3, <2>4, PathsHeld
  <2>6. PICK t \in Seq(Context) : t = table'[w]
    BY <1>1
  <2>7. /\ Pairwise(t, Forked)
        /\ \A x \in Held(t) : \E j \in DOMAIN s \ {i} : x = s[j]
        /\ \A j \in DOMAIN s \ {i} : s[j] \in Held(t)
    BY <1>2, <2>1, <2>6, PairwiseRemove
  <2>8. ASSUME NEW j \in DOMAIN s \ {i} PROVE Fork(s[j].path, c.path)
    <3>1. i < j \/ j < i
      BY <1>3
    <3>2. <<s[i], s[j]>> \in Forked \/ <<s[j], s[i]>> \in Forked
      BY <1>2, <3>1 DEF Pairwise
    <3>3. s[j].path \in Seq(Nat) /\ c.path \in Seq(Nat)
      BY <1>3 DEF Context
    <3> QED
      BY <1>3, <2>2, <3>2, <3>3, ForkedMember, ForkSymmetric
  <2>9. ASSUME NEW p \in Paths(t) PROVE p \in Paths(s) /\ Fork(p, c.path) /\ p # c.path
    <3>1. PICK j \in DOMAIN s \ {i} : p = s[j].path
      BY <2>7, PathsMember
    <3>2. p \in Seq(Nat) /\ c.path \in Seq(Nat)
      BY <1>3, <3>1 DEF Context
    <3> QED
      BY <2>8, <3>1, <3>2, ForkSymmetric DEF Paths
  <2>10. ASSUME NEW p \in Paths(s), p # c.path PROVE p \in Paths(t)
    <3>1. PICK j \in DOMAIN s : p = s[j].path
      BY DEF Paths
    <3>2. s[j] \in Held(t)
      BY <2>2, <2>7, <2>10, <3>1
    <3> QED
      BY <3>1, <3>2, PathsMember
  <2>11. c.path \in Paths(s)
    BY <2>2 DEF Paths
  <2>12. Paths(t) = Paths(s) \ {c.path} /\ Across(t, ready')
    BY <2>5, <2>9, <2>10 DEF Across
  <2> QED
    BY <1>1, <1>2, <2>5, <2>6, <2>7, <2>11, <2>12
<1> QED
  BY <1>5, <1>6

\* The children of c in the order they are pushed: their contexts, first first or
\* last first.
Child(c, f, i) == [path |-> Append(c.path, i), weight |-> f[i]]
Children(c, n, f) == [ i \in 1 .. n |-> Child(c, f, i) ]

LEMMA ChildOrderElements ==
  ASSUME NEW c \in Context, NEW n \in Nat, NEW f \in [1 .. n -> Weights],
         NEW s, s = ChildOrder(Children(c, n, f))
  PROVE  /\ s \in Seq(Context) /\ DOMAIN s = 1 .. n
         /\ config.basic \in {"DFS", "FIRST", "LAST"} =>
              \A i \in 1 .. n : s[i] = Child(c, f, n - i + 1)
         /\ config.basic \notin {"DFS", "FIRST", "LAST"} =>
              \A i \in 1 .. n : s[i] = Child(c, f, i)
         /\ \A i \in 1 .. n : Child(c, f, i) \in Context
<1>0. PICK K : K = Children(c, n, f)
  OBVIOUS
<1>1. s \in Seq(Context)
  BY KidsType DEF Children, Child
<1>2. ASSUME NEW i \in 1 .. n
      PROVE  Child(c, f, i) \in Context
  <2>1. c.path \in Seq(Nat) /\ i \in Nat
    BY DEF Context
  <2>2. Append(c.path, i) \in Seq(Nat)
    BY <2>1, AppendProperties
  <2>3. f[i] \in Weights /\ Weights \subseteq 0 .. 255
    BY ConstantTypes
  <2>4. f[i] \in 0 .. 255
    BY <2>3
  <2> QED
    BY <2>1, <2>2, <2>4 DEF Context, Child
<1>3. K \in [1 .. n -> Context] /\ \A i \in 1 .. n : K[i] = Child(c, f, i)
  BY <1>0, <1>2 DEF Children
<1>4. s = ChildOrder(K)
  BY <1>0
<1>5. K \in Seq(Context) /\ Len(K) = n
  BY <1>3, SeqDef, LenProperties
<1>6. CASE config.basic \in {"DFS", "FIRST", "LAST"}
  <2>1. s = [ i \in 1 .. n |-> K[n - i + 1] ]
    BY <1>4, <1>5, <1>6 DEF ChildOrder, Reverse
  <2>2. \A i \in 1 .. n : n - i + 1 \in 1 .. n
    OBVIOUS
  <2> QED
    BY <1>1, <1>2, <1>3, <1>6, <2>1, <2>2
<1>7. CASE config.basic \notin {"DFS", "FIRST", "LAST"}
  <2>1. s = K
    BY <1>4, <1>7 DEF ChildOrder
  <2> QED
    BY <1>1, <1>2, <1>3, <1>7, <2>1
<1> QED
  BY <1>6, <1>7

\* Two children of a context part.
LEMMA KidsSpread ==
  ASSUME NEW c \in Context, NEW n \in Nat, NEW f \in [1 .. n -> Weights]
  PROVE  /\ ChildOrder(Children(c, n, f)) \in Seq(Context)
         /\ Pairwise(ChildOrder(Children(c, n, f)), Forked)
         /\ \A p \in Paths(ChildOrder(Children(c, n, f))) : \E i \in 1 .. n : p = Append(c.path, i)
<1>0. PICK s : s = ChildOrder(Children(c, n, f))
  OBVIOUS
<1>1. /\ s \in Seq(Context) /\ DOMAIN s = 1 .. n
      /\ config.basic \in {"DFS", "FIRST", "LAST"} =>
           \A i \in 1 .. n : s[i] = Child(c, f, n - i + 1)
      /\ config.basic \notin {"DFS", "FIRST", "LAST"} =>
           \A i \in 1 .. n : s[i] = Child(c, f, i)
      /\ \A i \in 1 .. n : Child(c, f, i) \in Context
  BY <1>0, ChildOrderElements
<1>2. ASSUME NEW i \in 1 .. n, NEW j \in 1 .. n, i # j
      PROVE  <<Child(c, f, i), Child(c, f, j)>> \in Forked
  <2>1. PICK p \in Seq(Nat) : p = c.path
    BY DEF Context
  <2>2. i \in Nat /\ j \in Nat /\ Len(p) \in Nat
    BY LenProperties
  <2>3. /\ Len(Append(p, i)) = Len(p) + 1 /\ Append(p, i)[Len(p) + 1] = i
        /\ Len(Append(p, j)) = Len(p) + 1 /\ Append(p, j)[Len(p) + 1] = j
    BY <2>2, AppendProperties
  <2>4. Len(p) + 1 \in 1 .. Len(Append(p, i)) /\ Len(p) + 1 <= Len(Append(p, j))
    BY <2>2, <2>3
  <2>5. Fork(Append(p, i), Append(p, j))
    BY <1>2, <2>3, <2>4, Zenon DEF Fork
  <2> QED
    BY <1>1, <2>1, <2>5, ForkedMember DEF Child
<1>3. ASSUME NEW i \in 1 .. n, NEW j \in 1 .. n, i < j
      PROVE  <<s[i], s[j]>> \in Forked
  <2>1. n - i + 1 \in 1 .. n /\ n - j + 1 \in 1 .. n /\ n - i + 1 # n - j + 1 /\ i # j
    BY <1>3
  <2> QED
    BY <1>1, <1>2, <2>1
<1>4. ASSUME NEW p \in Paths(s) PROVE \E i \in 1 .. n : p = Append(c.path, i)
  <2>1. PICK i \in 1 .. n : p = s[i].path
    BY <1>1 DEF Paths
  <2>2. n - i + 1 \in 1 .. n
    OBVIOUS
  <2>3. \A k \in 1 .. n : Child(c, f, k).path = Append(c.path, k)
    BY DEF Child
  <2>4. PICK k \in 1 .. n : s[i] = Child(c, f, k)
    BY <1>1, <2>1, <2>2
  <2> QED
    BY <2>1, <2>3, <2>4
<1> QED
  BY <1>0, <1>1, <1>3, <1>4 DEF Pairwise

\* What is ready parts from its first context, and what the loop holds from the
\* children of that one.
LEMMA EvaluateSpread ==
  ASSUME TypeOK, Spread, Evaluate
  PROVE  /\ \E n \in Nat : \E f \in [1 .. n -> Weights] :
              kids' = ChildOrder(Children(Head(ready), n, f))
         /\ kids' \in Seq(Context) /\ Pairwise(kids', Forked)
         /\ Paths(ready) = {Head(ready).path} \cup Paths(Tail(ready))
         /\ Pairwise(Tail(ready), Forked)
         /\ \A p \in Paths(Tail(ready)) : Fork(Head(ready).path, p)
         /\ \A q \in Paths(kids') :
              /\ \A p \in Seq(Nat) : Fork(Head(ready).path, p) => Fork(q, p)
              /\ q \notin Paths(ready)
<1>1. PICK s \in Seq(Context) : s = ready
  BY DEF TypeOK
<1>2. s # <<>> /\ Pairwise(s, Forked)
  BY <1>1 DEF Evaluate, Spread
<1>3. PICK c \in Context : c = Head(ready)
  BY <1>1, <1>2, HeadTailPaths
<1>4. /\ Paths(ready) = {c.path} \cup Paths(Tail(ready))
      /\ Pairwise(Tail(ready), Forked)
      /\ \A p \in Paths(Tail(ready)) : Fork(c.path, p)
  BY <1>1, <1>2, <1>3, HeadTailPaths
<1>5. PICK n \in 0 .. MaxKids :
        \E f \in [1 .. n -> Weights] :
          kids' = ChildOrder([ i \in 1 .. n |-> [path |-> Append(Head(ready).path, i), weight |-> f[i]] ])
  BY DEF Evaluate
<1>6. n \in Nat
  BY <1>5, ConstantTypes
<1>7. PICK f \in [1 .. n -> Weights] : kids' = ChildOrder(Children(c, n, f))
  BY <1>3, <1>5 DEF Children, Child
<1>8. PICK k : k = kids'
  OBVIOUS
<1>9. /\ k \in Seq(Context) /\ Pairwise(k, Forked)
      /\ \A p \in Paths(k) : \E i \in 1 .. n : p = Append(c.path, i)
  BY <1>6, <1>7, <1>8, KidsSpread
<1>10. ASSUME NEW q \in Paths(k), NEW p \in Seq(Nat), Fork(c.path, p)
       PROVE  Fork(q, p)
  <2>1. PICK i \in 1 .. n : q = Append(c.path, i)
    BY <1>9
  <2>2. c.path \in Seq(Nat) /\ i \in Nat
    BY DEF Context
  <2> QED
    BY <1>10, <2>1, <2>2, ForkChild
<1>11. ASSUME NEW q \in Paths(k) PROVE q \notin Paths(ready)
  <2>1. q \in Seq(Nat) /\ c.path \in Seq(Nat) /\ Paths(Tail(ready)) \subseteq Seq(Nat)
    BY <1>1, <1>2, <1>9, PathsType, HeadTailPaths DEF Context
  <2>2. q # c.path
    <3>1. PICK i \in 1 .. n : q = Append(c.path, i)
      BY <1>9
    <3>2. Len(q) = Len(c.path) + 1 /\ Len(c.path) \in Nat
      BY <2>1, <3>1, AppendProperties, LenProperties
    <3> QED
      BY <3>2
  <2>3. ASSUME q \in Paths(Tail(ready)) PROVE FALSE
    <3>1. Fork(q, q)
      BY <1>4, <1>10, <2>1, <2>3
    <3> QED
      BY <2>1, <3>1, ForkSymmetric
  <2> QED
    BY <1>4, <2>2, <2>3
<1> QED
  BY <1>3, <1>4, <1>6, <1>7, <1>8, <1>9, <1>10, <1>11

\* Every step keeps the phases apart.
LEMMA NextPhases == TypeOK /\ Phases /\ [Next]_vars => Phases'
<1> SUFFICES ASSUME TypeOK, Phases, [Next]_vars PROVE Phases'
  OBVIOUS
<1>1. kids \in Seq(Context)
  BY DEF TypeOK
<1>2. CASE Push
  BY <1>2 DEF Push, Phases, Carrying, requeueVars
<1>3. CASE Pop
  BY <1>3 DEF Pop, Phases, Carrying, requeueVars
<1>4. CASE Evaluate
  <2>1. pc = "idle" /\ pc' \in {"idle", "crashed"} /\ requeued' = requeued
    BY <1>4, EvaluateEnds DEF Evaluate
  <2> QED
    BY <2>1 DEF Phases, Carrying
<1>5. CASE Requeue
  BY <1>5 DEF Requeue, Phases, Carrying
<1>6. CASE Flush
  BY <1>6 DEF Flush, Phases, Carrying
<1>7. CASE Repush
  BY <1>7 DEF Repush, Phases, Carrying
<1>8. CASE EndRepush
  BY <1>8 DEF EndRepush, Phases, Carrying
<1>9. CASE UNCHANGED vars
  BY <1>9 DEF vars, requeueVars, Phases, Carrying
<1>10. CASE SeekTake \/ Restore
  BY <1>10 DEF SeekTake, Restore, Phases, Carrying
<1>11. CASE SeekNone \/ EndRestore
  BY <1>11 DEF SeekNone, EndRestore, Phases, Carrying, requeueVars
<1> QED
  BY <1>2, <1>3, <1>4, <1>5, <1>6, <1>7, <1>8, <1>9, <1>10, <1>11 DEF Next

\* Every step keeps apart what the loop holds.
LEMMA NextSpread == TypeOK /\ Phases /\ Spread /\ [Next]_vars => Spread'
<1> SUFFICES ASSUME TypeOK, Phases, Spread, [Next]_vars PROVE Spread'
  OBVIOUS
<1>0. /\ table \in [Places -> Seq(Context)] /\ DOMAIN table = Places
      /\ kids \in Seq(Context) /\ requeued \in Seq(Context) /\ ready \in Seq(Context)
  BY DEF TypeOK
<1>1. Paths(<<>>) = {} /\ Pairwise(<<>>, Forked)
  BY DEF Paths, Pairwise
<1> DEFINE Apart(tab, k, q, r) ==
             /\ \A w \in Places : Pairwise(tab[w], Forked)
             /\ Pairwise(k, Forked) /\ Pairwise(q, Forked) /\ Pairwise(r, Forked)
             /\ \A v, w \in Places : v # w => Across(tab[v], tab[w])
             /\ \A w \in Places : Across(tab[w], k) /\ Across(tab[w], q) /\ Across(tab[w], r)
             /\ Across(k, r)
<1>2. Apart(table, kids, requeued, ready)
  BY Zenon DEF Spread
<1>3. SUFFICES config' = config /\ Apart(table', kids', requeued', ready')
  <2> SUFFICES ASSUME config' = config, Apart(table', kids', requeued', ready')
               PROVE  Spread'
    OBVIOUS
  <2>1. Places' = Places
    BY Zenon DEF Places, Count
  <2>2. Spread' <=> Apart(table', kids', requeued', ready')
    BY <2>1, Zenon DEF Spread, Across, Pairwise, Paths, Forked, Fork
  <2> QED
    BY <2>2
<1>4. CASE Push
  <2>1. /\ pc = "idle" /\ kids # <<>> /\ PushOne(Head(kids)) /\ kids' = Tail(kids)
        /\ UNCHANGED <<config, pc, ready, requeued>>
    BY <1>4 DEF Push, requeueVars
  <2>2. requeued = <<>>
    BY <2>1 DEF Phases, Carrying
  <2>3. /\ Head(kids) \in Context /\ Paths(kids) = {Head(kids).path} \cup Paths(Tail(kids))
        /\ Pairwise(Tail(kids), Forked)
    BY <1>0, <1>2, <2>1, HeadTailPaths
  <2>4. /\ \A w \in Places : Pairwise(table'[w], Forked) /\ Across(table'[w], Tail(kids))
        /\ \A v, w \in Places : v # w => Across(table'[v], table'[w])
        /\ Paths(table'[Place(Head(kids))]) = Paths(table[Place(Head(kids))]) \cup {Head(kids).path}
        /\ \A w \in Places \ {Place(Head(kids))} : table'[w] = table[w]
    BY <1>0, <1>2, <2>1, <2>3, PushSpread
  <2>5. \A w \in Places : Across(table'[w], ready)
    BY <1>2, <2>3, <2>4 DEF Across
  <2>6. Across(Tail(kids), ready) /\ \A w \in Places : Across(table'[w], <<>>)
    BY <1>1, <1>2, <2>3 DEF Across
  <2> QED
    BY <1>2, <2>1, <2>2, <2>3, <2>4, <2>5, <2>6
<1>5. CASE Pop
  <2>1. /\ pc = "idle" /\ kids = <<>> /\ ready = <<>> /\ requeued = <<>>
        /\ UNCHANGED <<config, kids, requeued>>
    BY <1>5 DEF Pop, Phases, Carrying, requeueVars
  <2>2. PICK w \in Places : table[w] # <<>> /\ TakeFrom(w)
    BY <1>5, PopsAList
  <2>3. /\ \A v \in Places \ {w} : table'[v] = table[v]
        /\ Pairwise(table'[w], Forked) /\ Pairwise(ready', Forked) /\ Across(table'[w], ready')
        /\ Paths(ready') \subseteq Paths(table[w])
        /\ Paths(table'[w]) = Paths(table[w]) \ Paths(ready')
    BY <1>2, <2>1, <2>2, PopSpread
  <2>4. \A v \in Places : Pairwise(table'[v], Forked) /\ Across(table'[v], ready') /\ Paths(table'[v]) \subseteq Paths(table[v])
    BY <1>2, <2>3 DEF Across
  <2>5. \A u, v \in Places : u # v => Across(table'[u], table'[v])
    BY <1>2, <2>4 DEF Across
  <2>6. Across(<<>>, ready') /\ \A v \in Places : Across(table'[v], <<>>)
    BY <1>1 DEF Across
  <2> QED
    BY <1>2, <2>1, <2>3, <2>4, <2>5, <2>6
<1>6. CASE Evaluate
  <2>1. /\ pc = "idle" /\ kids = <<>> /\ requeued = <<>> /\ ready' = Tail(ready)
        /\ UNCHANGED <<config, table, requeued>>
    BY <1>6 DEF Evaluate, Phases, Carrying
  <2>2. /\ kids' \in Seq(Context) /\ Pairwise(kids', Forked)
        /\ Paths(ready) = {Head(ready).path} \cup Paths(Tail(ready))
        /\ Pairwise(Tail(ready), Forked)
        /\ \A p \in Paths(Tail(ready)) : Fork(Head(ready).path, p)
        /\ \A q \in Paths(kids') :
             \A p \in Seq(Nat) : Fork(Head(ready).path, p) => Fork(q, p)
    BY <1>6, EvaluateSpread
  <2>3. Paths(ready) \subseteq Seq(Nat) /\ Paths(kids') \subseteq Seq(Nat)
    BY <1>0, <2>2, PathsType
  <2>4. Across(kids', Tail(ready))
    BY <2>2, <2>3 DEF Across
  <2>5. ASSUME NEW w \in Places PROVE Across(table[w], kids') /\ Across(table[w], Tail(ready))
    <3>1. Across(ready, table[w])
      BY <1>0, <1>2, AcrossSymmetric
    <3>2. Paths(table[w]) \subseteq Seq(Nat)
      BY <1>0, PathsType
    <3>3. ASSUME NEW p \in Paths(table[w]), NEW q \in Paths(kids') PROVE Fork(p, q)
      <4>1. Fork(Head(ready).path, p)
        BY <2>2, <3>1 DEF Across
      <4>2. Fork(q, p)
        BY <2>2, <3>2, <4>1
      <4> QED
        BY <2>3, <3>2, <4>2, ForkSymmetric
    <3> QED
      BY <1>2, <2>2, <3>3 DEF Across
  <2> QED
    BY <1>2, <2>1, <2>2, <2>4, <2>5
<1>7. CASE Requeue
  <2>1. UNCHANGED <<config, table, kids, requeued, ready>>
    BY <1>7 DEF Requeue
  <2> QED
    BY <1>2, <2>1
<1>8. CASE Flush
  <2>1. /\ requeued = <<>> /\ kids = <<>> /\ ready = <<>>
        /\ UNCHANGED <<config, kids, ready>>
    BY <1>8 DEF Flush, Phases, Carrying
  <2>2. CASE /\ rmin' \in FirstFrom(rmin)
             /\ requeued' = table[rmin'] /\ table' = [table EXCEPT ![rmin'] = <<>>]
    <3>1. PICK r \in Places : r = rmin'
      BY <2>2, CountType DEF FirstFrom, Places, TypeOK
    <3>2. \A w \in Places : table'[w] = IF w = r THEN <<>> ELSE table[w]
      BY <1>0, <2>2, <3>1
    <3>3. requeued' = table[r]
      BY <2>2, <3>1
    <3>4. \A w \in Places : Pairwise(table'[w], Forked) /\ Across(table'[w], requeued')
      BY <1>1, <1>2, <3>2, <3>3 DEF Across
    <3>5. \A v, w \in Places : v # w => Across(table'[v], table'[w])
      BY <1>1, <1>2, <3>2 DEF Across
    <3>6. Across(<<>>, <<>>) /\ \A v \in Places : Across(table'[v], <<>>)
      BY <1>1 DEF Across
    <3> QED
      BY <1>1, <1>2, <2>1, <3>3, <3>4, <3>5, <3>6
  <2>3. CASE requeued' = <<>> /\ UNCHANGED table
    BY <1>2, <2>1, <2>3
  <2> QED
    BY <1>8, <2>2, <2>3, Zenon DEF Flush
<1>9. CASE Repush
  <2>1. /\ kids = <<>> /\ ready = <<>> /\ requeued # <<>> /\ requeued' = Tail(requeued)
        /\ UNCHANGED <<config, kids, ready>>
    BY <1>9 DEF Repush, Phases, Carrying
  <2>2. PICK v \in NewWeights : PushOne([Head(requeued) EXCEPT !.weight = v])
    BY <1>9 DEF Repush
  <2>3. v \in 0 .. 255 /\ Head(requeued) \in Context /\ Pairwise(Tail(requeued), Forked)
    BY <1>0, <1>2, <2>1, <2>2, ConstantTypes, HeadTailPaths
  <2>4. PICK c \in Context : PushOne(c) /\ c.path = Head(requeued).path
    <3>1. PICK c : c = [Head(requeued) EXCEPT !.weight = v]
      OBVIOUS
    <3>2. c \in Context /\ c.path = Head(requeued).path
      BY <2>3, <3>1 DEF Context
    <3> QED
      BY <2>2, <3>1, <3>2, Zenon
  <2>5. /\ \A w \in Places : Pairwise(table'[w], Forked) /\ Across(table'[w], Tail(requeued))
        /\ \A x, w \in Places : x # w => Across(table'[x], table'[w])
    BY <1>0, <1>2, <2>1, <2>4, PushSpread
  <2>6. Across(<<>>, <<>>) /\ \A x \in Places : Across(table'[x], <<>>)
    BY <1>1 DEF Across
  <2> QED
    BY <1>2, <2>1, <2>3, <2>5, <2>6
<1>12. CASE SeekTake
  <2>1. /\ requeued = <<>> /\ kids = <<>> /\ ready = <<>>
        /\ UNCHANGED <<config, kids, ready>>
    BY <1>12 DEF SeekTake, Phases, Carrying
  <2>2. PICK r \in Places : r = rmin'
    BY <1>12, SeekTakes
  <2>3. \A w \in Places : table'[w] = IF w = r THEN <<>> ELSE table[w]
    BY <1>0, <1>12, <2>2 DEF SeekTake
  <2>4. Paths(requeued') = Paths(table[r]) /\ Pairwise(requeued', Forked)
    BY <1>2, <1>12, <2>2, SeekTakes, SeekForked
  <2>5. \A w \in Places : Pairwise(table'[w], Forked) /\ Across(table'[w], requeued')
    BY <1>1, <1>2, <2>3, <2>4 DEF Across
  <2>6. \A v, w \in Places : v # w => Across(table'[v], table'[w])
    BY <1>1, <1>2, <2>3 DEF Across
  <2>7. Across(<<>>, <<>>) /\ \A v \in Places : Across(table'[v], <<>>)
    BY <1>1 DEF Across
  <2> QED
    BY <1>1, <1>2, <2>1, <2>4, <2>5, <2>6, <2>7
<1>13. CASE Restore
  <2>1. /\ kids = <<>> /\ ready = <<>> /\ requeued # <<>> /\ requeued' = Tail(requeued)
        /\ PushOne(Head(requeued)) /\ UNCHANGED <<config, kids, ready>>
    BY <1>13 DEF Restore, Phases, Carrying
  <2>2. Head(requeued) \in Context /\ Pairwise(Tail(requeued), Forked)
    BY <1>0, <1>2, <2>1, HeadTailPaths
  <2>3. /\ \A w \in Places : Pairwise(table'[w], Forked) /\ Across(table'[w], Tail(requeued))
        /\ \A x, w \in Places : x # w => Across(table'[x], table'[w])
    BY <1>0, <1>2, <2>1, <2>2, PushSpread
  <2>4. Across(<<>>, <<>>) /\ \A x \in Places : Across(table'[x], <<>>)
    BY <1>1 DEF Across
  <2> QED
    BY <1>2, <2>1, <2>2, <2>3, <2>4
<1>10. CASE EndRepush \/ SeekNone \/ EndRestore
  <2>1. UNCHANGED <<config, table, kids, requeued, ready>>
    BY <1>10 DEF EndRepush, SeekNone, EndRestore, requeueVars
  <2> QED
    BY <1>2, <2>1
<1>11. CASE UNCHANGED vars
  <2>1. UNCHANGED <<config, table, kids, requeued, ready>>
    BY <1>11 DEF vars, requeueVars
  <2> QED
    BY <1>2, <2>1
<1> QED
  BY <1>4, <1>5, <1>6, <1>7, <1>8, <1>9, <1>10, <1>11, <1>12, <1>13 DEF Next

-----------------------------------------------------------------------------
(* The strategies implement the pool. *)

Pooled == (UNION { Paths(table[w]) : w \in Places }) \cup Paths(kids) \cup Paths(requeued)

LEMMA PooledMember ==
  ASSUME NEW p
  PROVE  p \in Pooled <=> (\E w \in Places : p \in Paths(table[w])) \/ p \in Paths(kids) \/ p \in Paths(requeued)
BY Zenon DEF Pooled

LEMMA PooledMemberNext ==
  ASSUME config' = config, NEW p
  PROVE  p \in Pooled' <=> (\E w \in Places : p \in Paths(table'[w])) \/ p \in Paths(kids') \/ p \in Paths(requeued')
<1>1. Places' = Places
  BY Zenon DEF Places, Count
<1>2. Pooled' = (UNION { Paths(table'[w]) : w \in Places }) \cup Paths(kids') \cup Paths(requeued')
  BY <1>1, Zenon DEF Pooled, Paths
<1> QED
  BY <1>2, Zenon

\* A step that changes neither list seen by the pool stutters.
LEMMA PoolStutter ==
  ASSUME Pooled' = Pooled, Paths(ready)' = Paths(ready)
  PROVE  [Pool!Next]_(Pool!vars)
BY DEF Pool!vars, Pooled

\* Moving the first of a list to the table changes nothing of the pool.
LEMMA PushPool ==
  ASSUME TypeOK, Phases, Spread, Push \/ Repush \/ Restore
  PROVE  Pooled' = Pooled /\ ready' = ready
<1>0. kids \in Seq(Context) /\ requeued \in Seq(Context) /\ DOMAIN table = Places
  BY DEF TypeOK
<1> DEFINE Moves(s, c) == /\ s # <<>> /\ c \in Context /\ c.path = Head(s).path /\ PushOne(c)
                          /\ Paths(s) = {c.path} \cup Paths(Tail(s))
                          /\ Place(c) \in Places
                          /\ Paths(table'[Place(c)]) = Paths(table[Place(c)]) \cup {c.path}
                          /\ \A w \in Places \ {Place(c)} : table'[w] = table[w]
<1>1. ASSUME NEW s \in Seq(Context), s # <<>>, Pairwise(s, Forked), NEW c \in Context,
             c.path = Head(s).path, PushOne(c), \A w \in Places : Across(table[w], s)
      PROVE  Moves(s, c)
  <2>1. /\ \A w \in Places : Pairwise(table[w], Forked) /\ Across(table[w], s)
        /\ \A v, w \in Places : v # w => Across(table[v], table[w])
    BY <1>1 DEF Spread
  <2>2. Paths(s) = {c.path} \cup Paths(Tail(s))
    BY <1>1, HeadTailPaths
  <2>3. /\ Place(c) \in Places
        /\ Paths(table'[Place(c)]) = Paths(table[Place(c)]) \cup {c.path}
        /\ \A w \in Places \ {Place(c)} : table'[w] = table[w]
    BY <1>1, <2>1, PushSpread
  <2> QED
    BY <1>1, <2>2, <2>3
<1>2. CASE Push
  <2>1. /\ kids # <<>> /\ PushOne(Head(kids)) /\ kids' = Tail(kids)
        /\ UNCHANGED <<config, ready, requeued>>
    BY <1>2 DEF Push, requeueVars
  <2>2. PICK c \in Context : c = Head(kids)
    BY <1>0, <2>1, HeadTailProperties
  <2>3. Moves(kids, c)
    BY <1>0, <1>1, <2>1, <2>2 DEF Spread
  <2>4. ASSUME NEW p
        PROVE  p \in Pooled' <=> p \in Pooled
    BY <2>1, <2>3, PooledMember, PooledMemberNext
  <2> QED
    BY <2>1, <2>4
<1>3. CASE Repush
  <2>1. /\ requeued # <<>> /\ requeued' = Tail(requeued)
        /\ UNCHANGED <<config, ready, kids>>
    BY <1>3 DEF Repush
  <2>2. PICK v \in NewWeights : PushOne([Head(requeued) EXCEPT !.weight = v])
    BY <1>3 DEF Repush
  <2>3. v \in 0 .. 255 /\ Head(requeued) \in Context
    BY <1>0, <2>1, <2>2, ConstantTypes, HeadTailProperties
  <2>4. PICK c \in Context : PushOne(c) /\ c.path = Head(requeued).path
    <3>1. PICK c : c = [Head(requeued) EXCEPT !.weight = v]
      OBVIOUS
    <3>2. c \in Context /\ c.path = Head(requeued).path
      BY <2>3, <3>1 DEF Context
    <3> QED
      BY <2>2, <3>1, <3>2, Zenon
  <2>5. Moves(requeued, c)
    BY <1>0, <1>1, <2>1, <2>4 DEF Spread
  <2>6. ASSUME NEW p
        PROVE  p \in Pooled' <=> p \in Pooled
    BY <2>1, <2>5, PooledMember, PooledMemberNext
  <2> QED
    BY <2>1, <2>6
<1>4. CASE Restore
  <2>1. /\ requeued # <<>> /\ requeued' = Tail(requeued) /\ PushOne(Head(requeued))
        /\ UNCHANGED <<config, ready, kids>>
    BY <1>4 DEF Restore
  <2>2. PICK c \in Context : c = Head(requeued)
    BY <1>0, <2>1, HeadTailProperties
  <2>3. Moves(requeued, c)
    BY <1>0, <1>1, <2>1, <2>2 DEF Spread
  <2>4. ASSUME NEW p
        PROVE  p \in Pooled' <=> p \in Pooled
    BY <2>1, <2>3, PooledMember, PooledMemberNext
  <2> QED
    BY <2>1, <2>4
<1> QED
  BY <1>2, <1>3, <1>4

\* A pop is the pop of the pool.
LEMMA PopPool ==
  ASSUME TypeOK, Phases, Spread, Pop
  PROVE  Pool!Pop
<1>1. /\ kids = <<>> /\ ready = <<>> /\ requeued = <<>>
      /\ config' = config /\ kids' = <<>> /\ requeued' = <<>>
  BY DEF Pop, Phases, Carrying, requeueVars
<1>2. PICK w \in Places : table[w] # <<>> /\ TakeFrom(w)
  BY PopsAList
<1>3. /\ \A v \in Places \ {w} : table'[v] = table[v]
      /\ Paths(ready') # {} /\ Paths(ready') \subseteq Paths(table[w])
      /\ Paths(table'[w]) = Paths(table[w]) \ Paths(ready')
  BY <1>1, <1>2, PopSpread DEF Spread
<1>4. Paths(<<>>) = {}
  BY DEF Paths
<1>5. ASSUME NEW v \in Places \ {w}, NEW p \in Paths(table[v]) PROVE p \notin Paths(ready')
  <2>1. Across(table[v], table[w]) /\ table[v] \in Seq(Context) /\ table[w] \in Seq(Context)
    BY DEF Spread, TypeOK
  <2>2. ASSUME p \in Paths(ready') PROVE FALSE
    <3>1. Fork(p, p) /\ p \in Seq(Nat)
      BY <1>3, <2>1, <2>2, PathsType DEF Across
    <3> QED
      BY <3>1, ForkSymmetric
  <2> QED
    BY <2>2
<1>6. ASSUME NEW p
      PROVE  p \in Pooled' <=> p \in Pooled /\ p \notin Paths(ready')
  BY <1>1, <1>3, <1>4, <1>5, PooledMember, PooledMemberNext
<1>7. Pooled' = Pooled \ Paths(ready')
  BY <1>6
<1>8. Paths(ready') \subseteq Pooled
  BY <1>3, PooledMember
<1>9. Paths(ready) = {} /\ Paths(ready)' = Paths(ready')
  BY <1>1, <1>4 DEF Paths
<1> QED
  BY <1>3, <1>7, <1>8, <1>9 DEF Pool!Pop, Pooled

\* An evaluation is the evaluation of a ready context.
LEMMA EvaluatePool ==
  ASSUME TypeOK, Phases, Spread, Evaluate
  PROVE  Pool!Evaluate
<1>1. /\ pc = "idle" /\ kids = <<>> /\ ready # <<>> /\ requeued = <<>> /\ ready' = Tail(ready)
      /\ UNCHANGED <<config, table, requeued>>
  BY DEF Evaluate, Phases, Carrying
<1>2. /\ Paths(ready) = {Head(ready).path} \cup Paths(Tail(ready))
      /\ \A p \in Paths(Tail(ready)) : Fork(Head(ready).path, p)
      /\ \A q \in Paths(kids') : q \notin Paths(ready)
  BY EvaluateSpread
<1>3. Paths(<<>>) = {}
  BY DEF Paths
<1>4. ready \in Seq(Context) /\ Paths(ready) \subseteq Seq(Nat)
  BY PathsType DEF TypeOK
<1>5. Head(ready).path \notin Paths(Tail(ready))
  BY <1>2, <1>4, ForkSymmetric
<1>6. Paths(Tail(ready)) = Paths(ready) \ {Head(ready).path} /\ Head(ready).path \in Paths(ready)
  BY <1>2, <1>5
<1>7. ASSUME NEW p
      PROVE  p \in Pooled' <=> p \in Pooled \/ p \in Paths(kids')
  BY <1>1, <1>3, PooledMember, PooledMemberNext
<1>8. ASSUME NEW p \in Pooled' PROVE p \notin Paths(ready)
  <2>1. CASE p \in Paths(kids')
    BY <1>2, <2>1
  <2>2. CASE p \in Pooled
    <3>1. PICK w \in Places : p \in Paths(table[w])
      BY <1>1, <1>3, <2>2, PooledMember
    <3>2. Across(table[w], ready)
      BY DEF Spread
    <3> QED
      BY <1>4, <3>1, <3>2, ForkSymmetric DEF Across
  <2> QED
    BY <1>7, <2>1, <2>2
<1>9. Paths(ready)' = Paths(Tail(ready))
  BY <1>1 DEF Paths
<1>10. Pooled \subseteq Pooled' /\ Pooled' \cap Paths(ready) = {}
  BY <1>7, <1>8
<1> QED
  BY <1>6, <1>9, <1>10 DEF Pool!Evaluate, Pooled

\* Every step is a step of the pool, or changes nothing of it.
LEMMA NextPool == TypeOK /\ Phases /\ Spread /\ [Next]_vars => [Pool!Next]_(Pool!vars)
<1> SUFFICES ASSUME TypeOK, Phases, Spread, [Next]_vars PROVE [Pool!Next]_(Pool!vars)
  OBVIOUS
<1>0. DOMAIN table = Places
  BY DEF TypeOK
<1>1. CASE Push \/ Repush \/ Restore
  <2>1. Paths(ready)' = Paths(ready)
    BY <1>1, PushPool DEF Paths
  <2> QED
    BY <1>1, <2>1, PushPool, PoolStutter
<1>2. CASE Pop
  BY <1>2, PopPool DEF Pool!Next
<1>3. CASE Evaluate
  BY <1>3, EvaluatePool DEF Pool!Next
<1>4. CASE Flush
  <2>1. requeued = <<>> /\ UNCHANGED <<config, kids, ready>>
    BY <1>4 DEF Flush, Phases, Carrying
  <2>2. Paths(<<>>) = {}
    BY DEF Paths
  <2>3. ASSUME NEW p PROVE p \in Pooled' <=> p \in Pooled
    <3>1. CASE /\ rmin' \in FirstFrom(rmin)
               /\ requeued' = table[rmin'] /\ table' = [table EXCEPT ![rmin'] = <<>>]
      <4>1. PICK r \in Places : r = rmin'
        BY <3>1, CountType DEF FirstFrom, Places, TypeOK
      <4>2. \A w \in Places : table'[w] = IF w = r THEN <<>> ELSE table[w]
        BY <1>0, <3>1, <4>1
      <4>3. requeued' = table[r]
        BY <3>1, <4>1
      <4> QED
        BY <2>1, <2>2, <4>2, <4>3, PooledMember, PooledMemberNext
    <3>2. CASE requeued' = <<>> /\ UNCHANGED table
      BY <2>1, <3>2, PooledMember, PooledMemberNext
    <3> QED
      BY <1>4, <3>1, <3>2, Zenon DEF Flush
  <2>4. Paths(ready)' = Paths(ready)
    BY <2>1 DEF Paths
  <2> QED
    BY <2>3, <2>4, PoolStutter
<1>6. CASE SeekTake
  <2>1. requeued = <<>> /\ UNCHANGED <<config, kids, ready>>
    BY <1>6 DEF SeekTake, Phases, Carrying
  <2>2. PICK r \in Places : r = rmin' /\ Paths(requeued') = Paths(table[rmin'])
    BY <1>6, SeekTakes
  <2>3. \A w \in Places : table'[w] = IF w = r THEN <<>> ELSE table[w]
    BY <1>0, <1>6, <2>2 DEF SeekTake
  <2>4. Paths(<<>>) = {}
    BY DEF Paths
  <2>5. ASSUME NEW p PROVE p \in Pooled' <=> p \in Pooled
    BY <2>1, <2>2, <2>3, <2>4, PooledMember, PooledMemberNext
  <2>6. Paths(ready)' = Paths(ready)
    BY <2>1 DEF Paths
  <2> QED
    BY <2>5, <2>6, PoolStutter
<1>5. CASE Requeue \/ EndRepush \/ SeekNone \/ EndRestore \/ UNCHANGED vars
  <2>1. UNCHANGED <<config, table, kids, requeued, ready>>
    BY <1>5 DEF Requeue, EndRepush, SeekNone, EndRestore, vars, requeueVars
  <2>2. ASSUME NEW p PROVE p \in Pooled' <=> p \in Pooled
    BY <2>1, PooledMember, PooledMemberNext
  <2>3. Paths(ready)' = Paths(ready)
    BY <2>1 DEF Paths
  <2> QED
    BY <2>2, <2>3, PoolStutter
<1> QED
  BY <1>1, <1>2, <1>3, <1>4, <1>5, <1>6 DEF Next

\* At first only the root waits to be pushed.
LEMMA InitSpread == Init => Phases /\ Spread /\ Pool!Init
<1> SUFFICES ASSUME Init PROVE Phases /\ Spread /\ Pool!Init
  OBVIOUS
<1>1. PICK c : c = [path |-> <<>>, weight |-> 0]
  OBVIOUS
<1>2. /\ kids = <<c>> /\ ready = <<>> /\ requeued = <<>> /\ pc = "idle"
      /\ \A w \in Places : table[w] = <<>>
  BY <1>1 DEF Init
<1>3. Paths(<<>>) = {} /\ Pairwise(<<>>, Forked) /\ Pairwise(<<c>>, Forked)
  BY DEF Paths, Pairwise
<1>4. Phases
  BY <1>2 DEF Phases, Carrying
<1>5. Spread
  BY <1>2, <1>3 DEF Spread, Across
<1>6. c \in Held(kids)
  BY <1>2 DEF Held
<1>7. c.path \in Pooled
  BY <1>6, PathsMember, PooledMember
<1> QED
  BY <1>2, <1>3, <1>4, <1>5, <1>7 DEF Pool!Init, Pooled

\* Every strategy, with any number of lists and requeues at any time, is a pool:
\* a pop is called when nothing is ready and takes some of the contexts that wait,
\* no push, pop or requeue, with the search for a trace that ends it, loses a context
\* or holds one twice, and a context that was evaluated is not there again. With
\* fewer than UNKNOWN_ACHIEVABLE lists that is so until a requeue reads past the table
\* (NoReadPastTable: never with more). That a pop returns is left to the runs.
THEOREM TableIsPool == Spec => Pool!Init /\ [][Pool!Next]_(Pool!vars)
<1>1. Init => TypeOK /\ Phases /\ Spread /\ Pool!Init
  BY InitType, InitSpread
<1>2. TypeOK /\ Phases /\ Spread /\ [Next]_vars => TypeOK' /\ Phases' /\ Spread'
  BY NextType, NextPhases, NextSpread
<1>3. TypeOK /\ Phases /\ Spread /\ [Next]_vars => [Pool!Next]_(Pool!vars)
  BY NextPool
<1> QED
  BY <1>1, <1>2, <1>3, PTL DEF Spec

-----------------------------------------------------------------------------
(* The order of each strategy. *)

\* Path p leaves path q to the left: it is before q in a depth first search, and
\* does not lead to q.
LeftOf(p, q) ==
  \E k \in 1 .. Len(p) :
    k <= Len(q) /\ p[k] < q[k] /\ \A j \in 1 .. k - 1 : p[j] = q[j]

Pairs == Context \X Context
Lexical == { x \in Pairs : LeftOf(x[1].path, x[2].path) }
Reversed == { x \in Pairs : LeftOf(x[2].path, x[1].path) }
Lighter == { x \in Pairs : x[1].weight <= x[2].weight }

\* one level from left to right, then the next one as far as it is known
Level ==
  { x \in Pairs :
      \/ /\ Len(x[1].path) = Len(x[2].path)
         /\ LeftOf(x[1].path, x[2].path)
      \/ /\ Len(x[2].path) = Len(x[1].path) + 1
         /\ LeftOf(x[2].path, x[1].path) }

DepthFirst == config.basic \in {"DFS", "FIRST", "LAST"}

\* how contexts are popped, how children are pushed, how a list lies
PopOrder ==
  CASE config.basic = "BFS"   -> Level
    [] DepthFirst             -> Lexical
    [] config.basic = "ORDER" -> Lighter
    [] OTHER                  -> Pairs
KidsOrder ==
  CASE config.basic = "BFS" -> Level
    [] DepthFirst           -> Reversed
    [] OTHER                -> Pairs
TableOrder == IF config.basic \in {"DFS", "LAST"} THEN Reversed ELSE PopOrder

\* Each list holds the contexts of its weight.
Placed == \A w \in Places : \A c \in Held(table[w]) : Place(c) = w

\* A basic strategy has its list in order, and what is ready or still to push
\* fits that order.
Ordered ==
  ~ config.weighted =>
    /\ ~ posted /\ pc = "idle"
    /\ Pairwise(table[1], TableOrder) /\ Pairwise(kids, KidsOrder)
    /\ \A t \in Held(table[1]), k \in Held(kids) : <<t, k>> \in KidsOrder
    /\ \A r \in Held(ready), t \in Held(table[1]) : <<r, t>> \in PopOrder
    /\ config.basic # "ALL" => Len(ready) <= 1 /\ (ready = <<>> \/ kids = <<>>)

\* The orders of the strategies.
LEMMA Orders ==
  /\ config.basic = "BFS" => PopOrder = Level /\ KidsOrder = Level /\ TableOrder = Level
  /\ config.basic = "FIRST" => PopOrder = Lexical /\ KidsOrder = Reversed /\ TableOrder = Lexical
  /\ config.basic \in {"DFS", "LAST"} => PopOrder = Lexical /\ KidsOrder = Reversed /\ TableOrder = Reversed
  /\ config.basic = "ORDER" => PopOrder = Lighter /\ KidsOrder = Pairs /\ TableOrder = Lighter
  /\ config.basic \notin {"BFS", "FIRST", "DFS", "LAST", "ORDER"} =>
       PopOrder = Pairs /\ KidsOrder = Pairs /\ TableOrder = Pairs
BY DEF PopOrder, KidsOrder, TableOrder, DepthFirst

LEMMA PairMember ==
  ASSUME NEW a \in Context, NEW b \in Context
  PROVE  /\ <<a, b>> \in Pairs
         /\ <<a, b>> \in Lexical <=> LeftOf(a.path, b.path)
         /\ <<a, b>> \in Reversed <=> LeftOf(b.path, a.path)
         /\ <<a, b>> \in Lighter <=> a.weight <= b.weight
         /\ <<a, b>> \in Level <=>
              \/ Len(a.path) = Len(b.path) /\ LeftOf(a.path, b.path)
              \/ Len(b.path) = Len(a.path) + 1 /\ LeftOf(b.path, a.path)
BY DEF Pairs, Lexical, Reversed, Lighter, Level

\* What is left or right of a path is so of the children.
LEMMA LeftOfChild ==
  ASSUME NEW p \in Seq(Nat), NEW q \in Seq(Nat), NEW i \in Nat
  PROVE  /\ LeftOf(p, q) => LeftOf(Append(p, i), q)
         /\ LeftOf(q, p) => LeftOf(q, Append(p, i))
<1>1. /\ Len(p) \in Nat /\ Len(q) \in Nat /\ Len(Append(p, i)) = Len(p) + 1
      /\ \A k \in 1 .. Len(p) : Append(p, i)[k] = p[k]
  BY LenProperties, AppendProperties
<1>2. ASSUME LeftOf(p, q) PROVE LeftOf(Append(p, i), q)
  <2>1. PICK k \in 1 .. Len(p) : k <= Len(q) /\ p[k] < q[k] /\ \A j \in 1 .. k - 1 : p[j] = q[j]
    BY <1>2 DEF LeftOf
  <2>2. k \in 1 .. Len(Append(p, i)) /\ \A j \in 1 .. k - 1 : j \in 1 .. Len(p)
    BY <1>1
  <2>3. Append(p, i)[k] < q[k] /\ \A j \in 1 .. k - 1 : Append(p, i)[j] = q[j]
    BY <1>1, <2>1, <2>2
  <2> QED
    BY <2>1, <2>2, <2>3, Zenon DEF LeftOf
<1>3. ASSUME LeftOf(q, p) PROVE LeftOf(q, Append(p, i))
  <2>1. PICK k \in 1 .. Len(q) : k <= Len(p) /\ q[k] < p[k] /\ \A j \in 1 .. k - 1 : q[j] = p[j]
    BY <1>3 DEF LeftOf
  <2>2. k <= Len(Append(p, i)) /\ k \in 1 .. Len(p) /\ \A j \in 1 .. k - 1 : j \in 1 .. Len(p)
    BY <1>1, <2>1
  <2>3. q[k] < Append(p, i)[k] /\ \A j \in 1 .. k - 1 : q[j] = Append(p, i)[j]
    BY <1>1, <2>1, <2>2
  <2> QED
    BY <2>1, <2>2, <2>3, Zenon DEF LeftOf
<1> QED
  BY <1>2, <1>3

\* The children of a path are from left to right.
LEMMA LeftOfSibling ==
  ASSUME NEW p \in Seq(Nat), NEW i \in Nat, NEW j \in Nat, i < j
  PROVE  LeftOf(Append(p, i), Append(p, j))
<1>1. /\ Len(p) \in Nat
      /\ Len(Append(p, i)) = Len(p) + 1 /\ Append(p, i)[Len(p) + 1] = i
      /\ Len(Append(p, j)) = Len(p) + 1 /\ Append(p, j)[Len(p) + 1] = j
      /\ \A k \in 1 .. Len(p) : Append(p, i)[k] = p[k] /\ Append(p, j)[k] = p[k]
  BY LenProperties, AppendProperties
<1>2. PICK n : n = Len(p) + 1
  OBVIOUS
<1>3. n \in 1 .. Len(Append(p, i)) /\ n <= Len(Append(p, j)) /\ Append(p, i)[n] < Append(p, j)[n]
  BY <1>1, <1>2
<1>4. \A k \in 1 .. n - 1 : Append(p, i)[k] = Append(p, j)[k]
  BY <1>1, <1>2
<1> QED
  BY <1>3, <1>4, Zenon DEF LeftOf

\* To the left is before in a depth first search.
LEMMA LeftOfPreorder ==
  ASSUME NEW p \in Seq(Nat), NEW q \in Seq(Nat), LeftOf(p, q)
  PROVE  Preorder(p, q)
<1>1. Len(p) \in Nat /\ Len(q) \in Nat
  BY LenProperties
<1>2. PICK k \in 1 .. Len(p) : k <= Len(q) /\ p[k] < q[k] /\ \A j \in 1 .. k - 1 : p[j] = q[j]
  BY DEF LeftOf
<1>3. k \in 1 .. Len(q) /\ \A j \in 1 .. k - 1 : j <= Len(p)
  BY <1>1, <1>2
<1> QED
  BY <1>2, <1>3, Zenon DEF Preorder

\* A context popped in the order of the strategy comes before.
LEMMA PopOrderBefore ==
  ASSUME ~ config.weighted, NEW a \in Context, NEW b \in Context, <<a, b>> \in PopOrder
  PROVE  Before(a, b)
<1>1. a.path \in Seq(Nat) /\ b.path \in Seq(Nat)
  BY DEF Context
<1>2. Len(a.path) \in Nat /\ Len(b.path) \in Nat
  BY <1>1, LenProperties
<1>3. CASE config.basic = "BFS"
  <2>1. \/ Len(a.path) = Len(b.path) /\ Preorder(a.path, b.path)
        \/ Len(a.path) < Len(b.path)
    BY <1>1, <1>2, <1>3, Orders, PairMember, LeftOfPreorder
  <2> QED
    BY <1>3, <2>1 DEF Before
<1>4. CASE config.basic \in {"DFS", "FIRST", "LAST"}
  <2>1. Preorder(a.path, b.path)
    BY <1>1, <1>4, Orders, PairMember, LeftOfPreorder
  <2> QED
    BY <1>4, <2>1 DEF Before
<1>5. CASE config.basic = "ORDER"
  <2>1. a.weight <= b.weight
    BY <1>5, Orders, PairMember
  <2> QED
    BY <1>5, <2>1 DEF Before
<1>6. CASE config.basic \notin {"BFS", "DFS", "FIRST", "LAST", "ORDER"}
  BY <1>6 DEF Before
<1> QED
  BY <1>3, <1>4, <1>5, <1>6

\* The one list of a basic strategy.
LEMMA OneList ==
  ASSUME TypeOK, ~ config.weighted
  PROVE  /\ Places = {0, 1} /\ table[0] \in Seq(Context) /\ table[1] \in Seq(Context)
         /\ \A c : Place(c) = 1
<1>1. Count = 1
  BY ConstantTypes, Zenon DEF TypeOK, Count
<1>2. Places = {0, 1}
  BY <1>1 DEF Places
<1>3. \A c : Place(c) = 1
  BY Zenon DEF Place
<1> QED
  BY <1>2, <1>3 DEF TypeOK

\* A push puts a context where the order of the list wants it.
LEMMA PushOrdered ==
  ASSUME TypeOK, ~ config.weighted, NEW c \in Context, PushOne(c),
         Pairwise(table[1], TableOrder), \A t \in Held(table[1]) : <<t, c>> \in KidsOrder
  PROVE  /\ Pairwise(table'[1], TableOrder)
         /\ Held(table'[1]) = Held(table[1]) \cup {c}
<1>1. Place(c) = 1 /\ 1 \in Places /\ DOMAIN table = Places
  BY OneList DEF TypeOK
<1>2. PICK s \in Seq(Context) : s = table[1]
  BY OneList
<1>3. PICK i \in PushPlaces(s, c) : table' = [table EXCEPT ![1] = InsertAt(table[1], i, c)]
  BY <1>1, <1>2 DEF PushOne
<1>4. table'[1] = InsertAt(s, i, c)
  BY <1>1, <1>2, <1>3
<1>5. /\ Len(s) \in Nat /\ DOMAIN s = 1 .. Len(s)
      /\ \A k \in DOMAIN s : s[k] \in Context /\ s[k] \in Held(s)
  BY LenProperties, ElementOfSeq DEF Held
<1>6. i \in 1 .. Len(s) + 1
  BY <1>3, Zenon DEF PushPlaces
<1>7. ASSUME NEW k \in DOMAIN s
      PROVE  (k < i => <<s[k], c>> \in TableOrder) /\ (~ (k < i) => <<c, s[k]>> \in TableOrder)
  <2>1. CASE config.basic \in {"BFS", "DFS", "LAST"}
    <3>1. i = Len(s) + 1 /\ KidsOrder = TableOrder
      BY <1>3, <2>1, Orders DEF PushPlaces
    <3>2. k < i
      BY <1>5, <3>1
    <3> QED
      BY <1>2, <1>5, <3>1, <3>2
  <2>2. CASE config.basic = "FIRST"
    <3>1. i = 1 /\ KidsOrder = Reversed /\ TableOrder = Lexical
      BY <1>3, <2>2, Orders DEF PushPlaces
    <3>2. ~ (k < i)
      BY <1>5, <3>1
    <3> QED
      BY <1>2, <1>5, <3>1, <3>2, PairMember
  <2>3. CASE config.basic = "ORDER"
    <3>1. TableOrder = Lighter /\ IsOrderPlace(s, c, i)
      BY <1>3, <2>3, Orders DEF PushPlaces
    <3>2. c.weight \in Nat /\ \A j \in DOMAIN s : s[j].weight \in Nat
      <4>1. \A d \in Context : d.weight \in 0 .. 255
        BY Zenon DEF Context
      <4>2. \A n \in 0 .. 255 : n \in Nat
        OBVIOUS
      <4> QED
        BY <1>5, <4>1, <4>2, Zenon
    <3>3. CASE k < i
      <4>1. k \in 1 .. i - 1
        BY <1>5, <1>6, <3>3
      <4>2. s[k].weight <= c.weight
        BY <3>1, <3>2, <4>1 DEF IsOrderPlace
      <4> QED
        BY <1>5, <3>1, <3>3, <4>2, PairMember
    <3>4. CASE ~ (k < i)
      <4>1. i \in DOMAIN s /\ i <= Len(s) /\ (i < k \/ i = k)
        BY <1>5, <1>6, <3>4
      <4>2. c.weight <= s[i].weight
        BY <3>1, <3>2, <4>1 DEF IsOrderPlace
      <4>3. i < k => s[i].weight <= s[k].weight
        BY <1>2, <1>5, <3>1, <4>1, PairMember DEF Pairwise
      <4>4. c.weight <= s[k].weight
        BY <3>2, <4>1, <4>2, <4>3
      <4> QED
        BY <1>5, <3>1, <3>4, <4>4, PairMember
    <3> QED
      BY <3>3, <3>4
  <2>4. CASE config.basic \notin {"BFS", "FIRST", "DFS", "LAST", "ORDER"}
    BY <1>5, <2>4, Orders, PairMember
  <2> QED
    BY <2>1, <2>2, <2>3, <2>4
<1>8. Pairwise(InsertAt(s, i, c), TableOrder)
  BY <1>2, <1>6, <1>7, PairwiseInsert
<1>9. Held(InsertAt(s, i, c)) = Held(s) \cup {c}
  BY <1>6, InsertAtHeld
<1> QED
  BY <1>2, <1>4, <1>8, <1>9

\* A pop takes contexts that come before those it leaves.
LEMMA PopOrdered ==
  ASSUME TypeOK, ~ config.weighted, ready = <<>>, table[1] # <<>>, TakeFrom(1),
         Pairwise(table[1], TableOrder)
  PROVE  /\ Pairwise(table'[1], TableOrder)
         /\ \A r \in Held(ready'), t \in Held(table'[1]) : <<r, t>> \in PopOrder
         /\ config.basic # "ALL" => Len(ready') <= 1
         /\ Held(table[1]) \subseteq Held(ready') \cup Held(table'[1])
         /\ Held(ready') \subseteq Held(table[1]) /\ Held(table'[1]) \subseteq Held(table[1])
<1>1. 1 \in Places /\ DOMAIN table = Places
  BY OneList DEF TypeOK
<1>2. PICK s \in Seq(Context) : s = table[1]
  BY OneList
<1>3. /\ Len(s) \in Nat \ {0} /\ DOMAIN s = 1 .. Len(s)
      /\ \A k \in DOMAIN s : s[k] \in Context /\ s[k] \in Held(s)
  BY <1>2, EmptySeq, LenProperties, ElementOfSeq DEF Held
<1>4. CASE config.basic = "ALL"
  <2>1. ready' = <<>> \o s /\ table'[1] = <<>>
    BY <1>1, <1>2, <1>4 DEF TakeFrom
  <2>2. ready' = s
    BY <2>1, ConcatEmptySeq
  <2>3. Held(<<>>) = {} /\ Pairwise(<<>>, TableOrder)
    BY DEF Held, Pairwise
  <2> QED
    BY <1>2, <1>4, <2>1, <2>2, <2>3
<1>5. CASE config.basic # "ALL"
  <2>1. PICK i \in PopPlaces(table[1]) :
          /\ ready' = Append(ready, table[1][i])
          /\ table' = [table EXCEPT ![1] = RemoveAt(table[1], i)]
    BY <1>5 DEF TakeFrom
  <2>2. i \in DOMAIN s
    BY <1>2, <1>3, <1>5, <2>1 DEF PopPlaces
  <2>3. PICK c \in Context : c = s[i] /\ c \in Held(s)
    BY <1>3, <2>2
  <2>4. ready' = <<c>> /\ table'[1] = RemoveAt(s, i)
    BY <1>1, <1>2, <2>1, <2>3
  <2>5. Held(<<c>>) = {c} /\ Len(<<c>>) = 1
    BY DEF Held
  <2>6. PICK t : t = table'[1]
    OBVIOUS
  <2>7. /\ Pairwise(t, TableOrder)
        /\ \A x \in Held(t) : \E j \in DOMAIN s \ {i} : x = s[j]
        /\ \A j \in DOMAIN s \ {i} : s[j] \in Held(t)
    BY <1>2, <2>2, <2>4, <2>6, PairwiseRemove
  <2>8. ASSUME NEW j \in DOMAIN s \ {i} PROVE <<c, s[j]>> \in PopOrder
    <3>1. CASE config.basic \in {"BFS", "FIRST", "ORDER"}
      <4>1. i = 1 /\ TableOrder = PopOrder
        BY <2>1, <3>1, Orders DEF PopPlaces
      <4>2. i < j
        BY <1>3, <4>1
      <4> QED
        BY <1>2, <2>2, <2>3, <4>1, <4>2 DEF Pairwise
    <3>2. CASE config.basic \in {"DFS", "LAST"}
      <4>1. i = Len(s) /\ TableOrder = Reversed /\ PopOrder = Lexical
        BY <1>2, <2>1, <3>2, Orders DEF PopPlaces
      <4>2. j < i
        BY <1>3, <4>1
      <4>3. <<s[j], c>> \in Reversed
        BY <1>2, <2>2, <2>3, <4>1, <4>2 DEF Pairwise
      <4> QED
        BY <1>3, <4>1, <4>3, PairMember
    <3>3. CASE config.basic \notin {"BFS", "FIRST", "DFS", "LAST", "ORDER"}
      BY <1>3, <3>3, Orders, PairMember
    <3> QED
      BY <3>1, <3>2, <3>3
  <2>9. \A r \in Held(ready'), x \in Held(t) : <<r, x>> \in PopOrder
    BY <2>4, <2>5, <2>7, <2>8
  <2>10. ASSUME NEW x \in Held(s) PROVE x \in Held(ready') \cup Held(t)
    <3>1. PICK j \in DOMAIN s : x = s[j]
      BY DEF Held
    <3>2. j = i \/ s[j] \in Held(t)
      BY <2>7
    <3> QED
      BY <2>3, <2>4, <2>5, <3>1, <3>2
  <2>11. Held(t) \subseteq Held(s)
    BY <1>3, <2>7
  <2> QED
    BY <1>2, <2>3, <2>4, <2>5, <2>6, <2>7, <2>9, <2>10, <2>11
<1> QED
  BY <1>4, <1>5

\* The children of a context are pushed in order, and fit a list that the context
\* came before.
LEMMA KidsOrdered ==
  ASSUME NEW c \in Context, NEW n \in Nat, NEW f \in [1 .. n -> Weights],
         NEW T \in SUBSET Context, \A t \in T : <<c, t>> \in PopOrder
  PROVE  /\ Pairwise(ChildOrder(Children(c, n, f)), KidsOrder)
         /\ \A t \in T, k \in Held(ChildOrder(Children(c, n, f))) : <<t, k>> \in KidsOrder
<1>1. PICK s : s = ChildOrder(Children(c, n, f))
  OBVIOUS
<1>2. /\ DOMAIN s = 1 .. n
      /\ config.basic \in {"DFS", "FIRST", "LAST"} =>
           \A i \in 1 .. n : s[i] = Child(c, f, n - i + 1)
      /\ config.basic \notin {"DFS", "FIRST", "LAST"} =>
           \A i \in 1 .. n : s[i] = Child(c, f, i)
      /\ \A i \in 1 .. n : Child(c, f, i) \in Context
  BY <1>1, ChildOrderElements
<1>3. \A i \in 1 .. n : n - i + 1 \in 1 .. n
  OBVIOUS
<1>4. \A i \in 1 .. n : \E k \in 1 .. n : s[i] = Child(c, f, k)
  BY <1>2, <1>3
<1>5. PICK p \in Seq(Nat) : p = c.path
  BY DEF Context
<1>6. \A i \in 1 .. n : Child(c, f, i).path = Append(p, i) /\ i \in Nat
  BY <1>5 DEF Child
<1>7. Len(p) \in Nat /\ \A i \in 1 .. n : Len(Append(p, i)) = Len(p) + 1
  BY LenProperties, AppendProperties
<1>8. ASSUME NEW i \in 1 .. n, NEW j \in 1 .. n, i < j
      PROVE  LeftOf(Child(c, f, i).path, Child(c, f, j).path)
  BY <1>6, <1>8, LeftOfSibling
<1>9. ASSUME NEW i \in 1 .. n, NEW j \in 1 .. n, i < j
      PROVE  <<s[i], s[j]>> \in KidsOrder
  <2>1. CASE config.basic = "BFS"
    <3>1. s[i] = Child(c, f, i) /\ s[j] = Child(c, f, j) /\ KidsOrder = Level
      BY <1>2, <2>1, Orders
    <3>2. Len(Child(c, f, i).path) = Len(Child(c, f, j).path)
      BY <1>6, <1>7
    <3> QED
      BY <1>2, <1>8, <1>9, <3>1, <3>2, PairMember
  <2>2. CASE config.basic \in {"DFS", "FIRST", "LAST"}
    <3>1. s[i] = Child(c, f, n - i + 1) /\ s[j] = Child(c, f, n - j + 1) /\ KidsOrder = Reversed
      BY <1>2, <2>2, Orders
    <3>2. n - i + 1 \in 1 .. n /\ n - j + 1 \in 1 .. n /\ n - j + 1 < n - i + 1
      BY <1>9
    <3> QED
      BY <1>2, <1>8, <3>1, <3>2, PairMember
  <2>3. CASE config.basic \notin {"BFS", "DFS", "FIRST", "LAST"}
    <3>1. KidsOrder = Pairs
      BY <2>3, Orders
    <3> QED
      BY <1>2, <1>4, <3>1, PairMember
  <2> QED
    BY <2>1, <2>2, <2>3
<1>10. ASSUME NEW t \in T, NEW k \in Held(s) PROVE <<t, k>> \in KidsOrder
  <2>1. PICK i \in 1 .. n : k = Child(c, f, i)
    BY <1>2, <1>4 DEF Held
  <2>2. t \in Context /\ k \in Context /\ <<c, t>> \in PopOrder
    BY <1>2, <2>1
  <2>3. PICK q \in Seq(Nat) : q = t.path
    BY <2>2 DEF Context
  <2>4. k.path = Append(p, i) /\ i \in Nat /\ Len(k.path) = Len(p) + 1
    BY <1>6, <1>7, <2>1
  <2>5. CASE config.basic = "BFS"
    <3>1. \/ Len(p) = Len(q) /\ LeftOf(p, q)
          \/ Len(q) = Len(p) + 1 /\ LeftOf(q, p)
      BY <1>5, <2>2, <2>3, <2>5, Orders, PairMember
    <3>2. \/ Len(k.path) = Len(q) + 1 /\ LeftOf(k.path, q)
          \/ Len(q) = Len(k.path) /\ LeftOf(q, k.path)
      BY <2>4, <3>1, LeftOfChild
    <3> QED
      BY <2>2, <2>3, <2>5, <3>2, Orders, PairMember
  <2>6. CASE config.basic \in {"DFS", "FIRST", "LAST"}
    <3>1. LeftOf(p, q)
      BY <1>5, <2>2, <2>3, <2>6, Orders, PairMember
    <3>2. LeftOf(k.path, q)
      BY <2>4, <3>1, LeftOfChild
    <3> QED
      BY <2>2, <2>3, <2>6, <3>2, Orders, PairMember
  <2>7. CASE config.basic \notin {"BFS", "DFS", "FIRST", "LAST"}
    <3>1. KidsOrder = Pairs
      BY <2>7, Orders
    <3> QED
      BY <2>2, <3>1, PairMember
  <2> QED
    BY <2>5, <2>6, <2>7
<1> QED
  BY <1>1, <1>2, <1>9, <1>10 DEF Pairwise

\* Every step leaves in each list the contexts of its weight.
LEMMA NextPlaced == TypeOK /\ Placed /\ [Next]_vars => Placed'
<1> SUFFICES ASSUME TypeOK, Placed, [Next]_vars PROVE Placed'
  OBVIOUS
<1>0. /\ kids \in Seq(Context) /\ requeued \in Seq(Context) /\ DOMAIN table = Places
      /\ table \in [Places -> Seq(Context)]
  BY DEF TypeOK
<1>1. SUFFICES ASSUME NEW w \in Places, NEW c \in Held(table'[w])
               PROVE  config' = config /\ Place(c) = w
  <2>1. config' = config
    BY StepConfig
  <2>2. Places' = Places /\ \A c : Place(c)' = Place(c)
    BY <2>1, Zenon DEF Places, Place, Clamp, Count
  <2> SUFFICES ASSUME \A w \in Places : \A c \in Held(table'[w]) : Place(c) = w
               PROVE  Placed'
    BY <2>1
  <2>3. ASSUME NEW w \in Places', NEW c \in Held(table[w])' PROVE Place(c)' = w
    <3>1. c \in Held(table'[w]) /\ w \in Places
      BY <2>2 DEF Held
    <3> QED
      BY <2>2, <3>1
  <2> QED
    BY <2>3 DEF Placed
<1>2. config' = config
  BY StepConfig
<1>3. ASSUME NEW d \in Context, PushOne(d) PROVE Place(c) = w
  <2>1. /\ Held(table'[Place(d)]) = Held(table[Place(d)]) \cup {d}
        /\ \A v \in Places \ {Place(d)} : table'[v] = table[v]
    BY <1>3, PushOneHeld
  <2>2. c \in Held(table[w]) \/ (w = Place(d) /\ c = d)
    BY <2>1
  <2> QED
    BY <2>2 DEF Placed
<1>4. CASE Push
  <2>1. Head(kids) \in Context /\ PushOne(Head(kids))
    BY <1>0, <1>4, HeadTailProperties DEF Push
  <2> QED
    BY <1>2, <1>3, <2>1
<1>5. CASE Pop
  <2>1. PICK v \in Places : table[v] # <<>> /\ TakeFrom(v)
    BY <1>5, PopsAList
  <2>2. CASE w # v
    <3>1. table'[w] = table[w]
      BY <2>1, <2>2, TakeFromType
    <3> QED
      BY <1>2, <3>1 DEF Placed
  <2>3. CASE w = v
    <3>1. PICK s \in Seq(Context) : s = table[v]
      BY <1>0
    <3>2. c \in Held(s)
      <4>1. CASE config.basic = "ALL"
        <5>1. table'[v] = <<>>
          BY <1>0, <4>1, <2>1 DEF TakeFrom
        <5>2. Held(<<>>) = {}
          BY DEF Held
        <5> QED
          BY <2>3, <5>1, <5>2
      <4>2. CASE config.basic # "ALL"
        <5>1. PICK i \in PopPlaces(table[v]) : table' = [table EXCEPT ![v] = RemoveAt(table[v], i)]
          BY <2>1, <4>2 DEF TakeFrom
        <5>2. Len(s) \in Nat \ {0} /\ DOMAIN s = 1 .. Len(s)
          BY <2>1, <3>1, EmptySeq, LenProperties
        <5>3. i \in DOMAIN s /\ table'[v] = RemoveAt(s, i)
          BY <1>0, <3>1, <4>2, <5>1, <5>2 DEF PopPlaces
        <5>4. PICK R : R = Context \X Context
          OBVIOUS
        <5>5. \A k \in DOMAIN s : s[k] \in Context
          BY ElementOfSeq, <5>2
        <5>6. Pairwise(s, R)
          BY <5>4, <5>5 DEF Pairwise
        <5>7. \A x \in Held(RemoveAt(s, i)) : \E j \in DOMAIN s \ {i} : x = s[j]
          BY <5>3, <5>6, PairwiseRemove
        <5>8. c \in Held(RemoveAt(s, i))
          BY <2>3, <5>3
        <5>9. PICK j \in DOMAIN s : c = s[j]
          BY <5>7, <5>8
        <5> QED
          BY <5>9 DEF Held
      <4> QED
        BY <4>1, <4>2
    <3> QED
      BY <1>2, <2>3, <3>1, <3>2 DEF Placed
  <2> QED
    BY <2>2, <2>3
<1>6. CASE Flush
  <2>1. table'[w] = <<>> \/ table'[w] = table[w]
    BY <1>0, <1>6 DEF Flush
  <2>2. Held(<<>>) = {}
    BY DEF Held
  <2> QED
    BY <1>2, <2>1, <2>2 DEF Placed
<1>7. CASE Repush
  <2>1. Head(requeued) \in Context
    BY <1>0, <1>7, HeadTailProperties DEF Repush
  <2>2. PICK v \in NewWeights : PushOne([Head(requeued) EXCEPT !.weight = v])
    BY <1>7 DEF Repush
  <2>3. v \in 0 .. 255
    BY <2>2, ConstantTypes
  <2>4. [Head(requeued) EXCEPT !.weight = v] \in Context
    BY <2>1, <2>3 DEF Context
  <2> QED
    BY <1>2, <1>3, <2>2, <2>4
<1>9. CASE SeekTake
  <2>1. table'[w] = <<>> \/ table'[w] = table[w]
    BY <1>0, <1>9 DEF SeekTake
  <2>2. Held(<<>>) = {}
    BY DEF Held
  <2> QED
    BY <1>2, <2>1, <2>2 DEF Placed
<1>10. CASE Restore
  <2>1. Head(requeued) \in Context
    BY <1>0, <1>10, HeadTailProperties DEF Restore
  <2>2. PushOne(Head(requeued))
    BY <1>10 DEF Restore
  <2> QED
    BY <1>2, <1>3, <2>1, <2>2
<1>8. CASE Evaluate \/ Requeue \/ EndRepush \/ SeekNone \/ EndRestore \/ UNCHANGED vars
  <2>1. table' = table
    BY <1>8 DEF Evaluate, Requeue, EndRepush, SeekNone, EndRestore, vars
  <2> QED
    BY <1>2, <2>1 DEF Placed
<1> QED
  BY <1>4, <1>5, <1>6, <1>7, <1>8, <1>9, <1>10 DEF Next

\* The cache of a basic strategy is empty.
LEMMA OnlyList ==
  ASSUME TypeOK, Placed, ~ config.weighted
  PROVE  table[0] = <<>> /\ Waiting = Held(table[1])
<1>1. /\ Places = {0, 1} /\ table[0] \in Seq(Context)
      /\ \A c : Place(c) = 1
  BY OneList
<1>2. Held(table[0]) = {}
  BY <1>1 DEF Placed
<1>3. table[0] = <<>>
  <2>1. Len(table[0]) \in Nat /\ DOMAIN table[0] = 1 .. Len(table[0])
    BY <1>1, LenProperties
  <2>2. DOMAIN table[0] = {}
    BY <1>2 DEF Held
  <2>3. Len(table[0]) = 0
    <3>1. PICK n \in Nat : n = Len(table[0])
      BY <2>1
    <3>2. 1 .. n = {}
      BY <2>1, <2>2, <3>1, Zenon
    <3>3. n = 0
      <4>1. n # 0 => 1 \in 1 .. n
        OBVIOUS
      <4> QED
        BY <3>2, <4>1
    <3> QED
      BY <3>1, <3>3
  <2> QED
    BY <1>1, <2>3, EmptySeq
<1>4. Waiting = Held(table[0]) \cup Held(table[1])
  BY <1>1 DEF Waiting
<1> QED
  BY <1>2, <1>3, <1>4

\* A pop of a basic strategy is a pop of its list.
LEMMA PopsTheList ==
  ASSUME TypeOK, Placed, ~ config.weighted, Pop
  PROVE  table[1] # <<>> /\ TakeFrom(1)
<1>1. PopBasic /\ HasWaiting
  BY Zenon DEF Pop
<1>2. table[0] = <<>> /\ Places = {0, 1}
  BY OnlyList, OneList
<1>3. table[1] # <<>>
  BY <1>1, <1>2 DEF HasWaiting
<1> QED
  BY <1>1, <1>2, <1>3, Zenon DEF PopBasic

\* Every step keeps the order of a basic strategy.
LEMMA NextOrdered == TypeOK /\ Phases /\ Spread /\ Placed /\ Ordered /\ [Next]_vars => Ordered'
<1> SUFFICES ASSUME TypeOK, Phases, Spread, Placed, Ordered, [Next]_vars PROVE Ordered'
  OBVIOUS
<1>0. /\ kids \in Seq(Context) /\ ready \in Seq(Context)
      /\ config' = config
  BY StepConfig DEF TypeOK
<1> DEFINE Fits(t, k, r) ==
             /\ Pairwise(t, TableOrder) /\ Pairwise(k, KidsOrder)
             /\ \A x \in Held(t), y \in Held(k) : <<x, y>> \in KidsOrder
             /\ \A x \in Held(r), y \in Held(t) : <<x, y>> \in PopOrder
             /\ config.basic # "ALL" => Len(r) <= 1 /\ (r = <<>> \/ k = <<>>)
<1>1. SUFFICES ASSUME ~ config.weighted
               PROVE  ~ posted' /\ pc' = "idle" /\ Fits(table'[1], kids', ready')
  <2> SUFFICES ASSUME ~ config.weighted,
                      ~ posted' /\ pc' = "idle" /\ Fits(table'[1], kids', ready')
               PROVE  Ordered'
    BY <1>0, Zenon DEF Ordered
  <2>1. PopOrder' = PopOrder /\ KidsOrder' = KidsOrder
    BY <1>0, Zenon DEF PopOrder, KidsOrder, DepthFirst, Level, Lexical, Lighter, Reversed, Pairs, LeftOf, Context
  <2>2. TableOrder' = TableOrder
    BY <1>0, <2>1, Zenon DEF TableOrder, Reversed, Pairs, LeftOf, Context
  <2> QED
    BY <1>0, <2>1, <2>2, Zenon DEF Ordered, Pairwise, Held
<1>2. ~ posted /\ pc = "idle" /\ Fits(table[1], kids, ready)
  BY <1>1, Zenon DEF Ordered
<1>3. table[1] \in Seq(Context) /\ Held(table[1]) \subseteq Context
  BY <1>1, OneList, PathsType
<1>4. Held(<<>>) = {} /\ Pairwise(<<>>, KidsOrder) /\ Len(<<>>) <= 1
  BY DEF Held, Pairwise
<1>5. CASE Push
  <2>1. /\ kids # <<>> /\ PushOne(Head(kids)) /\ kids' = Tail(kids)
        /\ UNCHANGED <<pc, ready, posted>>
    BY <1>5 DEF Push, requeueVars
  <2>2. PICK c \in Context : c = Head(kids)
    BY <1>0, <2>1, HeadTailProperties
  <2>3. Held(kids) = {c} \cup Held(Tail(kids))
    BY <1>0, <2>1, <2>2, HeadTailHeld
  <2>4. /\ Pairwise(table'[1], TableOrder)
        /\ Held(table'[1]) = Held(table[1]) \cup {c}
    BY <1>1, <1>2, <2>1, <2>2, <2>3, PushOrdered
  <2>5. Pairwise(Tail(kids), KidsOrder) /\ \A y \in Held(Tail(kids)) : <<c, y>> \in KidsOrder
    BY <1>0, <1>2, <2>1, <2>2, PairwiseTail
  <2>6. \A x \in Held(table'[1]), y \in Held(Tail(kids)) : <<x, y>> \in KidsOrder
    BY <1>2, <2>3, <2>4, <2>5
  <2>7. CASE config.basic = "ALL"
    <3>1. PopOrder = Pairs
      BY <2>7, Orders
    <3>2. Held(ready) \subseteq Context
      BY <1>0, PathsType
    <3>3. \A x \in Held(ready), y \in Held(table'[1]) : <<x, y>> \in PopOrder
      BY <1>3, <2>4, <3>1, <3>2, PairMember
    <3> QED
      BY <1>2, <2>1, <2>4, <2>5, <2>6, <2>7, <3>3
  <2>8. CASE config.basic # "ALL"
    <3>1. ready = <<>>
      BY <1>2, <2>1, <2>8
    <3> QED
      BY <1>2, <1>4, <2>1, <2>4, <2>5, <2>6, <3>1
  <2> QED
    BY <2>7, <2>8
<1>6. CASE Pop
  <2>1. kids = <<>> /\ kids' = <<>> /\ ready = <<>> /\ UNCHANGED <<pc, posted>>
    BY <1>6 DEF Pop, requeueVars
  <2>2. table[1] # <<>> /\ TakeFrom(1)
    BY <1>1, <1>6, PopsTheList
  <2>3. /\ Pairwise(table'[1], TableOrder)
        /\ \A r \in Held(ready'), t \in Held(table'[1]) : <<r, t>> \in PopOrder
        /\ config.basic # "ALL" => Len(ready') <= 1
    BY <1>1, <1>2, <2>1, <2>2, PopOrdered
  <2> QED
    BY <1>2, <1>4, <2>1, <2>3
<1>7. CASE Evaluate
  <2>11. ~ config.requeues
    BY <1>1, RequeueNeedsWeight DEF TypeOK
  <2>12. pc' = "idle" /\ posted' = posted
    BY <1>7, <2>11, Zenon DEF Evaluate
  <2>1. /\ kids = <<>> /\ ready # <<>> /\ ready' = Tail(ready)
        /\ UNCHANGED <<pc, table>> /\ posted' = posted
    BY <1>2, <1>7, <2>12 DEF Evaluate
  <2>2. PICK c \in Context : c = Head(ready)
    BY <1>0, <2>1, HeadTailProperties
  <2>3. Held(ready) = {c} \cup Held(Tail(ready))
    BY <1>0, <2>1, <2>2, HeadTailHeld
  <2>4. PICK n \in Nat : \E f \in [1 .. n -> Weights] : kids' = ChildOrder(Children(Head(ready), n, f))
    BY <1>7, EvaluateSpread
  <2>5. PICK f \in [1 .. n -> Weights] : kids' = ChildOrder(Children(c, n, f))
    BY <2>2, <2>4
  <2>6. PICK T \in SUBSET Context : T = Held(table[1])
    BY <1>3
  <2>7. \A t \in T : <<c, t>> \in PopOrder
    BY <1>2, <2>3, <2>6
  <2>8. /\ Pairwise(kids', KidsOrder)
        /\ \A t \in Held(table[1]), k \in Held(kids') : <<t, k>> \in KidsOrder
    BY <2>5, <2>6, <2>7, KidsOrdered
  <2>9. \A x \in Held(Tail(ready)), y \in Held(table[1]) : <<x, y>> \in PopOrder
    BY <1>2, <2>3
  <2>10. ASSUME config.basic # "ALL" PROVE Tail(ready) = <<>> /\ Len(Tail(ready)) <= 1
    <3>1. Len(ready) \in Nat \ {0} /\ Len(ready) <= 1
      BY <1>0, <1>2, <2>1, <2>10, EmptySeq, LenProperties
    <3>2. Len(ready) = 1
      <4>1. \A l \in Nat \ {0} : l <= 1 => l = 1
        OBVIOUS
      <4> QED
        BY <3>1, <4>1, Zenon
    <3>3. PICK t \in Seq(Context) : t = Tail(ready) /\ Len(t) = Len(ready) - 1
      BY <1>0, <2>1, HeadTailProperties
    <3>4. Len(t) = 0
      BY <3>2, <3>3
    <3>5. t = <<>>
      BY <3>4, EmptySeq
    <3> QED
      BY <1>4, <3>3, <3>5, Zenon
  <2> QED
    BY <1>2, <2>1, <2>8, <2>9, <2>10
<1>8. CASE \/ Requeue \/ Flush \/ Repush \/ EndRepush
           \/ SeekTake \/ SeekNone \/ Restore \/ EndRestore
  <2>1. posted \/ pc # "idle"
    BY <1>8 DEF Requeue, Flush, Repush, EndRepush, SeekTake, SeekNone, Restore, EndRestore
  <2> QED
    BY <1>2, <2>1
<1>9. CASE UNCHANGED vars
  <2>1. UNCHANGED <<pc, table, kids, ready, posted>>
    BY <1>9 DEF vars, requeueVars
  <2> QED
    BY <1>2, <2>1
<1> QED
  BY <1>5, <1>6, <1>7, <1>8, <1>9 DEF Next

\* A pop takes from the first list in use.
LEMMA PopsFirst ==
  ASSUME TypeOK, Placed, WindowCovers, config.weighted, Pop, ready = <<>>,
         NEW c \in Held(ready'), NEW d \in Waiting
  PROVE  Place(c) <= Place(d)
<1>1. PICK w \in Places : table[w] # <<>> /\ TakeFrom(w) /\ w \in FirstFrom(wmin)
  BY PopsAList
<1>2. PICK v \in Places : d \in Held(table[v])
  BY DEF Waiting
<1>3. Place(d) = v
  BY <1>2 DEF Placed
<1>4. table[v] # <<>>
  BY <1>2 DEF Held
<1>5. wmin <= v
  BY <1>4, Zenon DEF WindowCovers
<1>6. Count \in 0 .. 126 /\ wmin \in Nat
  <2>1. config \in Configs /\ wmin \in 0 .. 255
    BY DEF TypeOK
  <2> QED
    BY <2>1, CountType
<1>7. w \in wmin .. Count /\ \A u \in wmin .. w - 1 : table[u] = <<>>
  BY <1>1, Zenon DEF FirstFrom
<1>8. w <= v
  <2>1. ~ (v \in wmin .. w - 1)
    BY <1>4, <1>7
  <2>2. v \in Nat /\ w \in Nat
    BY <1>6 DEF Places
  <2> QED
    BY <1>5, <1>6, <2>1, <2>2
<1>9. c \in Held(table[w])
  <2>1. PICK s \in Seq(Context) : s = table[w]
    BY DEF TypeOK
  <2>2. CASE config.basic = "ALL"
    <3>1. ready' = s
      BY <1>1, <2>1, <2>2, ConcatEmptySeq DEF TakeFrom
    <3> QED
      BY <2>1, <3>1
  <2>3. CASE config.basic # "ALL"
    <3>1. PICK i \in PopPlaces(table[w]) : ready' = Append(ready, table[w][i])
      BY <1>1, <2>3 DEF TakeFrom
    <3>2. Len(s) \in Nat \ {0} /\ DOMAIN s = 1 .. Len(s)
      BY <1>1, <2>1, EmptySeq, LenProperties
    <3>3. i \in DOMAIN s
      BY <2>1, <2>3, <3>1, <3>2 DEF PopPlaces
    <3>4. ready' = <<s[i]>>
      BY <2>1, <3>1
    <3>5. c = s[i]
      BY <3>4 DEF Held
    <3> QED
      BY <2>1, <3>3, <3>5 DEF Held
  <2> QED
    BY <2>2, <2>3
<1>10. Place(c) = w
  BY <1>9 DEF Placed
<1> QED
  BY <1>3, <1>8, <1>10

\* What a step makes ready comes before what it leaves.
LEMMA NextPopsInOrder ==
  TypeOK /\ WindowCovers /\ Phases /\ Placed /\ Ordered /\ [Next]_vars
    => [\A c \in Held(ready') \ Held(ready) : \A d \in Waiting \ Held(ready') : Before(c, d)]_vars
<1> SUFFICES ASSUME TypeOK, WindowCovers, Phases, Placed, Ordered, Next,
                    NEW c \in Held(ready') \ Held(ready), NEW d \in Waiting \ Held(ready')
             PROVE  Before(c, d)
  OBVIOUS
<1>1. ready \in Seq(Context)
  BY DEF TypeOK
<1>2. CASE Pop
  <2>1. ready = <<>>
    BY <1>2 DEF Pop
  <2>2. CASE config.weighted
    <3>1. Place(c) <= Place(d)
      BY <1>2, <2>1, <2>2, PopsFirst
    <3> QED
      BY <2>2, <3>1 DEF Before
  <2>3. CASE ~ config.weighted
    <3>1. table[1] # <<>> /\ TakeFrom(1) /\ d \in Held(table[1])
      BY <1>2, <2>3, PopsTheList, OnlyList
    <3>2. Pairwise(table[1], TableOrder)
      BY <2>3, Zenon DEF Ordered
    <3>3. /\ \A r \in Held(ready'), t \in Held(table'[1]) : <<r, t>> \in PopOrder
          /\ Held(table[1]) \subseteq Held(ready') \cup Held(table'[1])
          /\ Held(ready') \subseteq Held(table[1])
      BY <2>1, <2>3, <3>1, <3>2, PopOrdered
    <3>4. Held(table[1]) \subseteq Context
      BY <2>3, OneList, PathsType
    <3>5. c \in Context /\ d \in Context /\ <<c, d>> \in PopOrder
      BY <3>1, <3>3, <3>4
    <3> QED
      BY <2>3, <3>5, PopOrderBefore
  <2> QED
    BY <2>2, <2>3
<1>3. CASE Evaluate
  <2>1. ready # <<>> /\ ready' = Tail(ready)
    BY <1>3 DEF Evaluate
  <2>2. Held(ready') \subseteq Held(ready)
    BY <1>1, <2>1, HeadTailHeld
  <2> QED
    BY <2>2
<1>4. CASE \/ Push \/ Requeue \/ Flush \/ Repush \/ EndRepush
           \/ SeekTake \/ SeekNone \/ Restore \/ EndRestore
  <2>1. ready' = ready
    BY <1>4 DEF Push, Requeue, Flush, Repush, EndRepush, SeekTake, SeekNone, Restore, EndRestore
  <2> QED
    BY <2>1
<1> QED
  BY <1>2, <1>3, <1>4 DEF Next

\* BFS takes the contexts level by level from left to right, DFS, FIRST and LAST in
\* the order of a depth first search, ORDER by weight, and WEIGHT from the first
\* list in use, for every graph that is explored, all weights, any number of lists
\* and requeues at any time.
THEOREM StrategyOrder == Spec => PopsInOrder
<1>1. Init => Placed /\ Ordered
  <2> SUFFICES ASSUME Init PROVE Placed /\ Ordered
    OBVIOUS
  <2>1. PICK c \in Context : c = [path |-> <<>>, weight |-> 0]
    <3>1. [path |-> <<>>, weight |-> 0] \in Context
      BY DEF Context
    <3> QED
      BY <3>1
  <2>2. /\ kids = <<c>> /\ ready = <<>> /\ pc = "idle" /\ ~ posted
        /\ \A w \in Places : table[w] = <<>>
    BY <2>1 DEF Init
  <2>3. Held(<<>>) = {} /\ Pairwise(<<>>, TableOrder) /\ Pairwise(<<c>>, KidsOrder) /\ Len(<<>>) <= 1
    BY DEF Held, Pairwise
  <2>4. Placed
    BY <2>2, <2>3 DEF Placed
  <2>5. ASSUME ~ config.weighted PROVE table[1] = <<>>
    BY <2>2, <2>5, InitType, OneList
  <2> QED
    BY <2>2, <2>3, <2>4, <2>5 DEF Ordered
<1>2. /\ TypeOK /\ Phases /\ Spread /\ Placed /\ Ordered /\ [Next]_vars
      => Placed' /\ Ordered'
  BY NextPlaced, NextOrdered
<1>3. Init => Phases /\ Spread
  BY InitSpread
<1>4. TypeOK /\ Phases /\ Spread /\ [Next]_vars => Phases' /\ Spread'
  BY NextPhases, NextSpread
<1>5. TypeOK /\ WindowCovers /\ Phases /\ Placed /\ Ordered /\ [Next]_vars
    => [\A c \in Held(ready') \ Held(ready) : \A d \in Waiting \ Held(ready') : Before(c, d)]_vars
  BY NextPopsInOrder
<1> QED
  BY <1>1, <1>2, <1>3, <1>4, <1>5, TypeCorrect, ScanCoversTable, PTL DEF Spec, PopsInOrder
=============================================================================
