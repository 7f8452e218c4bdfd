------------------------- MODULE WaitingBlockProofs -------------------------
(* Theorems about the BLOCK strategies, for every configuration.            *)
EXTENDS WaitingBlock, ListLemmas

\* The constants, as the proofs use them.
LEMMA ConstantTypes ==
  /\ Word \in Nat \ {0} /\ MaxKids \in Nat
  /\ \A c \in Configs : /\ c.strategy \in {"ALL", "BFS", "DFS", "RFS"}
                        /\ c.period \in [Dims -> 1 .. Word - 1]
                        /\ c.limit \in [Dims -> 1 .. Word - 1]
BY BlockAssumption DEF BlockAssumption, Config

\* A pop takes one of the places of the list, or all of it.
LEMMA TakeEffect ==
  ASSUME TypeOK, cache # <<>>, Take
  PROVE  \/ /\ Strategy = "ALL"
            /\ ready' = ready \o cache /\ cache' = <<>>
         \/ /\ Strategy # "ALL"
            /\ \E i \in 1 .. Len(cache) :
                 ready' = Append(ready, cache[i]) /\ cache' = RemoveAt(cache, i)
<1>1. cache \in Seq(Context)
  BY DEF TypeOK
<1>2. Len(cache) \in Nat \ {0} /\ DOMAIN cache = 1 .. Len(cache)
  BY <1>1, EmptySeq, LenProperties
<1>3. PopPlaces(cache) \subseteq 1 .. Len(cache)
  BY <1>2 DEF PopPlaces
<1> QED
  BY <1>3 DEF Take

\* What a pop takes, and what it leaves, are lists of contexts.
LEMMA TakeType ==
  ASSUME TypeOK, cache # <<>>, Take
  PROVE  ready' \in Seq(Context) /\ cache' \in Seq(Context)
<1>1. cache \in Seq(Context) /\ ready \in Seq(Context)
  BY DEF TypeOK
<1>2. CASE ready' = ready \o cache /\ cache' = <<>>
  BY <1>1, <1>2, ConcatProperties
<1>3. ASSUME NEW i \in 1 .. Len(cache),
             ready' = Append(ready, cache[i]), cache' = RemoveAt(cache, i)
      PROVE  ready' \in Seq(Context) /\ cache' \in Seq(Context)
  <2>1. cache[i] \in Context
    BY <1>1, ElementOfSeq
  <2>2. Append(ready, cache[i]) \in Seq(Context)
    BY <1>1, <2>1, AppendProperties
  <2>3. RemoveAt(cache, i) \in Seq(Context)
    BY <1>1, RemoveAtType
  <2> QED
    BY <1>3, <2>2, <2>3
<1> QED
  BY <1>2, <1>3, TakeEffect

\* What the block may become is a block.
LEMMA BlockArithmetic ==
  ASSUME TypeOK, NEW d \in Dims
  PROVE  /\ Grown(d) \in 0 .. Word - 1
         /\ Restarted(d) \in 0 .. Word - 1
         /\ (limit[d] + limit[d]) % Word \in 0 .. Word - 1
         /\ (limit[d] + Period[d]) % Word \in 0 .. Word - 1
<1>1. Word \in Nat \ {0} /\ Period[d] \in 1 .. Word - 1
  BY ConstantTypes DEF TypeOK, Period
<1>2. limit[d] \in 0 .. Word - 1 /\ block[d] \in 0 .. Word - 1 /\ pushMin[d] \in Nat
  BY DEF TypeOK, Context
<1>3. \A n \in Nat : n % Word \in 0 .. Word - 1
  BY <1>1
<1>4. pushMin[d] % Period[d] \in 0 .. Period[d] - 1
  BY <1>1, <1>2
<1>5. pushMin[d] + Period[d] - (pushMin[d] % Period[d]) \in Nat
  BY <1>1, <1>2, <1>4
<1>6. Restarted(d) \in 0 .. Word - 1
  BY <1>3, <1>5 DEF Restarted, NextIncr
<1>7. (block[d] + Period[d]) % Word \in 0 .. Word - 1
  BY <1>1, <1>2, <1>3
<1>8. Grown(d) \in 0 .. Word - 1
  BY <1>2, <1>7 DEF Grown, Least
<1>9. limit[d] + limit[d] \in Nat /\ limit[d] + Period[d] \in Nat
  BY <1>1, <1>2
<1> QED
  BY <1>3, <1>6, <1>8, <1>9

\* A new block leaves the lists alone and starts updateQueue at the first place.
LEMMA TryBlockType ==
  ASSUME TypeOK, NEW b \in [Dims -> 0 .. Word - 1], NEW next \in {"grow", "double"},
         limit' \in [Dims -> 0 .. Word - 1], TryBlock(b, next)
  PROVE  TypeOK'
<1>1. 1 \in 1 .. Len(queue) + 1
  BY LenProperties DEF TypeOK
<1> QED
  BY <1>1 DEF TypeOK, TryBlock, listVars

\* The children of a context are contexts.
LEMMA ChildrenType ==
  ASSUME TypeOK, NEW c \in Context, NEW n \in Nat
  PROVE  ChildOrder(Children(c, n)) \in Seq(Context)
<1> DEFINE s == Children(c, n)
<1>1. c["h"] \in Nat /\ c["w"] \in Nat /\ graphWidth \in Nat
  BY DEF Context, Dims, TypeOK
<1>2. s \in [1 .. n -> Context]
  BY <1>1 DEF Children, Context, Dims
<1>3. s \in Seq(Context) /\ Len(s) = n
  BY <1>2, SeqDef, LenProperties
<1> HIDE DEF s
<1>4. Reverse(s) \in [1 .. n -> Context]
  BY <1>2, <1>3 DEF Reverse
<1>5. Reverse(s) \in Seq(Context)
  BY <1>4, SeqDef
<1> QED
  BY <1>3, <1>5 DEF ChildOrder, s

\* TypeOK holds at first: a block is at first one period.
LEMMA InitType == Init => TypeOK
<1> SUFFICES ASSUME Init PROVE TypeOK
  OBVIOUS
<1>1. Word \in Nat \ {0} /\ config \in Configs
  BY ConstantTypes DEF Init
<1>2. block \in [Dims -> 0 .. Word - 1] /\ limit \in [Dims -> 0 .. Word - 1]
  BY <1>1, ConstantTypes DEF Init, Period
<1>3. Root \in Context
  BY DEF Root, Context, Dims
<1>4. pushMin \in Context /\ pushMax \in Context
  BY DEF Init, Context
<1>5. <<>> \in Seq(Context) /\ <<Root>> \in Seq(Context) /\ Len(<<>>) = 0
  BY <1>3
<1> QED
  BY <1>1, <1>2, <1>4, <1>5 DEF Init, TypeOK

\* Every step of the strategy preserves TypeOK.
LEMMA NextType == TypeOK /\ [Next]_vars => TypeOK'
<1> SUFFICES ASSUME TypeOK, [Next]_vars PROVE TypeOK'
  OBVIOUS
<1>1. /\ cache \in Seq(Context) /\ queue \in Seq(Context)
      /\ ready \in Seq(Context) /\ kids \in Seq(Context)
      /\ Len(queue) \in Nat
  BY LenProperties DEF TypeOK
<1>2. CASE Evaluate
  <2>1. Head(ready) \in Context /\ Tail(ready) \in Seq(Context)
    BY <1>1, <1>2, HeadTailProperties DEF Evaluate
  <2>2. PICK n \in 0 .. MaxKids :
          /\ graphWidth' = graphWidth + (IF n = 0 THEN 0 ELSE n - 1)
          /\ kids' = ChildOrder(Children(Head(ready), n))
    BY <1>2 DEF Evaluate
  <2>3. n \in Nat /\ graphWidth' \in Nat
    BY <2>2, ConstantTypes DEF TypeOK
  <2>4. kids' \in Seq(Context)
    BY <2>1, <2>2, <2>3, ChildrenType
  <2> QED
    BY <1>2, <2>1, <2>3, <2>4 DEF Evaluate, TypeOK, perimeterVars, walkVars
<1>3. CASE Push
  <2> DEFINE c == Head(kids)
  <2>1. c \in Context /\ Tail(kids) \in Seq(Context)
    BY <1>1, <1>3, HeadTailProperties DEF Push
  <2>2. /\ Append(cache, c) \in Seq(Context)
        /\ Append(queue, c) \in Seq(Context) /\ Len(Append(queue, c)) = Len(queue) + 1
    BY <1>1, <2>1, AppendProperties
  <2>3. pushMax' \in Context
    <3>1. pushMax' = [d \in Dims |-> Greatest(pushMax[d], c[d])]
      BY <1>3 DEF Push
    <3> QED
      BY <2>1, <3>1 DEF TypeOK, Context, Greatest
  <2> HIDE DEF c
  <2>4. cache' \in Seq(Context) /\ queue' \in Seq(Context) /\ Len(queue') \in {Len(queue), Len(queue) + 1}
    BY <1>1, <1>3, <2>2 DEF Push, c
  <2>5. cur \in 1 .. Len(queue') + 1
    BY <1>1, <2>4 DEF TypeOK
  <2> QED
    BY <1>3, <2>1, <2>3, <2>4, <2>5 DEF Push, TypeOK, walkVars
<1>4. CASE Pop
  <2>1. ready' \in Seq(Context) /\ cache' \in Seq(Context)
    BY <1>1, <1>4, TakeType DEF Pop
  <2> QED
    BY <1>4, <2>1 DEF Pop, TypeOK, perimeterVars, walkVars
<1>5. CASE Update
  <2> DEFINE c == queue[cur]
  <2>1. cur \in 1 .. Len(queue)
    BY <1>1, <1>5 DEF Update, TypeOK
  <2>2. c \in Context
    BY <1>1, <2>1, ElementOfSeq
  <2>3. Append(cache, c) \in Seq(Context)
    BY <1>1, <2>2, AppendProperties
  <2>4. RemoveAt(queue, cur) \in Seq(Context) /\ Len(RemoveAt(queue, cur)) = Len(queue) - 1
    BY <1>1, <2>1, RemoveAtType
  <2>5. pushMin' \in Context
    <3>1. pushMin' = [d \in Dims |-> Least(pushMin[d], c[d])]
      BY <1>5 DEF Update
    <3> QED
      BY <2>2, <3>1 DEF TypeOK, Context, Least
  <2> HIDE DEF c
  <2>6. CASE Inside(c, block)
    <3>1. cache' = Append(cache, c) /\ queue' = RemoveAt(queue, cur) /\ cur' = cur
      BY <1>5, <2>6 DEF Update, c
    <3>2. cur' \in 1 .. Len(queue') + 1
      BY <1>1, <2>1, <2>4, <3>1
    <3> QED
      BY <1>5, <2>3, <2>4, <2>5, <3>1, <3>2 DEF Update, TypeOK
  <2>7. CASE ~ Inside(c, block)
    <3>1. cache' = cache /\ queue' = queue /\ cur' = cur + 1
      BY <1>5, <2>7 DEF Update, c
    <3>2. cur' \in 1 .. Len(queue') + 1
      BY <1>1, <2>1, <3>1
    <3> QED
      BY <1>5, <2>5, <3>1, <3>2 DEF Update, TypeOK
  <2> QED
    BY <2>6, <2>7
<1>6. CASE EndUpdate
  <2>1. ready' \in Seq(Context) /\ cache' \in Seq(Context)
    BY <1>1, <1>6, TakeType DEF EndUpdate
  <2>2. pc' \in {"idle", "grow", "double"}
    BY <1>6 DEF EndUpdate, TypeOK
  <2> QED
    BY <1>6, <2>1, <2>2 DEF EndUpdate, TypeOK, perimeterVars, walkVars
<1>7. CASE Grow
  <2>1. [d \in Dims |-> IF d \in Growing THEN Grown(d) ELSE block[d]] \in [Dims -> 0 .. Word - 1]
    BY BlockArithmetic DEF TypeOK
  <2> QED
    BY <1>7, <2>1, TryBlockType DEF Grow, TypeOK
<1>8. CASE EndGrow
  BY <1>8 DEF EndGrow, TypeOK, listVars, perimeterVars, walkVars
<1>9. CASE Restart
  <2>1. [d \in Dims |-> Least(limit[d], Restarted(d))] \in [Dims -> 0 .. Word - 1]
    BY BlockArithmetic DEF TypeOK, Least
  <2>2. (IF Strategy = "DFS" THEN "grow" ELSE "double") \in {"grow", "double"}
    OBVIOUS
  <2> QED
    BY <1>9, <2>1, <2>2, TryBlockType DEF Restart, TypeOK
<1>10. CASE NoRestart
  BY <1>10 DEF NoRestart, TypeOK, listVars, perimeterVars, walkVars
<1>11. CASE Double
  <2>1. [d \in Dims |-> IF Strategy = "RFS" THEN (limit[d] + Period[d]) % Word
                                           ELSE Restarted(d)] \in [Dims -> 0 .. Word - 1]
    BY BlockArithmetic
  <2>2. [d \in Dims |-> (limit[d] + limit[d]) % Word] \in [Dims -> 0 .. Word - 1]
    BY BlockArithmetic
  <2> QED
    BY <1>11, <2>1, <2>2, TryBlockType DEF Double
<1>12. CASE UNCHANGED vars
  BY <1>12 DEF vars, TypeOK, listVars, perimeterVars, walkVars
<1> QED
  BY <1>2, <1>3, <1>4, <1>5, <1>6, <1>7, <1>8, <1>9, <1>10, <1>11, <1>12 DEF Next

\* Block and limits stay words, and updateQueue's iterator stays in the queue or
\* at its end, whatever is pushed and whenever a pop searches.
THEOREM TypeCorrect == Spec => []TypeOK
<1>1. Init => TypeOK
  BY InitType
<1>2. TypeOK /\ [Next]_vars => TypeOK'
  BY NextType
<1> QED
  BY <1>1, <1>2, PTL DEF Spec

-----------------------------------------------------------------------------
(* The cache and the queue agree with the block. *)

\* Children are pushed between pops, and a pop searches when the cache is empty.
Searching ==
  /\ pc # "idle" => kids = <<>>
  /\ pc \in {"grow", "restart", "double"} => cache = <<>>

BlockInv == TypeOK /\ Partitioned /\ MaxCovers /\ Searching

\* What a pop leaves in the cache was in the cache.
LEMMA TakeLeaves ==
  ASSUME TypeOK, cache # <<>>, Take
  PROVE  \A j \in DOMAIN cache' : \E k \in DOMAIN cache : cache'[j] = cache[k]
<1>1. cache \in Seq(Context) /\ Len(cache) \in Nat /\ DOMAIN cache = 1 .. Len(cache)
  BY LenProperties DEF TypeOK
<1>2. CASE cache' = <<>>
  BY <1>2
<1>3. ASSUME NEW i \in 1 .. Len(cache), cache' = RemoveAt(cache, i)
      PROVE  \A j \in DOMAIN cache' : \E k \in DOMAIN cache : cache'[j] = cache[k]
  <2>1. cache' \in Seq(Context) /\ Len(cache') = Len(cache) - 1
    BY <1>1, <1>3, RemoveAtType
  <2>2. DOMAIN cache' = 1 .. Len(cache) - 1
    BY <2>1, LenProperties
  <2>3. \A j \in 1 .. Len(cache) - 1 : cache'[j] = IF j < i THEN cache[j] ELSE cache[j + 1]
    BY <1>1, <1>3, RemoveAtElements
  <2>4. \A j \in 1 .. Len(cache) - 1 : j \in DOMAIN cache /\ j + 1 \in DOMAIN cache
    BY <1>1
  <2> QED
    BY <2>2, <2>3, <2>4
<1> QED
  BY <1>2, <1>3, TakeEffect

\* A new block: updateQueue has looked at nothing yet, and the cache is empty.
LEMMA TryBlockInv ==
  ASSUME BlockInv, pc \in {"grow", "restart", "double"}, NEW b, NEW next, TryBlock(b, next)
  PROVE  (Partitioned /\ MaxCovers /\ Searching)'
<1>1. cache' = <<>> /\ kids' = <<>> /\ queue' = queue /\ cache' = cache
  BY DEF TryBlock, BlockInv, Searching, listVars
<1>2. pc' = "update" /\ cur' = 1 /\ pushMax' = pushMax
  BY DEF TryBlock
<1>3. DOMAIN queue = 1 .. Len(queue) /\ Len(queue) \in Nat
  BY LenProperties DEF BlockInv, TypeOK
<1>4. Partitioned'
  BY <1>1, <1>2, <1>3 DEF Partitioned
<1>5. MaxCovers'
  BY <1>1, <1>2 DEF MaxCovers, BlockInv, Inside
<1> QED
  BY <1>1, <1>2, <1>4, <1>5 DEF Searching

\* Every step keeps the two lists on their sides of the block.
LEMMA NextPartitioned == BlockInv /\ [Next]_vars => (Partitioned /\ MaxCovers /\ Searching)'
<1> SUFFICES ASSUME BlockInv, [Next]_vars PROVE (Partitioned /\ MaxCovers /\ Searching)'
  OBVIOUS
<1> USE DEF BlockInv
<1>1. /\ cache \in Seq(Context) /\ queue \in Seq(Context) /\ kids \in Seq(Context)
      /\ DOMAIN cache = 1 .. Len(cache) /\ Len(cache) \in Nat
      /\ DOMAIN queue = 1 .. Len(queue) /\ Len(queue) \in Nat
  BY LenProperties DEF TypeOK
<1>2. CASE Evaluate
  BY <1>2 DEF Evaluate, Partitioned, MaxCovers, Searching, Inside, perimeterVars, walkVars
<1>3. CASE Push
  <2> DEFINE c == Head(kids)
  <2>1. pc = "idle" /\ pc' = "idle" /\ block' = block /\ cur' = cur
    BY <1>3 DEF Push, Searching, walkVars
  <2>2. c \in Context
    BY <1>1, <1>3, HeadTailProperties DEF Push
  <2>3. pushMax' = [d \in Dims |-> Greatest(pushMax[d], c[d])]
    BY <1>3 DEF Push
  <2>4. ASSUME NEW e \in Context, e = c \/ Inside(e, pushMax)
        PROVE  Inside(e, pushMax')
    BY <2>2, <2>3, <2>4 DEF Inside, TypeOK, Context, Greatest
  <2> HIDE DEF c
  <2>5. CASE Inside(c, block)
    <3>1. cache' = Append(cache, c) /\ queue' = queue
      BY <1>3, <2>5 DEF Push, c
    <3>2. /\ DOMAIN cache' = 1 .. Len(cache) + 1
          /\ \A i \in 1 .. Len(cache) + 1 : cache'[i] = IF i = Len(cache) + 1 THEN c ELSE cache[i]
      BY <1>1, <2>2, <3>1, AppendProperties
    <3>3. \A i \in DOMAIN cache' : cache'[i] = c \/ \E k \in DOMAIN cache : cache'[i] = cache[k]
      BY <1>1, <3>2
    <3>4. Partitioned'
      BY <2>1, <2>5, <3>1, <3>3 DEF Partitioned, Inside
    <3>5. \A i \in DOMAIN cache' : Inside(cache'[i], pushMax')
      BY <1>1, <2>2, <2>4, <3>3, ElementOfSeq DEF MaxCovers
    <3>6. \A i \in DOMAIN queue' : Inside(queue'[i], pushMax')
      BY <1>1, <2>4, <3>1, ElementOfSeq DEF MaxCovers
    <3> QED
      BY <2>1, <3>4, <3>5, <3>6 DEF MaxCovers, Searching, Inside
  <2>6. CASE ~ Inside(c, block)
    <3>1. queue' = Append(queue, c) /\ cache' = cache
      BY <1>3, <2>6 DEF Push, c
    <3>2. /\ DOMAIN queue' = 1 .. Len(queue) + 1
          /\ \A i \in 1 .. Len(queue) + 1 : queue'[i] = IF i = Len(queue) + 1 THEN c ELSE queue[i]
      BY <1>1, <2>2, <3>1, AppendProperties
    <3>3. \A i \in DOMAIN queue' : queue'[i] = c \/ \E k \in DOMAIN queue : queue'[i] = queue[k]
      BY <1>1, <3>2
    <3>4. Partitioned'
      BY <2>1, <2>6, <3>1, <3>3 DEF Partitioned, Inside
    <3>5. \A i \in DOMAIN queue' : Inside(queue'[i], pushMax')
      BY <1>1, <2>2, <2>4, <3>3, ElementOfSeq DEF MaxCovers
    <3>6. \A i \in DOMAIN cache' : Inside(cache'[i], pushMax')
      BY <1>1, <2>4, <3>1, ElementOfSeq DEF MaxCovers
    <3> QED
      BY <2>1, <3>4, <3>5, <3>6 DEF MaxCovers, Searching, Inside
  <2> QED
    BY <2>5, <2>6
<1>4. CASE Pop
  <2>1. pc = "idle" /\ kids' = kids /\ kids = <<>> /\ queue' = queue
        /\ block' = block /\ pushMax' = pushMax /\ cur' = cur
    BY <1>4 DEF Pop, perimeterVars, walkVars
  <2>2. CASE cache # <<>> /\ Take /\ UNCHANGED pc
    <3>1. \A j \in DOMAIN cache' : \E k \in DOMAIN cache : cache'[j] = cache[k]
      BY <2>2, TakeLeaves
    <3> QED
      BY <2>1, <2>2, <3>1 DEF Partitioned, MaxCovers, Searching, Inside
  <2>3. CASE cache = <<>> /\ pc' = "grow" /\ UNCHANGED <<cache, ready>>
    BY <2>1, <2>3 DEF Partitioned, MaxCovers, Searching, Inside
  <2> QED
    BY <1>4, <2>2, <2>3 DEF Pop
<1>5. CASE Update
  <2> DEFINE c == queue[cur]
  <2>1. /\ pc = "update" /\ pc' = pc /\ kids' = kids
        /\ block' = block /\ pushMax' = pushMax
    BY <1>5 DEF Update
  <2>2. cur \in 1 .. Len(queue) /\ cur \in DOMAIN queue
    BY <1>1, <1>5 DEF Update, TypeOK
  <2>3. c \in Context /\ Inside(c, pushMax)
    BY <1>1, <2>2, ElementOfSeq DEF MaxCovers
  <2> HIDE DEF c
  <2>4. CASE Inside(c, block)
    <3>1. cache' = Append(cache, c) /\ queue' = RemoveAt(queue, cur) /\ cur' = cur
      BY <1>5, <2>4 DEF Update, c
    <3>2. /\ DOMAIN cache' = 1 .. Len(cache) + 1
          /\ \A i \in 1 .. Len(cache) + 1 : cache'[i] = IF i = Len(cache) + 1 THEN c ELSE cache[i]
      BY <1>1, <2>3, <3>1, AppendProperties
    <3>3. \A i \in DOMAIN cache' : cache'[i] = c \/ \E k \in DOMAIN cache : cache'[i] = cache[k]
      BY <1>1, <3>2
    <3>4. queue' \in Seq(Context) /\ Len(queue') = Len(queue) - 1
      BY <1>1, <2>2, <3>1, RemoveAtType
    <3>5. DOMAIN queue' = 1 .. Len(queue) - 1
      BY <3>4, LenProperties
    <3>6. \A i \in 1 .. Len(queue) - 1 :
            queue'[i] = IF i < cur THEN queue[i] ELSE queue[i + 1]
      BY <1>1, <2>2, <3>1, RemoveAtElements
    <3>7. \A i \in DOMAIN queue' : /\ i < cur => i \in DOMAIN queue /\ queue'[i] = queue[i]
                                   /\ \E k \in DOMAIN queue : queue'[i] = queue[k]
      <4>1. ASSUME NEW i \in 1 .. Len(queue) - 1
            PROVE  /\ i \in DOMAIN queue /\ i + 1 \in DOMAIN queue
                   /\ queue'[i] = queue[i] \/ queue'[i] = queue[i + 1]
                   /\ i < cur => queue'[i] = queue[i]
        BY <1>1, <3>6
      <4> QED
        BY <3>5, <4>1
    <3>8. \A i \in DOMAIN cache' : Inside(cache'[i], block)
      BY <2>4, <3>3 DEF Partitioned
    <3>9. \A i \in DOMAIN queue' : i < cur => ~ Inside(queue'[i], block)
      BY <2>1, <3>7 DEF Partitioned
    <3>10. Partitioned'
      BY <2>1, <3>1, <3>8, <3>9 DEF Partitioned, Inside
    <3>11. MaxCovers'
      BY <2>1, <2>3, <3>3, <3>7 DEF MaxCovers, Inside
    <3> QED
      BY <2>1, <3>10, <3>11 DEF Searching
  <2>5. CASE ~ Inside(c, block)
    <3>1. cache' = cache /\ queue' = queue /\ cur' = cur + 1
      BY <1>5, <2>5 DEF Update, c
    <3>2. \A i \in DOMAIN queue : i < cur + 1 => i < cur \/ i = cur
      BY <1>1, <2>2
    <3>3. \A i \in DOMAIN queue : i < cur + 1 => ~ Inside(queue[i], block)
      BY <2>1, <2>5, <3>2 DEF Partitioned, c
    <3> QED
      BY <2>1, <3>1, <3>3 DEF Partitioned, MaxCovers, Searching, Inside
  <2> QED
    BY <2>4, <2>5
<1>6. CASE EndUpdate
  <2>1. /\ pc = "update" /\ kids' = kids /\ kids = <<>> /\ queue' = queue
        /\ block' = block /\ pushMax' = pushMax /\ cur' = cur
    BY <1>6 DEF EndUpdate, Searching, perimeterVars, walkVars
  <2>2. \A i \in DOMAIN queue : i < cur
    BY <1>1, <1>6 DEF EndUpdate, TypeOK
  <2>3. \A i \in DOMAIN queue : ~ Inside(queue[i], block)
    BY <2>1, <2>2 DEF Partitioned
  <2>4. CASE cache = <<>>
    <3>1. cache' = cache
      BY <1>6, <2>4 DEF EndUpdate
    <3> QED
      BY <2>1, <2>3, <2>4, <3>1 DEF Partitioned, MaxCovers, Searching, Inside
  <2>5. CASE cache # <<>>
    <3>1. Take /\ pc' = IF Strategy = "ALL" THEN after ELSE "idle"
      BY <1>6, <2>5 DEF EndUpdate
    <3>2. \A j \in DOMAIN cache' : \E k \in DOMAIN cache : cache'[j] = cache[k]
      BY <2>5, <3>1, TakeLeaves
    <3>3. Strategy = "ALL" => cache' = <<>>
      BY <2>5, <3>1, TakeEffect
    <3> QED
      BY <2>1, <2>3, <3>1, <3>2, <3>3 DEF Partitioned, MaxCovers, Searching, Inside
  <2> QED
    BY <2>4, <2>5
<1>7. CASE Grow
  BY <1>7, TryBlockInv DEF Grow
<1>8. CASE EndGrow
  BY <1>8 DEF EndGrow, Partitioned, MaxCovers, Searching, Inside, listVars, perimeterVars, walkVars
<1>9. CASE Restart
  BY <1>9, TryBlockInv DEF Restart
<1>10. CASE NoRestart
  BY <1>10 DEF NoRestart, Partitioned, MaxCovers, Searching, Inside, listVars, perimeterVars, walkVars
<1>11. CASE Double
  BY <1>11, TryBlockInv DEF Double
<1>12. CASE UNCHANGED vars
  BY <1>12 DEF vars, Partitioned, MaxCovers, Searching, Inside, listVars, perimeterVars, walkVars
<1> QED
  BY <1>2, <1>3, <1>4, <1>5, <1>6, <1>7, <1>8, <1>9, <1>10, <1>11, <1>12 DEF Next

\* The inductive invariant: Searching says when the lists may disagree.
LEMMA BlockInvariant == Spec => []BlockInv
<1>1. Init => BlockInv
  BY InitType DEF Init, BlockInv, Partitioned, MaxCovers, Searching
<1>2. BlockInv /\ [Next]_vars => BlockInv'
  BY NextType, NextPartitioned DEF BlockInv
<1> QED
  BY <1>1, <1>2, PTL DEF Spec

\* At every step between updates the cache holds the waiting contexts inside the
\* block and the queue those outside, for every strategy, configuration and word.
THEOREM CacheMatchesBlock == Spec => []Partitioned
<1>1. BlockInv => Partitioned
  BY DEF BlockInv
<1> QED
  BY <1>1, BlockInvariant, PTL

\* Growing the block up to the largest height and width pushed reaches every
\* waiting context.
THEOREM PushMaxCovers == Spec => []MaxCovers
<1>1. BlockInv => MaxCovers
  BY DEF BlockInv
<1> QED
  BY <1>1, BlockInvariant, PTL

-----------------------------------------------------------------------------
(* BLOCK_RFS exhausts its limits before it doubles them. *)

\* where BLOCK_RFS may be in its loop: it has no restart, and it doubles once the block has grown
\* to the limits
AtLimits ==
  Strategy = "RFS" =>
    /\ pc # "restart" /\ after = "grow"
    /\ pc = "double" => \A d \in Dims : limit[d] <= block[d]

LEMMA StepAtLimits ==
  ASSUME TypeOK, AtLimits, [Next]_vars
  PROVE  AtLimits'
<1> SUFFICES ASSUME Strategy = "RFS", config' = config PROVE AtLimits'
  <2>1. config' = config
    BY DEF Next, vars, Evaluate, Push, Pop, Update, EndUpdate, Grow, EndGrow, Restart, NoRestart, Double,
           TryBlock
  <2> QED
    BY <2>1 DEF AtLimits, Strategy
<1>1. pc # "restart" /\ after = "grow" /\ (pc = "double" => \A d \in Dims : limit[d] <= block[d])
  BY DEF AtLimits
<1>2. ASSUME UNCHANGED <<pc, after, block, limit>> PROVE AtLimits'
  BY <1>1, <1>2 DEF AtLimits, Strategy
<1>3. CASE Evaluate \/ Push \/ Update
  BY <1>2, <1>3 DEF Evaluate, Push, Update, perimeterVars, walkVars
<1>4. CASE Pop \/ EndUpdate
  <2>1. pc' \in {pc, "idle", "grow"} /\ UNCHANGED <<after, block, limit>>
    BY <1>1, <1>4 DEF Pop, EndUpdate, perimeterVars, walkVars
  <2> QED
    BY <1>1, <2>1 DEF AtLimits, Strategy
<1>5. CASE Grow \/ Double
  <2>1. pc' = "update" /\ after' = "grow"
    BY <1>5 DEF Grow, Double, TryBlock
  <2> QED
    BY <2>1 DEF AtLimits
<1>6. CASE EndGrow
  <2>1. pc' = "double" /\ UNCHANGED <<after, block, limit>> /\ Growing = {}
    BY <1>6 DEF EndGrow, perimeterVars, walkVars
  <2>2. ~ \E d \in Dims : block[d] < limit[d]
    BY <2>1 DEF Growing, Dims
  <2>3. \A d \in Dims : block[d] \in Nat /\ limit[d] \in Nat
    BY ConstantTypes DEF TypeOK
  <2>4. \A d \in Dims : limit[d] <= block[d]
    BY <2>2, <2>3
  <2> QED
    BY <1>1, <2>1, <2>4 DEF AtLimits
<1>7. ~ Restart /\ ~ NoRestart
  BY <1>1 DEF Restart, NoRestart
<1>8. CASE UNCHANGED vars
  BY <1>2, <1>8 DEF vars, perimeterVars, walkVars
<1> QED
  BY <1>3, <1>4, <1>5, <1>6, <1>7, <1>8 DEF Next

LEMMA StepLimits ==
  ASSUME BlockInv, AtLimits, [Next]_vars, Strategy = "RFS", limit' # limit, NEW i \in DOMAIN queue
  PROVE  ~ Inside(queue[i], limit)
<1>1. pc = "double"
  BY DEF Next, vars, Evaluate, Push, Pop, Update, EndUpdate, Grow, EndGrow, Restart, NoRestart, Double,
         perimeterVars
<1>2. \A d \in Dims : limit[d] <= block[d]
  BY <1>1 DEF AtLimits
<1>3. ~ Inside(queue[i], block)
  BY <1>1 DEF BlockInv, Partitioned
<1>4. queue[i] \in Context
  BY ElementOfSeq, LenProperties DEF BlockInv, TypeOK
<1>5. \A d \in Dims : block[d] \in Nat /\ limit[d] \in Nat /\ queue[i][d] \in Nat
  BY <1>4, ConstantTypes DEF BlockInv, TypeOK, Context
<1> QED
  BY <1>2, <1>3, <1>5 DEF Inside

\* In every configuration, BLOCK_RFS doubles its limits only when nothing that waits is within them.
THEOREM LimitsExhausted == Spec => LimitsFirst
<1>1. Init => AtLimits
  BY DEF Init, AtLimits
<1>2. BlockInv /\ AtLimits /\ [Next]_vars => AtLimits'
  BY StepAtLimits DEF BlockInv
<1>3. BlockInv /\ AtLimits /\ [Next]_vars =>
        [Strategy = "RFS" /\ limit' # limit => \A i \in DOMAIN queue : ~ Inside(queue[i], limit)]_vars
  BY StepLimits
<1> QED
  BY <1>1, <1>2, <1>3, BlockInvariant, PTL DEF Spec, LimitsFirst

-----------------------------------------------------------------------------
(* The strategies are pools: every column of the graph has one context that waits or is ready. *)

\* No two places of a list, no two contexts of a set, are in the same column.
Single(s) == \A i, j \in 1 .. Len(s) : s[i]["w"] = s[j]["w"] => i = j
Columns(S) == \A x, y \in S : x["w"] = y["w"] => x = y

\* The contexts of a list.
LEMMA HeldOf ==
  ASSUME NEW s \in Seq(Context)
  PROVE  /\ Len(s) \in Nat /\ DOMAIN s = 1 .. Len(s)
         /\ \A i \in 1 .. Len(s) : s[i] \in Held(s) /\ s[i] \in Context
         /\ \A x \in Held(s) : x \in Context /\ \E i \in 1 .. Len(s) : x = s[i]
         /\ s = <<>> => Held(s) = {}
         /\ s # <<>> => Len(s) # 0
<1>1. Len(s) \in Nat /\ DOMAIN s = 1 .. Len(s) /\ (s # <<>> => Len(s) # 0)
  BY LenProperties, EmptySeq
<1>2. \A i \in 1 .. Len(s) : s[i] \in Context
  BY ElementOfSeq
<1>3. s = <<>> => Len(s) = 0
  BY EmptySeq
<1> QED
  BY <1>1, <1>2, <1>3 DEF Held

\* The context at place i is taken out.
LEMMA TakenOut ==
  ASSUME NEW s \in Seq(Context), NEW i \in 1 .. Len(s), Single(s)
  PROVE  Single(RemoveAt(s, i)) /\ Held(RemoveAt(s, i)) = Held(s) \ {s[i]}
<1> DEFINE t == RemoveAt(s, i)
<1>1. t \in Seq(Context) /\ Len(t) = Len(s) - 1 /\ Len(s) \in Nat
  BY RemoveAtType, LenProperties
<1>2. \A j \in 1 .. Len(s) - 1 : t[j] = IF j < i THEN s[j] ELSE s[j + 1]
  BY RemoveAtElements
<1>3. Held(t) \cup {s[i]} = Held(s)
  BY RemoveAtHeld DEF Held
<1> HIDE DEF t
<1>4. PICK at : at = [ j \in 1 .. Len(t) |-> IF j < i THEN j ELSE j + 1 ]
  OBVIOUS
<1>5. \A j \in 1 .. Len(t) : at[j] \in 1 .. Len(s) /\ at[j] # i /\ t[j] = s[at[j]]
  BY <1>1, <1>2, <1>4
<1>6. \A j, k \in 1 .. Len(t) : at[j] = at[k] => j = k
  BY <1>1, <1>4
<1>7. Single(t)
  BY <1>5, <1>6 DEF Single
<1>8. s[i] \notin Held(t)
  <2>1. SUFFICES ASSUME s[i] \in Held(t) PROVE FALSE
    OBVIOUS
  <2>2. PICK j \in 1 .. Len(t) : s[i] = t[j]
    BY <1>1, <2>1, HeldOf
  <2> QED
    BY <1>5, <2>2 DEF Single
<1>9. Held(t) = Held(s) \ {s[i]}
  BY <1>3, <1>8
<1> QED
  BY <1>7, <1>9 DEF t

\* The first context is taken out.
LEMMA FirstOut ==
  ASSUME NEW s \in Seq(Context), s # <<>>, Single(s)
  PROVE  /\ Head(s) \in Held(s) /\ Single(Tail(s)) /\ Held(Tail(s)) = Held(s) \ {Head(s)}
<1> DEFINE t == Tail(s)
<1>1. /\ t \in Seq(Context) /\ Len(t) = Len(s) - 1 /\ Len(s) \in Nat \ {0} /\ Head(s) = s[1]
      /\ \A j \in 1 .. Len(t) : t[j] = s[j + 1]
  BY HeadTailProperties, EmptySeq, LenProperties
<1> HIDE DEF t
<1>2. \A j \in 1 .. Len(t) : j + 1 \in 1 .. Len(s) /\ j + 1 # 1
  BY <1>1
<1>3. Single(t)
  <2> SUFFICES ASSUME NEW j \in 1 .. Len(t), NEW k \in 1 .. Len(t), t[j]["w"] = t[k]["w"] PROVE j = k
    BY DEF Single
  <2>1. s[j + 1]["w"] = s[k + 1]["w"]
    BY <1>1
  <2>2. j + 1 = k + 1
    BY <1>2, <2>1 DEF Single
  <2> QED
    BY <1>1, <2>2
<1>4. 1 \in 1 .. Len(s)
  BY <1>1
<1>5. \A x \in Held(t) : x \in Held(s) /\ x # s[1]
  <2> SUFFICES ASSUME NEW x \in Held(t) PROVE x \in Held(s) /\ x # s[1]
    OBVIOUS
  <2>1. PICK j \in 1 .. Len(t) : x = t[j]
    BY <1>1, HeldOf
  <2>2. x = s[j + 1] /\ j + 1 \in 1 .. Len(s) /\ j + 1 # 1
    BY <1>1, <1>2, <2>1
  <2> QED
    BY <1>4, <2>2, HeldOf DEF Single
<1>6. \A x \in Held(s) : x = s[1] \/ x \in Held(t)
  <2> SUFFICES ASSUME NEW x \in Held(s), x # s[1] PROVE x \in Held(t)
    OBVIOUS
  <2>1. PICK j \in 1 .. Len(s) : x = s[j]
    BY HeldOf
  <2>2. j - 1 \in 1 .. Len(t) /\ (j - 1) + 1 = j
    BY <1>1, <2>1
  <2>3. x = t[j - 1]
    BY <1>1, <2>1, <2>2
  <2> QED
    BY <1>1, <2>2, <2>3, HeldOf
<1>7. Held(t) = Held(s) \ {s[1]} /\ s[1] \in Held(s)
  BY <1>4, <1>5, <1>6, HeldOf
<1> QED
  BY <1>1, <1>3, <1>7 DEF t

\* A context of another column is put in.
LEMMA PutIn ==
  ASSUME NEW s \in Seq(Context), NEW x \in Context, Single(s), \A y \in Held(s) : y["w"] # x["w"]
  PROVE  Single(Append(s, x)) /\ Held(Append(s, x)) = Held(s) \cup {x}
<1> DEFINE t == Append(s, x)
<1>1. /\ t \in Seq(Context) /\ Len(t) = Len(s) + 1 /\ Len(s) \in Nat /\ t[Len(s) + 1] = x
      /\ \A j \in 1 .. Len(s) : t[j] = s[j]
  BY AppendProperties, LenProperties
<1> HIDE DEF t
<1>2. \A j \in 1 .. Len(t) : j \in 1 .. Len(s) \/ j = Len(s) + 1
  BY <1>1
<1>3. \A j \in 1 .. Len(s) : j \in 1 .. Len(t) /\ s[j]["w"] # x["w"]
  BY <1>1, HeldOf
<1>4. Single(t)
  BY <1>1, <1>2, <1>3 DEF Single
<1>5. Len(s) + 1 \in 1 .. Len(t)
  BY <1>1
<1>6. \A y : y \in Held(t) <=> y \in Held(s) \/ y = x
  <2>1. ASSUME NEW y \in Held(t) PROVE y \in Held(s) \/ y = x
    <3>1. PICK j \in 1 .. Len(t) : y = t[j]
      BY <1>1, HeldOf
    <3> QED
      BY <1>1, <1>2, <3>1, HeldOf
  <2>2. ASSUME NEW y \in Held(s) PROVE y \in Held(t)
    <3>1. PICK j \in 1 .. Len(s) : y = s[j]
      BY HeldOf
    <3> QED
      BY <1>1, <1>3, <3>1, HeldOf
  <2>3. x \in Held(t)
    BY <1>1, <1>5, HeldOf
  <2> QED
    BY <2>1, <2>2, <2>3
<1> QED
  BY <1>4, <1>6 DEF t

\* The children of a context: the first is in its column, the others in columns of their own.
LEMMA ChildrenColumns ==
  ASSUME TypeOK, NEW c \in Context, c["w"] <= graphWidth, NEW n \in Nat,
         NEW g \in Nat, g = graphWidth + (IF n = 0 THEN 0 ELSE n - 1)
  PROVE  /\ Single(ChildOrder(Children(c, n)))
         /\ \A x \in Held(ChildOrder(Children(c, n))) :
              /\ x["w"] <= g /\ x["h"] = c["h"] + 1
              /\ x["w"] = c["w"] \/ graphWidth < x["w"]
<1> DEFINE s == Children(c, n)
           t == ChildOrder(s)
<1>1. c["h"] \in Nat /\ c["w"] \in Nat /\ graphWidth \in Nat
  BY DEF Context, Dims, TypeOK
<1>2. s = [ i \in 1 .. n |-> [d \in Dims |-> IF d = "h" THEN c["h"] + 1
                                   ELSE IF i = 1 THEN c["w"] ELSE graphWidth + i - 1] ]
  BY DEF Children
<1>3. \A i \in 1 .. n : /\ s[i]["h"] = c["h"] + 1
                        /\ s[i]["w"] = IF i = 1 THEN c["w"] ELSE graphWidth + i - 1
  BY <1>2 DEF Dims
<1>4. s \in [1 .. n -> Context]
  BY <1>1, <1>2 DEF Context, Dims
<1> HIDE DEF s
<1>5. s \in Seq(Context) /\ Len(s) = n
  BY <1>4, SeqDef, LenProperties
<1>6. Single(s)
  BY <1>1, <1>3, <1>5 DEF Single
<1>7. \A i \in 1 .. n : /\ s[i]["w"] <= g /\ s[i]["h"] = c["h"] + 1
                        /\ s[i]["w"] = c["w"] \/ graphWidth < s[i]["w"]
  BY <1>1, <1>3
<1>8. t = s \/ t = Reverse(s)
  BY DEF ChildOrder
<1>9. Reverse(s) = [ i \in 1 .. n |-> s[n - i + 1] ]
  BY <1>5 DEF Reverse
<1> HIDE DEF t
<1>10. t \in Seq(Context)
  <2>1. \A i \in 1 .. n : n - i + 1 \in 1 .. n
    OBVIOUS
  <2>2. Reverse(s) \in [1 .. n -> Context]
    BY <1>4, <1>9, <2>1
  <2>3. Reverse(s) \in Seq(Context)
    BY <2>2, SeqDef
  <2> QED
    BY <1>5, <1>8, <2>3
<1>11. PICK at : \/ t = s /\ at = [ i \in 1 .. n |-> i ]
                 \/ t = Reverse(s) /\ at = [ i \in 1 .. n |-> n - i + 1 ]
  BY <1>8
<1>12. \A i \in 1 .. n : at[i] \in 1 .. n /\ t[i] = s[at[i]]
  BY <1>9, <1>11
<1>13. \A i, j \in 1 .. n : at[i] = at[j] => i = j
  BY <1>11
<1>14. Len(t) = n
  BY <1>5, <1>8, <1>9, <1>10, LenProperties
<1>15. Single(t)
  BY <1>5, <1>6, <1>12, <1>13, <1>14 DEF Single
<1>16. \A x \in Held(t) : \E i \in 1 .. n : x = s[i]
  BY <1>10, <1>12, <1>14, HeldOf
<1> QED
  BY <1>7, <1>15, <1>16 DEF t, s


\* The contexts that wait, and those the engine still has to evaluate.
Waits == Held(cache) \cup Held(queue) \cup Held(kids)
Live == Waits \cup Held(ready)

\* A live context is in one of the lists, at one place, alone in its column; a search begins
\* when nothing is ready, and only BLOCK_ALL goes on once something is.
Lone ==
  /\ Strategy # "ALL"
  /\ pc # "idle" => ready = <<>>
  /\ Single(cache) /\ Single(queue) /\ Single(kids) /\ Single(ready)
  /\ Held(cache) \cap Held(queue) = {} /\ Held(kids) \cap Held(ready) = {}
  /\ (Held(cache) \cup Held(queue)) \cap (Held(kids) \cup Held(ready)) = {}
  /\ Columns(Live)
  /\ \A x \in Live : x["w"] <= graphWidth

\* Lone needs no more of a step that moves contexts than that it loses and doubles none.
LEMMA MovedLone ==
  ASSUME Lone, Live' = Live, graphWidth' = graphWidth, Strategy' # "ALL",
         pc' # "idle" => ready' = <<>>,
         Single(cache'), Single(queue'), Single(kids'), Single(ready'),
         Held(cache') \cap Held(queue') = {}, Held(kids') \cap Held(ready') = {},
         (Held(cache') \cup Held(queue')) \cap (Held(kids') \cup Held(ready')) = {}
  PROVE  Lone'
<1>1. Columns(Live)' /\ (\A x \in Live : x["w"] <= graphWidth)'
  BY DEF Lone, Columns
<1>2. (Held(cache) \cap Held(queue) = {} /\ Held(kids) \cap Held(ready) = {})'
  BY DEF Held
<1>3. ((Held(cache) \cup Held(queue)) \cap (Held(kids) \cup Held(ready)) = {})'
  BY DEF Held
<1>4. (Single(cache) /\ Single(queue) /\ Single(kids) /\ Single(ready))'
  BY DEF Single
<1> QED
  BY <1>1, <1>2, <1>3, <1>4 DEF Lone

\* Live contexts of two lists are in different columns.
LEMMA OtherColumn ==
  ASSUME Lone, NEW x \in Live, NEW S \in SUBSET Live, x \notin S
  PROVE  \A y \in S : y["w"] # x["w"]
BY DEF Lone, Columns

\* Pushing a child moves it to the cache or to the queue.
LEMMA PushLone ==
  ASSUME BlockInv, Lone, Push
  PROVE  Lone' /\ Waits' = Waits /\ ready' = ready
<1> DEFINE x == Head(kids)
<1>1. /\ kids # <<>> /\ kids' = Tail(kids) /\ ready' = ready /\ pc' = pc
      /\ graphWidth' = graphWidth /\ config' = config
      /\ \/ cache' = Append(cache, x) /\ queue' = queue
         \/ queue' = Append(queue, x) /\ cache' = cache
  BY DEF Push
<1>2. cache \in Seq(Context) /\ queue \in Seq(Context) /\ kids \in Seq(Context)
  BY DEF BlockInv, TypeOK
<1>3. /\ x \in Held(kids) /\ Single(kids') /\ Held(kids') = Held(kids) \ {x}
  BY <1>1, <1>2, FirstOut DEF Lone
<1> HIDE DEF x
<1>4. x \in Context /\ x \in Live /\ x \notin Held(cache) /\ x \notin Held(queue) /\ x \notin Held(ready)
  BY <1>2, <1>3, HeldOf DEF Lone, Live, Waits
<1>5. /\ \A y \in Held(cache) : y["w"] # x["w"]
      /\ \A y \in Held(queue) : y["w"] # x["w"]
  <2>1. Held(cache) \in SUBSET Live /\ Held(queue) \in SUBSET Live
    BY DEF Live, Waits
  <2> QED
    BY <1>4, <2>1, OtherColumn
<1>6. \/ Single(cache') /\ Held(cache') = Held(cache) \cup {x} /\ Single(queue') /\ Held(queue') = Held(queue)
      \/ Single(queue') /\ Held(queue') = Held(queue) \cup {x} /\ Single(cache') /\ Held(cache') = Held(cache)
  <2>1. /\ Single(cache) /\ Single(queue)
        /\ Single(Append(cache, x)) /\ Held(Append(cache, x)) = Held(cache) \cup {x}
        /\ Single(Append(queue, x)) /\ Held(Append(queue, x)) = Held(queue) \cup {x}
    BY <1>2, <1>4, <1>5, PutIn DEF Lone
  <2> QED
    BY <1>1, <2>1
<1>7. Waits' = Held(cache') \cup Held(queue') \cup Held(kids') /\ Live' = Waits' \cup Held(ready')
  BY DEF Waits, Live, Held
<1>8. Waits' = Waits
  BY <1>3, <1>6, <1>7 DEF Waits
<1>9. Live' = Live
  BY <1>1, <1>7, <1>8 DEF Live
<1>10. /\ Held(cache') \cap Held(queue') = {} /\ Held(kids') \cap Held(ready') = {}
       /\ (Held(cache') \cup Held(queue')) \cap (Held(kids') \cup Held(ready')) = {}
  BY <1>1, <1>3, <1>4, <1>6 DEF Lone
<1>11. Strategy' # "ALL" /\ (pc' # "idle" => ready' = <<>>) /\ Single(ready')
  BY <1>1 DEF Lone, Strategy
<1> QED
  BY <1>1, <1>3, <1>6, <1>8, <1>9, <1>10, <1>11, MovedLone


\* updateQueue moves a context from the queue to the cache.
LEMMA UpdateLone ==
  ASSUME BlockInv, Lone, Update
  PROVE  Lone' /\ Waits' = Waits /\ ready' = ready
<1> DEFINE x == queue[cur]
<1>1. /\ kids' = kids /\ ready' = ready /\ pc' = pc
      /\ graphWidth' = graphWidth /\ config' = config
      /\ \/ cache' = Append(cache, x) /\ queue' = RemoveAt(queue, cur)
         \/ queue' = queue /\ cache' = cache
  BY DEF Update
<1>2. cache \in Seq(Context) /\ queue \in Seq(Context) /\ cur \in 1 .. Len(queue)
  BY LenProperties DEF Update, BlockInv, TypeOK
<1>3. /\ x \in Held(queue) /\ x \in Context
      /\ Single(RemoveAt(queue, cur)) /\ Held(RemoveAt(queue, cur)) = Held(queue) \ {x}
  BY <1>2, HeldOf, TakenOut DEF Lone
<1> HIDE DEF x
<1>4. x \in Live /\ x \notin Held(cache) /\ x \notin Held(kids) /\ x \notin Held(ready)
  BY <1>3 DEF Lone, Live, Waits
<1>5. \A y \in Held(cache) : y["w"] # x["w"]
  <2>1. Held(cache) \in SUBSET Live
    BY DEF Live, Waits
  <2> QED
    BY <1>4, <2>1, OtherColumn
<1>6. Single(Append(cache, x)) /\ Held(Append(cache, x)) = Held(cache) \cup {x}
  BY <1>2, <1>3, <1>5, PutIn DEF Lone
<1>7. /\ Single(cache') /\ Single(queue')
      /\ \/ Held(cache') = Held(cache) \cup {x} /\ Held(queue') = Held(queue) \ {x}
         \/ Held(cache') = Held(cache) /\ Held(queue') = Held(queue)
  <2>1. Single(cache) /\ Single(queue)
    BY DEF Lone
  <2> QED
    BY <1>1, <1>3, <1>6, <2>1
<1>8. Waits' = Held(cache') \cup Held(queue') \cup Held(kids') /\ Live' = Waits' \cup Held(ready')
  BY DEF Waits, Live, Held
<1>9. Waits' = Waits
  BY <1>1, <1>3, <1>7, <1>8 DEF Waits
<1>10. Live' = Live
  BY <1>1, <1>8, <1>9 DEF Live
<1>11. /\ Held(cache') \cap Held(queue') = {} /\ Held(kids') \cap Held(ready') = {}
       /\ (Held(cache') \cup Held(queue')) \cap (Held(kids') \cup Held(ready')) = {}
  BY <1>1, <1>3, <1>4, <1>7 DEF Lone
<1>12. Strategy' # "ALL" /\ (pc' # "idle" => ready' = <<>>) /\ Single(ready') /\ Single(kids')
  BY <1>1 DEF Lone, Strategy
<1> QED
  BY <1>1, <1>7, <1>9, <1>10, <1>11, <1>12, MovedLone

\* A pop moves one context from the cache to the ready list, which is empty.
LEMMA TakeLone ==
  ASSUME BlockInv, Lone, cache # <<>>, ready = <<>>, Take, pc' = "idle",
         UNCHANGED <<config, queue, kids, graphWidth>>
  PROVE  /\ Lone' /\ Held(ready) = {}
         /\ \E x \in Waits : Waits' = Waits \ {x} /\ Held(ready') = {x}
<1>1. /\ kids' = kids /\ queue' = queue /\ graphWidth' = graphWidth /\ config' = config
  OBVIOUS
<1>2. PICK i \in 1 .. Len(cache) : ready' = Append(ready, cache[i]) /\ cache' = RemoveAt(cache, i)
  BY TakeEffect DEF BlockInv, Lone
<1>3. PICK x : x = cache[i]
  OBVIOUS
<1>4. cache \in Seq(Context) /\ ready \in Seq(Context)
  BY DEF BlockInv, TypeOK
<1>5. /\ x \in Held(cache) /\ x \in Context /\ Held(ready) = {}
  BY <1>2, <1>3, <1>4, HeldOf
<1>6. Single(cache') /\ Held(cache') = Held(cache) \ {x}
  <2>1. Single(RemoveAt(cache, i)) /\ Held(RemoveAt(cache, i)) = Held(cache) \ {x}
    BY <1>2, <1>3, <1>4, TakenOut DEF Lone
  <2> QED
    BY <1>2, <2>1
<1>7. Single(ready') /\ Held(ready') = {x}
  <2>1. Single(Append(ready, x)) /\ Held(Append(ready, x)) = Held(ready) \cup {x}
    BY <1>4, <1>5, PutIn DEF Lone
  <2> QED
    BY <1>2, <1>3, <1>5, <2>1
<1>8. x \in Live /\ x \notin Held(queue) /\ x \notin Held(kids)
  BY <1>5 DEF Lone, Live, Waits
<1>9. Waits' = Held(cache') \cup Held(queue') \cup Held(kids') /\ Live' = Waits' \cup Held(ready')
  BY DEF Waits, Live, Held
<1>10. x \in Waits /\ Waits' = Waits \ {x}
  BY <1>1, <1>5, <1>6, <1>8, <1>9 DEF Waits
<1>11. Live' = Live
  BY <1>5, <1>7, <1>9, <1>10 DEF Live
<1>12. /\ Held(cache') \cap Held(queue') = {} /\ Held(kids') \cap Held(ready') = {}
       /\ (Held(cache') \cup Held(queue')) \cap (Held(kids') \cup Held(ready')) = {}
  BY <1>1, <1>5, <1>6, <1>7, <1>8 DEF Lone
<1>13. Strategy' # "ALL" /\ Single(queue') /\ Single(kids')
  BY <1>1 DEF Lone, Strategy
<1>14. Lone'
  BY <1>1, <1>6, <1>7, <1>11, <1>12, <1>13, MovedLone
<1> QED
  BY <1>5, <1>7, <1>10, <1>14

\* The children of the context that is evaluated take its column and new ones.
LEMMA EvaluateLone ==
  ASSUME BlockInv, Lone, Evaluate
  PROVE  /\ Lone' /\ Waits \subseteq Waits' /\ Waits' \cap Held(ready) = {}
         /\ \E x \in Held(ready) : Held(ready') = Held(ready) \ {x}
<1>1. /\ pc = "idle" /\ pc' = "idle" /\ kids = <<>> /\ ready # <<>> /\ ready' = Tail(ready)
      /\ cache' = cache /\ queue' = queue /\ config' = config
  BY DEF Evaluate
<1>2. PICK x : x = Head(ready)
  OBVIOUS
<1>3. /\ cache \in Seq(Context) /\ queue \in Seq(Context) /\ kids \in Seq(Context)
      /\ ready \in Seq(Context) /\ graphWidth \in Nat
  BY DEF BlockInv, TypeOK
<1>4. x \in Held(ready) /\ Single(ready') /\ Held(ready') = Held(ready) \ {x}
  <2>1. Head(ready) \in Held(ready) /\ Single(Tail(ready)) /\ Held(Tail(ready)) = Held(ready) \ {Head(ready)}
    BY <1>1, <1>3, FirstOut DEF Lone
  <2> QED
    BY <1>1, <1>2, <2>1
<1>5. x \in Context /\ Held(kids) = {}
  BY <1>1, <1>3, <1>4, HeldOf
<1>6. PICK n \in 0 .. MaxKids :
        /\ graphWidth' = graphWidth + (IF n = 0 THEN 0 ELSE n - 1)
        /\ kids' = ChildOrder(Children(x, n))
  BY <1>2 DEF Evaluate
<1>7. n \in Nat /\ graphWidth' \in Nat /\ graphWidth <= graphWidth'
  BY <1>3, <1>6, ConstantTypes
<1>8. x \in Live /\ x["w"] <= graphWidth
  BY <1>4 DEF Lone, Live
<1>9. PICK k : k = ChildOrder(Children(x, n))
  OBVIOUS
<1>10. /\ Single(k)
       /\ \A y \in Held(k) : /\ y["w"] <= graphWidth' /\ y["h"] = x["h"] + 1
                             /\ y["w"] = x["w"] \/ graphWidth < y["w"]
  BY <1>5, <1>6, <1>7, <1>8, <1>9, ChildrenColumns DEF BlockInv
<1>11. k \in Seq(Context)
  BY <1>5, <1>7, <1>9, ChildrenType DEF BlockInv
<1>12. \A y \in Live : y \in Context /\ y["w"] \in Nat /\ y["h"] \in Nat
  BY <1>3, HeldOf DEF Live, Waits, Context, Dims
<1>13. \A y \in Held(k) : y["w"] \in Nat
  BY <1>11, HeldOf DEF Context, Dims
<1>14. ASSUME NEW y \in Held(k), NEW z \in Live, z # x PROVE y["w"] # z["w"]
  <2>1. z["w"] # x["w"] /\ z["w"] <= graphWidth
    BY <1>8, <1>14 DEF Lone, Columns
  <2> QED
    BY <1>3, <1>10, <1>12, <1>13, <2>1
<1>15. \A y \in Held(k) : y # x
  BY <1>8, <1>10, <1>12
<1>16. \A y \in Held(k) : y \notin Live
  BY <1>14, <1>15
<1>17. kids' = k
  BY <1>6, <1>9
<1>18. /\ Held(cache') = Held(cache) /\ Held(queue') = Held(queue) /\ Held(kids') = Held(k)
       /\ Single(cache') /\ Single(queue') /\ Single(kids')
  BY <1>1, <1>10, <1>17 DEF Lone
<1>19. Waits' = Held(cache') \cup Held(queue') \cup Held(kids') /\ Live' = Waits' \cup Held(ready')
  BY DEF Waits, Live, Held
<1>20. Waits' = Waits \cup Held(k)
  BY <1>5, <1>18, <1>19 DEF Waits
<1>21. x \notin Waits /\ Waits \cap Held(ready) = {}
  BY <1>4, <1>5 DEF Lone, Waits
<1>22. Live' = (Live \ {x}) \cup Held(k)
  BY <1>4, <1>19, <1>20, <1>21 DEF Live
<1>23. Waits' \cap Held(ready) = {} /\ Waits \subseteq Waits'
  BY <1>16, <1>20, <1>21 DEF Live
<1>24. Columns(Live')
  <2>1. \A y, z \in Held(k) : y["w"] = z["w"] => y = z
    BY <1>10, <1>11, HeldOf DEF Single
  <2>2. \A y, z \in Live : y["w"] = z["w"] => y = z
    BY DEF Lone, Columns
  <2> QED
    BY <1>14, <1>22, <2>1, <2>2 DEF Columns
<1>25. \A y \in Live' : y["w"] <= graphWidth'
  BY <1>3, <1>7, <1>10, <1>12, <1>22 DEF Lone
<1>26. Held(cache') \cap Held(queue') = {} /\ Held(kids') \cap Held(ready') = {}
       /\ (Held(cache') \cup Held(queue')) \cap (Held(kids') \cup Held(ready')) = {}
  BY <1>4, <1>16, <1>18 DEF Lone, Live, Waits
<1>27. Lone'
  <2>1. (\A y \in Live : y["w"] <= graphWidth)' /\ Columns(Live)'
    BY <1>24, <1>25 DEF Columns
  <2>2. (Held(cache) \cap Held(queue) = {} /\ Held(kids) \cap Held(ready) = {})'
    BY <1>26 DEF Held
  <2>3. ((Held(cache) \cup Held(queue)) \cap (Held(kids) \cup Held(ready)) = {})'
    BY <1>26 DEF Held
  <2>4. (Single(cache) /\ Single(queue) /\ Single(kids) /\ Single(ready))'
    BY <1>4, <1>18 DEF Single
  <2>5. (Strategy # "ALL" /\ (pc # "idle" => ready = <<>>))'
    BY <1>1 DEF Lone, Strategy
  <2> QED
    BY <2>1, <2>2, <2>3, <2>4, <2>5 DEF Lone
<1> QED
  BY <1>4, <1>23, <1>27


\* Every step of the strategy is a step of the pool, or none, and keeps Lone.
LEMMA NextLone ==
  ASSUME BlockInv, Lone, [Next]_vars
  PROVE  Lone' /\ [Pool!Next]_(Pool!vars)
<1>1. ASSUME Waits' = Waits, ready' = ready PROVE [Pool!Next]_(Pool!vars)
  <2>1. (Held(cache) \cup Held(queue) \cup Held(kids))' = Held(cache) \cup Held(queue) \cup Held(kids)
    BY <1>1 DEF Waits
  <2>2. Held(ready)' = Held(ready)
    BY <1>1 DEF Held
  <2> QED
    BY <2>1, <2>2 DEF Pool!vars
<1>2. ASSUME Held(ready) = {}, NEW x \in Waits, Waits' = Waits \ {x}, Held(ready') = {x}
      PROVE  [Pool!Next]_(Pool!vars)
  <2>1. {x} \in (SUBSET Waits) \ {{}}
    OBVIOUS
  <2>2. Held(ready)' = {x}
    BY <1>2 DEF Held
  <2>3. Pool!Pop
    BY <1>2, <2>1, <2>2 DEF Pool!Pop, Waits
  <2> QED
    BY <2>3 DEF Pool!Next
<1>3. ASSUME Waits \subseteq Waits', Waits' \cap Held(ready) = {},
             NEW x \in Held(ready), Held(ready') = Held(ready) \ {x}
      PROVE  [Pool!Next]_(Pool!vars)
  <2>1. Held(ready)' = Held(ready) \ {x}
    BY <1>3 DEF Held
  <2>2. Pool!Evaluate
    BY <1>3, <2>1 DEF Pool!Evaluate, Waits
  <2> QED
    BY <2>2 DEF Pool!Next
<1>4. ASSUME UNCHANGED <<config, listVars, graphWidth>>, pc' # "idle" => pc # "idle" \/ ready = <<>>
      PROVE  Lone' /\ [Pool!Next]_(Pool!vars)
  <2>1. Lone'
    <3>1. cache' = cache /\ queue' = queue /\ kids' = kids /\ ready' = ready /\ graphWidth' = graphWidth
      BY <1>4 DEF listVars
    <3>2. Live' = Live
      BY <3>1 DEF Live, Waits, Held
    <3>3. Strategy' # "ALL" /\ (pc' # "idle" => ready' = <<>>)
      BY <1>4, <3>1 DEF Lone, Strategy
    <3>4. Single(cache') /\ Single(queue') /\ Single(kids') /\ Single(ready')
      BY <3>1 DEF Lone
    <3>5. /\ Held(cache') \cap Held(queue') = {} /\ Held(kids') \cap Held(ready') = {}
          /\ (Held(cache') \cup Held(queue')) \cap (Held(kids') \cup Held(ready')) = {}
      BY <3>1 DEF Lone
    <3> QED
      BY <3>1, <3>2, <3>3, <3>4, <3>5, MovedLone
  <2>2. Waits' = Waits /\ ready' = ready
    BY <1>4 DEF Waits, Held, listVars
  <2> QED
    BY <1>1, <2>1, <2>2
<1>5. CASE Evaluate
  BY <1>3, <1>5, EvaluateLone
<1>6. CASE Push
  BY <1>1, <1>6, PushLone
<1>7. CASE Update
  BY <1>1, <1>7, UpdateLone
<1>8. CASE Pop
  <2>1. CASE cache # <<>> /\ Take /\ UNCHANGED pc
    <3>1. ready = <<>> /\ pc' = "idle" /\ UNCHANGED <<config, queue, kids, graphWidth>>
      BY <1>8, <2>1 DEF Pop
    <3> QED
      BY <1>2, <2>1, <3>1, TakeLone
  <2>2. CASE pc' = "grow" /\ UNCHANGED <<cache, ready>>
    <3>1. ready = <<>> /\ UNCHANGED <<config, listVars, graphWidth>>
      BY <1>8, <2>2 DEF Pop, listVars
    <3> QED
      BY <1>4, <3>1
  <2> QED
    BY <1>8, <2>1, <2>2 DEF Pop
<1>9. CASE EndUpdate
  <2>1. pc # "idle" /\ ready = <<>> /\ UNCHANGED <<config, queue, kids, graphWidth>>
    BY <1>9 DEF EndUpdate, Lone
  <2>2. CASE cache = <<>>
    <3>1. UNCHANGED <<config, listVars, graphWidth>>
      BY <1>9, <2>1, <2>2 DEF EndUpdate, listVars
    <3> QED
      BY <1>4, <2>1, <3>1
  <2>3. CASE cache # <<>>
    <3>1. Take /\ pc' = "idle"
      BY <1>9, <2>3 DEF EndUpdate, Lone
    <3> QED
      BY <1>2, <2>1, <2>3, <3>1, TakeLone
  <2> QED
    BY <2>2, <2>3
<1>10. CASE Grow \/ Restart \/ Double
  <2>1. UNCHANGED <<config, listVars, graphWidth>> /\ pc # "idle"
    BY <1>10 DEF Grow, Restart, Double, TryBlock
  <2> QED
    BY <1>4, <2>1
<1>11. CASE EndGrow \/ NoRestart
  <2>1. UNCHANGED <<config, listVars, graphWidth>> /\ pc # "idle"
    BY <1>11 DEF EndGrow, NoRestart
  <2> QED
    BY <1>4, <2>1
<1>12. CASE UNCHANGED vars
  BY <1>4, <1>12 DEF vars
<1> QED
  BY <1>5, <1>6, <1>7, <1>8, <1>9, <1>10, <1>11, <1>12 DEF Next

\* At first the root waits alone.
LEMMA InitLone == Init /\ Strategy # "ALL" => Lone /\ Pool!Init
<1> SUFFICES ASSUME Init, Strategy # "ALL" PROVE Lone /\ Pool!Init
  OBVIOUS
<1>1. cache = <<>> /\ queue = <<>> /\ ready = <<>> /\ kids = <<Root>> /\ pc = "idle" /\ graphWidth = 1
  BY DEF Init
<1>2. Root \in Context /\ Root["w"] = 1
  BY DEF Root, Context, Dims
<1>3. PICK r : r = Root
  OBVIOUS
<1>4. r \in Context /\ r["w"] = 1 /\ kids = <<r>>
  BY <1>1, <1>2, <1>3
<1>5. Held(cache) = {} /\ Held(queue) = {} /\ Held(ready) = {} /\ Held(kids) = {r}
  BY <1>1, <1>4 DEF Held
<1>6. Single(cache) /\ Single(queue) /\ Single(ready) /\ Single(kids)
  BY <1>1, <1>4 DEF Single
<1>7. Live = {r} /\ Waits = {r}
  BY <1>5 DEF Live, Waits
<1>8. Columns(Live) /\ \A x \in Live : x["w"] <= graphWidth
  BY <1>1, <1>4, <1>7 DEF Columns
<1>9. Lone
  BY <1>1, <1>5, <1>6, <1>8 DEF Lone
<1>10. Pool!Init
  BY <1>5 DEF Pool!Init
<1> QED
  BY <1>9, <1>10

\* The safety part of ImplementsPool: whatever the block and wherever updateQueue stands, no context
\* is lost or doubled between cache and queue, and a pop takes one that waits when none is ready.
\* BLOCK_ALL, whose pop takes several times before it returns, is not a pool in this sense.
THEOREM BlockIsPool == Spec /\ Strategy # "ALL" => Pool!Init /\ [][Pool!Next]_(Pool!vars)
<1>1. Init /\ Strategy # "ALL" => BlockInv /\ Lone /\ Pool!Init
  BY InitType, InitLone DEF Init, BlockInv, Partitioned, MaxCovers, Searching
<1>2. BlockInv /\ Lone /\ [Next]_vars => Lone' /\ [Pool!Next]_(Pool!vars)
  BY NextLone
<1> QED
  BY <1>1, <1>2, BlockInvariant, PTL DEF Spec
=============================================================================
