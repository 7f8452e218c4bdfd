----------------------- MODULE MessageExchangeProofs -----------------------
(***************************************************************************)
(* Theorems about the exchange of messages.  Each action is one of a few   *)
(* kinds of steps, by what it does to the buffers; the invariants are then *)
(* shown for each kind.                                                    *)
(***************************************************************************)
EXTENDS MessageExchange, ListLemmas, FiniteSetTheorems

-----------------------------------------------------------------------------
(* What the operations on a buffer return, for every policy. *)

\* The list t is what is left of the list s, in the same order.
Part(t, s) ==
  /\ Len(t) <= Len(s)
  /\ \E f \in [1 .. Len(t) -> 1 .. Len(s)] :
       /\ \A i, j \in 1 .. Len(t) : i < j => f[i] < f[j]
       /\ \A i \in 1 .. Len(t) : t[i] = s[f[i]]

\* A list is a part of itself.
LEMMA PartOfItself ==
  ASSUME NEW S, NEW s \in Seq(S)
  PROVE  Part(s, s)
<1>1. Len(s) \in Nat
  BY LenProperties
<1>2. PICK f : f = [ i \in 1 .. Len(s) |-> i ]
  OBVIOUS
<1>3. /\ f \in [1 .. Len(s) -> 1 .. Len(s)]
      /\ \A i, j \in 1 .. Len(s) : i < j => f[i] < f[j]
      /\ \A i \in 1 .. Len(s) : s[i] = s[f[i]]
  BY <1>2
<1> QED
  BY <1>1, <1>3 DEF Part

\* The empty list is a part of every list.
LEMMA EmptyPart ==
  ASSUME NEW S, NEW s \in Seq(S)
  PROVE  Part(<<>>, s)
<1>1. Len(<<>>) = 0 /\ 0 <= Len(s)
  BY LenProperties, EmptySeq
<1>2. PICK f : f = [ i \in 1 .. 0 |-> 1 ]
  OBVIOUS
<1>3. /\ f \in [1 .. 0 -> 1 .. Len(s)]
      /\ \A i, j \in 1 .. 0 : i < j => f[i] < f[j]
      /\ \A i \in 1 .. 0 : <<>>[i] = s[f[i]]
  BY <1>2
<1> QED
  BY <1>1, <1>3 DEF Part

\* The places a number of messages on, or from the first, are a part.
LEMMA SegmentPart ==
  ASSUME NEW S, NEW s \in Seq(S), NEW n \in Nat, NEW k \in Nat, k + n <= Len(s)
  PROVE  /\ SubSeq(s, k + 1, k + n) \in Seq(S) /\ Len(SubSeq(s, k + 1, k + n)) = n
         /\ Part(SubSeq(s, k + 1, k + n), s)
<1> DEFINE t == SubSeq(s, k + 1, k + n)
<1>1. Len(s) \in Nat /\ \A i \in 1 .. Len(s) : s[i] \in S
  BY LenProperties, ElementOfSeq
<1>2. \A i \in k + 1 .. k + n : s[i] \in S
  BY <1>1
<1>3. /\ t \in Seq(S) /\ Len(t) = IF k + 1 <= k + n THEN k + n - (k + 1) + 1 ELSE 0
      /\ \A i \in 1 .. k + n - (k + 1) + 1 : t[i] = s[k + 1 + i - 1]
  BY <1>2, SubSeqProperties
<1> HIDE DEF t
<1>4. Len(t) = n /\ n <= Len(s) /\ \A i \in 1 .. n : t[i] = s[k + i]
  BY <1>1, <1>3
<1>5. PICK f : f = [ i \in 1 .. n |-> k + i ]
  OBVIOUS
<1>6. /\ f \in [1 .. n -> 1 .. Len(s)]
      /\ \A i, j \in 1 .. n : i < j => f[i] < f[j]
      /\ \A i \in 1 .. n : t[i] = s[f[i]]
  BY <1>1, <1>4, <1>5
<1>7. Part(t, s)
  BY <1>1, <1>4, <1>6 DEF Part
<1> QED
  BY <1>3, <1>4, <1>7 DEF t

\* The last messages are a part.
LEMMA LastPart ==
  ASSUME NEW S, NEW s \in Seq(S), NEW n \in Nat, ~ (Len(s) <= n)
  PROVE  /\ SubSeq(s, Len(s) - n + 1, Len(s)) \in Seq(S)
         /\ Len(SubSeq(s, Len(s) - n + 1, Len(s))) = n
         /\ Part(SubSeq(s, Len(s) - n + 1, Len(s)), s)
<1> DEFINE k == Len(s) - n
<1>1. Len(s) \in Nat
  BY LenProperties
<1>2. k \in Nat /\ k + n = Len(s) /\ k + n <= Len(s)
  BY <1>1
<1>3. k + 1 = Len(s) - n + 1
  OBVIOUS
<1> HIDE DEF k
<1>4. /\ SubSeq(s, k + 1, k + n) \in Seq(S) /\ Len(SubSeq(s, k + 1, k + n)) = n
      /\ Part(SubSeq(s, k + 1, k + n), s)
  BY <1>2, SegmentPart
<1> QED
  BY <1>2, <1>3, <1>4, Zenon

\* What an erasure leaves is a part.
LEMMA RemoveAtPart ==
  ASSUME NEW S, NEW s \in Seq(S), NEW k \in 1 .. Len(s)
  PROVE  Part(RemoveAt(s, k), s)
<1> DEFINE t == RemoveAt(s, k)
<1>1. Len(s) \in Nat /\ t \in Seq(S) /\ Len(t) = Len(s) - 1
  BY LenProperties, RemoveAtType
<1>2. \A i \in 1 .. Len(s) - 1 : t[i] = IF i < k THEN s[i] ELSE s[i + 1]
  BY RemoveAtElements
<1> HIDE DEF t
<1>3. PICK f : f = [ i \in 1 .. Len(t) |-> IF i < k THEN i ELSE i + 1 ]
  OBVIOUS
<1>4. /\ f \in [1 .. Len(t) -> 1 .. Len(s)]
      /\ \A i, j \in 1 .. Len(t) : i < j => f[i] < f[j]
      /\ \A i \in 1 .. Len(t) : t[i] = s[f[i]]
  BY <1>1, <1>2, <1>3
<1>5. Len(t) <= Len(s)
  BY <1>1
<1>6. Part(t, s)
  BY <1>4, <1>5 DEF Part
<1> QED
  BY <1>6 DEF t

\* The lists that keep some places are parts.
LEMMA KeptPart ==
  ASSUME NEW S, NEW s \in Seq(S), NEW K \in SUBSET DOMAIN s, NEW t \in Kept(s, K)
  PROVE  t \in Seq(S) /\ Part(t, s)
<1>1. Len(s) \in Nat /\ DOMAIN s = 1 .. Len(s)
  BY LenProperties
<1>2. /\ IsFiniteSet(1 .. Len(s))
      /\ Cardinality(1 .. Len(s)) = IF 1 > Len(s) THEN 0 ELSE Len(s) - 1 + 1
  BY <1>1, FS_Interval
<1>3. IsFiniteSet(K) /\ Cardinality(K) <= Cardinality(1 .. Len(s))
  BY <1>1, <1>2, FS_Subset
<1>4. Cardinality(K) \in Nat
  BY <1>3, FS_CardinalityType
<1>5. Cardinality(K) <= Len(s)
  BY <1>1, <1>2, <1>3, <1>4
<1>6. PICK f \in [1 .. Cardinality(K) -> K] :
        /\ \A i, j \in DOMAIN f : i < j => f[i] < f[j]
        /\ t = [ n \in DOMAIN f |-> s[f[n]] ]
  BY DEF Kept
<1>7. /\ t = [ n \in 1 .. Cardinality(K) |-> s[f[n]] ]
      /\ \A i, j \in 1 .. Cardinality(K) : i < j => f[i] < f[j]
      /\ f \in [1 .. Cardinality(K) -> 1 .. Len(s)]
  BY <1>1, <1>6
<1>8. \A i \in 1 .. Cardinality(K) : s[f[i]] \in S
  BY <1>7, ElementOfSeq
<1>9. t \in [1 .. Cardinality(K) -> S]
  BY <1>7, <1>8
<1>10. t \in Seq(S) /\ Len(t) = Cardinality(K)
  BY <1>4, <1>9, SeqDef, LenProperties
<1>11. Part(t, s)
  BY <1>5, <1>7, <1>10 DEF Part
<1> QED
  BY <1>10, <1>11

-----------------------------------------------------------------------------
\* Buffers of messages of a set M, and what an operation makes of one: some messages leave, and
\* a queue that was within its capacity still is; or the message m comes in, at the end.
BufferOf(M) == [ msgs : Seq(M), cap : Nat ]
Shrunk(p, new, old) ==
  /\ Part(new.msgs, old.msgs)
  /\ p \in Queues /\ Len(old.msgs) <= old.cap => Len(new.msgs) <= new.cap
Grown(p, new, old, m) ==
  \/ new = old
  \/ /\ new.cap = old.cap
     /\ \/ p = "RAM" /\ new.msgs = <<m>>
        \/ p # "RAM" /\ Len(old.msgs) < old.cap /\ new.msgs = Append(old.msgs, m)

\* The fields of a buffer.
LEMMA BufferFields ==
  ASSUME NEW M, NEW b \in BufferOf(M)
  PROVE  /\ b.msgs \in Seq(M) /\ b.cap \in Nat /\ Len(b.msgs) \in Nat
         /\ DOMAIN b.msgs = 1 .. Len(b.msgs)
         /\ \A t \in Seq(M), n \in Nat : /\ [b EXCEPT !.msgs = t] \in BufferOf(M)
                                       /\ [b EXCEPT !.cap = n, !.msgs = t] \in BufferOf(M)
<1>1. b.msgs \in Seq(M) /\ b.cap \in Nat
  BY DEF BufferOf
<1>2. Len(b.msgs) \in Nat /\ DOMAIN b.msgs = 1 .. Len(b.msgs)
  BY <1>1, LenProperties
<1>3. ASSUME NEW t \in Seq(M), NEW n \in Nat
      PROVE  [b EXCEPT !.msgs = t] \in BufferOf(M) /\ [b EXCEPT !.cap = n, !.msgs = t] \in BufferOf(M)
  BY DEF BufferOf
<1> QED
  BY <1>1, <1>2, <1>3

\* A buffer whose list is replaced by a part of it has shrunk.
LEMMA PartShrunk ==
  ASSUME NEW M, NEW p, NEW b \in BufferOf(M), NEW t \in Seq(M), Part(t, b.msgs)
  PROVE  [b EXCEPT !.msgs = t] \in BufferOf(M) /\ Shrunk(p, [b EXCEPT !.msgs = t], b)
<1> DEFINE new == [b EXCEPT !.msgs = t]
<1>1. new \in BufferOf(M) /\ new.msgs = t /\ new.cap = b.cap
  BY BufferFields DEF BufferOf
<1>2. Len(t) \in Nat /\ Len(b.msgs) \in Nat /\ b.cap \in Nat /\ Len(t) <= Len(b.msgs)
  BY BufferFields, LenProperties DEF Part
<1> HIDE DEF new
<1>3. Shrunk(p, new, b)
  BY <1>1, <1>2 DEF Shrunk
<1> QED
  BY <1>1, <1>3 DEF new

\* A buffer shrinks to itself.
LEMMA SameShrunk ==
  ASSUME NEW M, NEW p, NEW b \in BufferOf(M)
  PROVE  Shrunk(p, b, b)
BY PartOfItself, BufferFields DEF Shrunk

\* Where the top is.
LEMMA TopPlaceType ==
  ASSUME NEW M, NEW p, NEW b \in BufferOf(M)
  PROVE  /\ TopPlace(p, b) \in 0 .. Len(b.msgs)
         /\ b.msgs # <<>> => TopPlace(p, b) \in 1 .. Len(b.msgs)
         /\ p = "FIFO" /\ b.msgs # <<>> => TopPlace(p, b) = 1
<1>1. Len(b.msgs) \in Nat /\ (b.msgs # <<>> => Len(b.msgs) \in Nat \ {0})
  BY BufferFields, EmptySeq
<1> QED
  BY <1>1 DEF TopPlace

\* A pop takes out a message, or reads a register.
LEMMA TakenShrunk ==
  ASSUME NEW M, NEW p, NEW b \in BufferOf(M), NEW i \in 1 .. Len(b.msgs)
  PROVE  Taken(p, b, i) \in BufferOf(M) /\ Shrunk(p, Taken(p, b, i), b)
<1>1. CASE p = "RAM"
  BY <1>1, SameShrunk DEF Taken
<1>2. CASE p # "RAM"
  <2>1. b.msgs \in Seq(M)
    BY BufferFields
  <2>2. RemoveAt(b.msgs, i) \in Seq(M) /\ Part(RemoveAt(b.msgs, i), b.msgs)
    BY <2>1, RemoveAtType, RemoveAtPart
  <2>3. Taken(p, b, i) = [b EXCEPT !.msgs = RemoveAt(b.msgs, i)]
    BY <1>2 DEF Taken
  <2> QED
    BY <2>2, <2>3, PartShrunk
<1> QED
  BY <1>1, <1>2

\* A resize leaves a part that is within the new capacity.
LEMMA ResizedShrunk ==
  ASSUME NEW M, NEW p, NEW b \in BufferOf(M), NEW n \in Nat
  PROVE  Resized(p, b, n) \in BufferOf(M) /\ Shrunk(p, Resized(p, b, n), b)
<1>1. CASE p = "RAM"
  BY <1>1, SameShrunk DEF Resized
<1>2. CASE p # "RAM"
  <2> DEFINE s == b.msgs
             t == IF Len(s) <= n THEN s
                  ELSE IF TopPlace(p, b) = 1 THEN SubSeq(s, Len(s) - n + 1, Len(s))
                  ELSE SubSeq(s, 1, n)
             new == [b EXCEPT !.cap = n, !.msgs = t]
  <2>1. s \in Seq(M) /\ Len(s) \in Nat
    BY BufferFields
  <2>2. t \in Seq(M) /\ Len(t) <= n /\ Part(t, s)
    <3>1. CASE Len(s) <= n
      BY <2>1, <3>1, PartOfItself
    <3>2. CASE ~ (Len(s) <= n) /\ TopPlace(p, b) = 1
      <4>1. /\ SubSeq(s, Len(s) - n + 1, Len(s)) \in Seq(M)
            /\ Len(SubSeq(s, Len(s) - n + 1, Len(s))) = n
            /\ Part(SubSeq(s, Len(s) - n + 1, Len(s)), s)
        BY <2>1, <3>2, LastPart
      <4>2. t = SubSeq(s, Len(s) - n + 1, Len(s))
        BY <3>2, Zenon
      <4> HIDE DEF t
      <4>3. n <= n
        OBVIOUS
      <4> QED
        BY <4>1, <4>2, <4>3, Zenon
    <3>3. CASE ~ (Len(s) <= n) /\ TopPlace(p, b) # 1
      <4>1. 0 + n <= Len(s)
        BY <2>1, <3>3
      <4>2. SubSeq(s, 0 + 1, 0 + n) \in Seq(M) /\ Len(SubSeq(s, 0 + 1, 0 + n)) = n /\ Part(SubSeq(s, 0 + 1, 0 + n), s)
        BY <2>1, <4>1, SegmentPart
      <4>3. SubSeq(s, 0 + 1, 0 + n) = SubSeq(s, 1, n)
        OBVIOUS
      <4> QED
        BY <3>3, <4>2, <4>3
    <3> QED
      BY <3>1, <3>2, <3>3
  <2> HIDE DEF t
  <2>3. new \in BufferOf(M) /\ new.msgs = t /\ new.cap = n
    BY <2>2, BufferFields DEF BufferOf
  <2>4. Resized(p, b, n) = new
    BY <1>2 DEF Resized, t
  <2> HIDE DEF new
  <2>5. Shrunk(p, new, b)
    BY <2>2, <2>3 DEF Shrunk
  <2> QED
    BY <2>3, <2>4, <2>5
<1> QED
  BY <1>1, <1>2

\* What a machine skips leaves a part of the buffer.
LEMMA AfterSkipPart ==
  ASSUME NEW M, NEW p, NEW s \in Seq(M), NEW S, NEW r, NEW t \in AfterSkip(p, s, S, r)
  PROVE  t \in Seq(M) /\ Part(t, s)
<1> DEFINE K == DOMAIN s \ SkippedPlaces(p, s, S, r)
<1>1. t \in Kept(s, K)
  BY DEF AfterSkip
<1>2. K \in SUBSET DOMAIN s
  OBVIOUS
<1> HIDE DEF K
<1> QED
  BY <1>1, <1>2, KeptPart

\* What a removal leaves is a part of the buffer.
LEMMA RemovedPart ==
  ASSUME NEW M, NEW s \in Seq(M), NEW mid, NEW t \in Removed(s, mid)
  PROVE  t \in Seq(M) /\ Part(t, s)
<1> DEFINE K == { i \in DOMAIN s : s[i].mid # mid }
<1>1. t \in Kept(s, K) /\ K \in SUBSET DOMAIN s
  BY DEF Removed
<1> HIDE DEF K
<1> QED
  BY <1>1, KeptPart

\* A push puts the message in, if the buffer accepts it.
LEMMA PushedGrown ==
  ASSUME NEW M, NEW p, NEW b \in BufferOf(M), NEW m \in M, Accepts(p, b)
  PROVE  Pushed(p, b, m) \in BufferOf(M) /\ Grown(p, Pushed(p, b, m), b, m)
<1>1. <<m>> \in Seq(M) /\ Append(b.msgs, m) \in Seq(M)
  <2>1. b.msgs \in Seq(M)
    BY BufferFields
  <2> QED
    BY <2>1, AppendProperties
<1>2. CASE p = "RAM"
  <2>1. Pushed(p, b, m) = [b EXCEPT !.msgs = <<m>>]
    BY <1>2 DEF Pushed
  <2>2. [b EXCEPT !.msgs = <<m>>] \in BufferOf(M)
    BY <1>1, BufferFields
  <2>3. [b EXCEPT !.msgs = <<m>>].msgs = <<m>> /\ [b EXCEPT !.msgs = <<m>>].cap = b.cap
    BY DEF BufferOf
  <2> QED
    BY <1>2, <2>1, <2>2, <2>3 DEF Grown
<1>3. CASE p # "RAM" /\ Pushed(p, b, m) = b
  BY <1>3 DEF Grown
<1>4. CASE p # "RAM" /\ Pushed(p, b, m) # b
  <2>1. Pushed(p, b, m) = [b EXCEPT !.msgs = Append(b.msgs, m)] /\ Len(b.msgs) < b.cap
    BY <1>4 DEF Pushed, Accepts
  <2>2. [b EXCEPT !.msgs = Append(b.msgs, m)] \in BufferOf(M)
    BY <1>1, BufferFields
  <2>3. /\ [b EXCEPT !.msgs = Append(b.msgs, m)].msgs = Append(b.msgs, m)
        /\ [b EXCEPT !.msgs = Append(b.msgs, m)].cap = b.cap
    BY DEF BufferOf
  <2> QED
    BY <1>4, <2>1, <2>2, <2>3 DEF Grown
<1> QED
  BY <1>2, <1>3, <1>4

\* A push that may be refused.
LEMMA PushGrown ==
  ASSUME NEW M, NEW p, NEW b \in BufferOf(M), NEW m \in M
  PROVE  Push(p, b, m) \in BufferOf(M) /\ Grown(p, Push(p, b, m), b, m)
<1>1. CASE Accepts(p, b)
  BY <1>1, PushedGrown DEF Push
<1>2. CASE ~ Accepts(p, b)
  BY <1>2 DEF Push, Grown
<1> QED
  BY <1>1, <1>2

-----------------------------------------------------------------------------
(* The exchange. *)

\* The fields of the program, as the proofs use them.
LEMMA ConfigTypes ==
  ASSUME config \in Configs
  PROVE  /\ Policy \in [BufferNames -> Policies]
         /\ In \in [Machines -> [Mids -> Seq(BufferNames)]]
         /\ InputEnabled \subseteq Machines /\ EnabledBuffer \in [Machines -> BufferNames]
         /\ config.capacity \in [BufferNames -> Nat] /\ config.named \subseteq BufferNames
         /\ config.maxSent \in Nat
<1>1. config \in Config
  BY ExchangeAssumption DEF ExchangeAssumption
<1> QED
  BY <1>1 DEF Config, Policy, In, InputEnabled, EnabledBuffer

LEMMA BufferIs == Buffer = BufferOf(Message)
BY DEF Buffer, BufferOf

\* What TypeOK says of one buffer.
LEMMA BufferType ==
  ASSUME TypeOK, NEW b \in BufferNames
  PROVE  /\ buf[b] \in BufferOf(Message) /\ buf[b].msgs \in Seq(Message)
         /\ Len(buf[b].msgs) \in Nat /\ DOMAIN buf[b].msgs = 1 .. Len(buf[b].msgs)
<1>1. buf[b] \in BufferOf(Message)
  BY BufferIs DEF TypeOK
<1> QED
  BY <1>1, BufferFields

-----------------------------------------------------------------------------
(* The kinds of steps. *)

Typed == buf' \in [BufferNames -> Buffer]

\* the message msg is put in buffers, at the end, or in one, over the top or some other place
PutIn(msg) == Typed /\ \A b \in BufferNames : Grown(Policy[b], buf'[b], buf[b], msg)
OnlyIn(b) == b \in BufferNames /\ \A c \in BufferNames \ {b} : buf'[c] = buf[c]
PutOver(b, msg) ==
  /\ Typed /\ OnlyIn(b)
  /\ buf'[b].cap = buf[b].cap
  /\ \/ Policy[b] = "RAM" /\ buf'[b].msgs = <<msg>>
     \/ \E k \in 1 .. Len(buf[b].msgs) : buf'[b].msgs = [buf[b].msgs EXCEPT ![k] = msg]

\* a new message comes in at the end of some buffers
Comes(msg) ==
  /\ msg \in Message /\ msg.id = sent + 1 /\ PutIn(msg)
  /\ sent < config.maxSent /\ sent' = sent + 1
  /\ UNCHANGED <<config, pc, who, saved, got, held>>

\* a new message replaces the top of one buffer
Assigns(m, b, msg) ==
  /\ "assignTop" \in config.runs[m] /\ m \in Machines
  /\ msg \in Message /\ msg.id = sent + 1 /\ PutOver(b, msg)
  /\ sent < config.maxSent /\ sent' = sent + 1
  /\ UNCHANGED <<config, pc, who, saved, got, held>>

\* a message that was read is put back in one buffer
Returns(m, msg) ==
  /\ m \in Machines /\ config.runs[m] \cap {"pushMessage", "assignMessage"} # {}
  /\ msg \in held /\ \E b : OnlyIn(b) /\ (PutIn(msg) \/ PutOver(b, msg))
  /\ UNCHANGED <<config, pc, who, saved, sent, got, held>>

\* a message is read where it is
Reads(b, i) ==
  /\ b \in BufferNames /\ i \in 1 .. Len(buf[b].msgs)
  /\ held' = held \cup {buf[b].msgs[i]}
  /\ UNCHANGED <<config, buf, pc, who, saved, sent, got>>

\* messages leave the buffers
Leaves == Typed /\ \A b \in BufferNames : Shrunk(Policy[b], buf'[b], buf[b])

\* one of them is received
Receives(r, i) ==
  /\ Leaves
  /\ r \in Receipt /\ i \in 1 .. Len(buf[r.buffer].msgs) /\ r.msg = buf[r.buffer].msgs[i]
  /\ Policy[r.buffer] = "FIFO" => i = 1
  /\ r.from = NoOne => buf'[r.buffer] = Taken(Policy[r.buffer], buf[r.buffer], i)
  /\ got' = Append(got, r)
  /\ held' = held \/ (held' = held \cup {r.msg} /\ r.from = NoOne)
  /\ UNCHANGED <<config, pc, who, saved, sent>>

\* or none, and input_enabled may begin, go on or end
Moves ==
  /\ Leaves
  /\ pc' \in {"run", "skipping", "inner", "crashed"}
  /\ who' \in InputEnabled \cup {NoOne} /\ (pc' = "run") = (who' = NoOne)
  /\ saved' \in Seq(Message)
  /\ UNCHANGED <<config, sent, got, held>>

-----------------------------------------------------------------------------
\* A message is built with the next number.
LEMMA NewType ==
  ASSUME TypeOK, NEW m \in Machines, NEW mid \in Mids, NEW v \in Vals,
         NEW r \in Machines \cup {NoOne}
  PROVE  /\ New(m, mid, v, r) \in Message /\ New(m, mid, v, r).id = sent + 1
         /\ Unrouted(m, mid, v) \in Message /\ Unrouted(m, mid, v).id = sent + 1
<1>1. sent + 1 \in Nat
  BY ConfigTypes DEF TypeOK
<1> QED
  BY <1>1 DEF New, Unrouted, Message

\* Messages that are pushed come in.
LEMMA PushedInGrown ==
  ASSUME TypeOK, NEW S, NEW msg \in Message
  PROVE  /\ PushedIn(S, msg) \in [BufferNames -> Buffer]
         /\ \A b \in BufferNames : Grown(Policy[b], PushedIn(S, msg)[b], buf[b], msg)
<1>1. ASSUME NEW b \in BufferNames
      PROVE  /\ PushedIn(S, msg)[b] \in BufferOf(Message)
             /\ Grown(Policy[b], PushedIn(S, msg)[b], buf[b], msg)
  <2>1. buf[b] \in BufferOf(Message)
    BY BufferType
  <2>2. CASE b \in S
    <3>1. PushedIn(S, msg)[b] = Push(Policy[b], buf[b], msg)
      BY <2>2 DEF PushedIn
    <3> QED
      BY <2>1, <3>1, PushGrown
  <2>3. CASE b \notin S
    <3>1. PushedIn(S, msg)[b] = buf[b]
      BY <2>3 DEF PushedIn
    <3> QED
      BY <2>1, <3>1 DEF Grown
  <2> QED
    BY <2>2, <2>3
<1>2. DOMAIN PushedIn(S, msg) = BufferNames /\ PushedIn(S, msg) = [ b \in BufferNames |-> PushedIn(S, msg)[b] ]
  BY DEF PushedIn
<1> QED
  BY <1>1, <1>2, BufferIs

\* An output puts a message in buffers.
LEMMA OutputComes ==
  ASSUME TypeOK, NEW m \in Machines, NEW mid \in Mids, NEW v \in Vals, Output(m, mid, v)
  PROVE  Comes(New(m, mid, v, NoOne))
<1> DEFINE msg == New(m, mid, v, NoOne)
<1>1. msg \in Message /\ msg.id = sent + 1
  BY NewType
<1>2. \E S : buf' = PushedIn(S, msg)
  BY Zenon DEF Output, PushOne, PushSome, PushAll
<1>3. /\ sent < config.maxSent /\ sent' = sent + 1
      /\ UNCHANGED <<config, pc, who, saved, got, held>>
  BY DEF Output, Built
<1> HIDE DEF msg
<1>4. PutIn(msg)
  BY <1>1, <1>2, PushedInGrown DEF PutIn, Typed
<1>5. Comes(msg)
  BY <1>1, <1>3, <1>4 DEF Comes
<1> QED
  BY <1>5 DEF msg

\* An output to a machine puts a message in buffers.
LEMMA OutputToComes ==
  ASSUME TypeOK, NEW m \in Machines, NEW r \in Machines, NEW mid \in Mids, NEW v \in Vals,
         OutputTo(m, r, mid, v)
  PROVE  Comes(New(m, mid, v, r))
<1> DEFINE msg == New(m, mid, v, r)
<1>1. msg \in Message /\ msg.id = sent + 1
  BY NewType
<1>2. \E S : buf' = PushedIn(S, msg)
  BY Zenon DEF OutputTo, PushSome
<1>3. /\ sent < config.maxSent /\ sent' = sent + 1
      /\ UNCHANGED <<config, pc, who, saved, got, held>>
  BY DEF OutputTo, Built
<1> HIDE DEF msg
<1>4. PutIn(msg)
  BY <1>1, <1>2, PushedInGrown DEF PutIn, Typed
<1>5. Comes(msg)
  BY <1>1, <1>3, <1>4 DEF Comes
<1> QED
  BY <1>5 DEF msg

\* A push on one buffer.
LEMMA PushedPutIn ==
  ASSUME TypeOK, NEW b \in BufferNames, NEW msg \in Message,
         Accepts(Policy[b], buf[b]), buf' = [buf EXCEPT ![b] = Pushed(Policy[b], buf[b], msg)]
  PROVE  PutIn(msg) /\ OnlyIn(b)
<1>1. /\ Pushed(Policy[b], buf[b], msg) \in BufferOf(Message)
      /\ Grown(Policy[b], Pushed(Policy[b], buf[b], msg), buf[b], msg)
  BY BufferType, PushedGrown
<1>2. buf \in [BufferNames -> BufferOf(Message)]
  BY BufferIs DEF TypeOK
<1>3. /\ buf' \in [BufferNames -> BufferOf(Message)] /\ buf'[b] = Pushed(Policy[b], buf[b], msg)
      /\ \A c \in BufferNames \ {b} : buf'[c] = buf[c]
  BY <1>1, <1>2
<1>4. ASSUME NEW c \in BufferNames PROVE Grown(Policy[c], buf'[c], buf[c], msg)
  <2>1. CASE c = b
    BY <1>1, <1>3, <2>1
  <2>2. CASE c # b
    BY <1>3, <2>2 DEF Grown
  <2> QED
    BY <2>1, <2>2
<1> QED
  BY <1>3, <1>4, BufferIs DEF PutIn, OnlyIn, Typed

\* So does a push statement.
LEMMA PushComes ==
  ASSUME TypeOK, NEW m \in Machines, NEW b \in BufferNames, NEW mid \in Mids, NEW v \in Vals,
         PushStatement(m, b, mid, v)
  PROVE  Comes(Unrouted(m, mid, v))
<1> DEFINE msg == Unrouted(m, mid, v)
<1>1. msg \in Message /\ msg.id = sent + 1
  BY NewType
<1>2. Accepts(Policy[b], buf[b]) /\ buf' = [buf EXCEPT ![b] = Pushed(Policy[b], buf[b], msg)]
  BY DEF PushStatement
<1>3. /\ sent < config.maxSent /\ sent' = sent + 1
      /\ UNCHANGED <<config, pc, who, saved, got, held>>
  BY DEF PushStatement, Built
<1> HIDE DEF msg
<1>4. PutIn(msg)
  BY <1>1, <1>2, PushedPutIn
<1>5. Comes(msg)
  BY <1>1, <1>3, <1>4 DEF Comes
<1> QED
  BY <1>5 DEF msg

\* The push of a message that was read puts it back.
LEMMA PushReturns ==
  ASSUME TypeOK, NEW m \in Machines, NEW b \in BufferNames, PushMessage(m, b)
  PROVE  \E msg : Returns(m, msg)
<1>1. PICK msg \in held : buf' = [buf EXCEPT ![b] = Pushed(Policy[b], buf[b], msg)]
  BY DEF PushMessage
<1>2. /\ "pushMessage" \in config.runs[m] /\ Accepts(Policy[b], buf[b]) /\ msg \in Message
      /\ UNCHANGED <<config, pc, who, saved, sent, got, held>>
  BY DEF PushMessage, Runs, TypeOK
<1>3. PutIn(msg) /\ OnlyIn(b)
  BY <1>1, <1>2, PushedPutIn
<1>4. Returns(m, msg)
  BY <1>2, <1>3 DEF Returns
<1> QED
  BY <1>4

\* What is assigned to the top of a buffer.
LEMMA AssignPutOver ==
  ASSUME TypeOK, NEW b \in BufferNames, NEW msg \in Message,
         Policy[b] = "RAM" \/ buf[b].msgs # <<>>,
         buf' = [buf EXCEPT ![b] = AssignTop(Policy[b], buf[b], msg)]
  PROVE  PutOver(b, msg)
<1> DEFINE new == AssignTop(Policy[b], buf[b], msg)
           k == TopPlace(Policy[b], buf[b])
<1>1. /\ Policy[b] = "RAM" \/ buf[b].msgs # <<>>
      /\ buf' = [buf EXCEPT ![b] = new]
  OBVIOUS
<1>2. /\ buf[b] \in BufferOf(Message) /\ buf[b].msgs \in Seq(Message)
      /\ buf[b].msgs # <<>> => k \in 1 .. Len(buf[b].msgs)
  BY BufferType, TopPlaceType
<1> HIDE DEF k
<1>3. /\ new \in BufferOf(Message) /\ new.cap = buf[b].cap
      /\ \/ Policy[b] = "RAM" /\ new.msgs = <<msg>>
         \/ \E j \in 1 .. Len(buf[b].msgs) : new.msgs = [buf[b].msgs EXCEPT ![j] = msg]
  <2>1. CASE Policy[b] = "RAM"
    <3>1. new = [buf[b] EXCEPT !.msgs = <<msg>>] /\ <<msg>> \in Seq(Message)
      BY <2>1 DEF AssignTop
    <3> QED
      BY <1>2, <2>1, <3>1 DEF BufferOf
  <2>2. CASE Policy[b] # "RAM"
    <3>1. new = [buf[b] EXCEPT !.msgs = [buf[b].msgs EXCEPT ![k] = msg]]
      BY <2>2 DEF AssignTop, k
    <3>2. k \in 1 .. Len(buf[b].msgs)
      BY <1>1, <1>2, <2>2
    <3>3. [buf[b].msgs EXCEPT ![k] = msg] \in Seq(Message)
      BY <1>2, <3>2, ExceptSeq
    <3>4. new \in BufferOf(Message) /\ new.cap = buf[b].cap /\ new.msgs = [buf[b].msgs EXCEPT ![k] = msg]
      BY <1>2, <3>1, <3>3 DEF BufferOf
    <3> QED
      BY <3>2, <3>4
  <2> QED
    BY <2>1, <2>2
<1> HIDE DEF new
<1>4. buf \in [BufferNames -> BufferOf(Message)]
  BY BufferIs DEF TypeOK
<1>5. /\ buf' \in [BufferNames -> BufferOf(Message)] /\ buf'[b] = new
      /\ \A c \in BufferNames \ {b} : buf'[c] = buf[c]
  BY <1>1, <1>3, <1>4
<1> QED
  BY <1>3, <1>5, BufferIs DEF PutOver, OnlyIn, Typed

\* An assignment of the top.
LEMMA AssignAssigns ==
  ASSUME TypeOK, NEW m \in Machines, NEW b \in BufferNames, NEW mid \in Mids, NEW v \in Vals,
         Assign(m, b, mid, v)
  PROVE  Assigns(m, b, Unrouted(m, mid, v))
<1> DEFINE msg == Unrouted(m, mid, v)
<1>1. msg \in Message /\ msg.id = sent + 1
  BY NewType
<1>2. /\ Policy[b] = "RAM" \/ buf[b].msgs # <<>>
      /\ buf' = [buf EXCEPT ![b] = AssignTop(Policy[b], buf[b], msg)]
  BY DEF Assign
<1>3. /\ sent < config.maxSent /\ sent' = sent + 1
      /\ UNCHANGED <<config, pc, who, saved, got, held>> /\ "assignTop" \in config.runs[m]
  BY DEF Assign, Built, Runs
<1> HIDE DEF msg
<1>4. PutOver(b, msg)
  BY <1>1, <1>2, AssignPutOver
<1>5. Assigns(m, b, msg)
  BY <1>1, <1>3, <1>4 DEF Assigns
<1> QED
  BY <1>5 DEF msg

\* And one of a message that was read.
LEMMA AssignReturns ==
  ASSUME TypeOK, NEW m \in Machines, NEW b \in BufferNames, AssignMessage(m, b)
  PROVE  \E msg : Returns(m, msg)
<1>1. PICK msg \in held : buf' = [buf EXCEPT ![b] = AssignTop(Policy[b], buf[b], msg)]
  BY DEF AssignMessage
<1>2. /\ "assignMessage" \in config.runs[m] /\ msg \in Message
      /\ Policy[b] = "RAM" \/ buf[b].msgs # <<>>
      /\ UNCHANGED <<config, pc, who, saved, sent, got, held>>
  BY DEF AssignMessage, Runs, TypeOK
<1>3. PutOver(b, msg)
  BY <1>1, <1>2, AssignPutOver
<1>4. Returns(m, msg)
  BY <1>2, <1>3 DEF Returns, PutOver
<1> QED
  BY <1>4

-----------------------------------------------------------------------------
\* Taking messages out of buffers shrinks them.
LEMMA TakenFromShrunk ==
  ASSUME TypeOK, NEW P, \A c \in DOMAIN P : c \in BufferNames /\ P[c] \in 1 .. Len(buf[c].msgs)
  PROVE  /\ TakenFrom(P) \in [BufferNames -> Buffer]
         /\ \A b \in BufferNames : Shrunk(Policy[b], TakenFrom(P)[b], buf[b])
         /\ \A b \in DOMAIN P : TakenFrom(P)[b] = Taken(Policy[b], buf[b], P[b])
<1>1. ASSUME NEW b \in BufferNames
      PROVE  /\ TakenFrom(P)[b] \in BufferOf(Message)
             /\ Shrunk(Policy[b], TakenFrom(P)[b], buf[b])
             /\ b \in DOMAIN P => TakenFrom(P)[b] = Taken(Policy[b], buf[b], P[b])
  <2>1. buf[b] \in BufferOf(Message)
    BY BufferType
  <2>2. CASE b \in DOMAIN P
    <3>1. TakenFrom(P)[b] = Taken(Policy[b], buf[b], P[b])
      BY <2>2 DEF TakenFrom
    <3>2. P[b] \in 1 .. Len(buf[b].msgs)
      BY <2>2
    <3> QED
      BY <2>1, <3>1, <3>2, TakenShrunk
  <2>3. CASE b \notin DOMAIN P
    <3>1. TakenFrom(P)[b] = buf[b]
      BY <2>3 DEF TakenFrom
    <3> QED
      BY <2>1, <2>3, <3>1, SameShrunk
  <2> QED
    BY <2>2, <2>3
<1>2. TakenFrom(P) = [ b \in BufferNames |-> TakenFrom(P)[b] ]
  BY DEF TakenFrom
<1>3. TakenFrom(P) \in [BufferNames -> Buffer]
  BY <1>1, <1>2, BufferIs
<1> QED
  BY <1>1, <1>3

\* A pop finds a place of its buffer, the top if it does not search.
LEMMA FoundType ==
  ASSUME TypeOK, NEW b \in BufferNames, NEW mid, NEW m, NEW i \in Found(b, mid, m)
  PROVE  /\ i \in 1 .. Len(buf[b].msgs)
         /\ Policy[b] \notin Searched => i = TopPlace(Policy[b], buf[b])
         /\ Policy[b] = "FIFO" => i = 1
<1>1. /\ buf[b] \in BufferOf(Message) /\ Len(buf[b].msgs) \in Nat
      /\ DOMAIN buf[b].msgs = 1 .. Len(buf[b].msgs)
  BY BufferType
<1>2. CASE Policy[b] \in Searched
  BY <1>1, <1>2 DEF Found, Searched
<1>3. CASE Policy[b] \notin Searched
  <2>1. i = TopPlace(Policy[b], buf[b]) /\ i # 0
    BY <1>3 DEF Found, PopPlaces
  <2>2. i \in 0 .. Len(buf[b].msgs)
    BY <1>1, <2>1, TopPlaceType
  <2>3. i \in 1 .. Len(buf[b].msgs)
    BY <1>1, <2>1, <2>2
  <2>4. buf[b].msgs # <<>>
    BY <2>3, EmptySeq
  <2> QED
    BY <1>1, <2>1, <2>3, <2>4, TopPlaceType
<1> QED
  BY <1>2, <1>3

\* What a receipt is.
LEMMA ReceiptType ==
  ASSUME TypeOK, NEW m \in Machines, NEW b \in BufferNames, NEW i \in 1 .. Len(buf[b].msgs),
         NEW s \in Machines \cup {NoOne}, Receive(m, b, i, s)
  PROVE  LET r == [ msg |-> buf[b].msgs[i], buffer |-> b, by |-> m, from |-> s ]
         IN /\ r \in Receipt /\ r.msg = buf[b].msgs[i] /\ r.buffer = b /\ r.from = s
            /\ got' = Append(got, r)
<1>1. buf[b].msgs[i] \in Message
  BY BufferType, ElementOfSeq
<1> QED
  BY <1>1 DEF Receive, Receipt

\* An input receives what it finds.
LEMMA InputReceives ==
  ASSUME TypeOK, NEW m \in Machines, NEW mid \in Mids, Input(m, mid)
  PROVE  \E r, i : Receives(r, i)
<1>1. In[m][mid] \in Seq(BufferNames)
  BY ConfigTypes DEF TypeOK
<1>2. DOMAIN In[m][mid] = 1 .. Len(In[m][mid]) /\ \A k \in DOMAIN In[m][mid] : In[m][mid][k] \in BufferNames
  BY <1>1, LenProperties, ElementOfSeq
<1> DEFINE earlier(k) == { In[m][mid][j] : j \in 1 .. k - 1 }
           refused(k) == { c \in earlier(k) : Found(c, mid, m) # {} }
           popped(k) == { c \in refused(k) : Policy[c] \notin Searched }
           places(k, i) == [ c \in popped(k) \cup {In[m][mid][k]} |->
                               IF c = In[m][mid][k] THEN i ELSE TopPlace(Policy[c], buf[c]) ]
<1>3. PICK k \in DOMAIN In[m][mid] :
        \E i \in Found(In[m][mid][k], mid, m) :
          buf' = TakenFrom(places(k, i)) /\ Receive(m, In[m][mid][k], i, NoOne)
  BY Zenon DEF Input
<1>4. PICK i \in Found(In[m][mid][k], mid, m) :
          buf' = TakenFrom(places(k, i)) /\ Receive(m, In[m][mid][k], i, NoOne)
  BY <1>3
<1> DEFINE b == In[m][mid][k]
           P == places(k, i)
           r == [ msg |-> buf[b].msgs[i], buffer |-> b, by |-> m, from |-> NoOne ]
<1>5. \A j \in 1 .. k - 1 : j \in DOMAIN In[m][mid]
  BY <1>1, <1>2, LenProperties
<1>6. b \in BufferNames /\ \A c \in popped(k) : /\ c \in BufferNames
                                               /\ Found(c, mid, m) # {} /\ Policy[c] \notin Searched
  BY <1>2, <1>5
<1>7. i \in 1 .. Len(buf[b].msgs) /\ (Policy[b] = "FIFO" => i = 1)
  BY <1>6, FoundType
<1>8. ASSUME NEW c \in DOMAIN P PROVE c \in BufferNames /\ P[c] \in 1 .. Len(buf[c].msgs)
  <2>1. CASE c = b
    BY <1>6, <1>7, <2>1
  <2>2. CASE c # b
    <3>1. c \in popped(k) /\ P[c] = TopPlace(Policy[c], buf[c])
      BY <2>2
    <3>2. PICK n : n \in Found(c, mid, m)
      BY <1>6, <3>1
    <3>3. n \in 1 .. Len(buf[c].msgs) /\ n = TopPlace(Policy[c], buf[c])
      BY <1>6, <3>1, <3>2, FoundType
    <3> QED
      BY <1>6, <3>1, <3>3
  <2> QED
    BY <2>1, <2>2
<1>9. buf' = TakenFrom(P) /\ b \in DOMAIN P /\ P[b] = i
  BY <1>4
<1>10. NoOne \in Machines \cup {NoOne} /\ Receive(m, b, i, NoOne)
  BY <1>4
<1>11. r \in Receipt /\ r.msg = buf[b].msgs[i] /\ r.buffer = b /\ got' = Append(got, r)
  BY <1>6, <1>7, <1>10, ReceiptType
<1>12. UNCHANGED <<config, pc, who, saved, sent, held>>
  BY DEF Input
<1> HIDE DEF P, b, r
<1>13. Leaves /\ buf'[b] = Taken(Policy[b], buf[b], i)
  BY <1>8, <1>9, TakenFromShrunk DEF Leaves, Typed
<1>14. Receives(r, i)
  BY <1>7, <1>11, <1>12, <1>13 DEF Receives
<1> QED
  BY <1>14

\* An input from a machine receives a top.
LEMMA InputFromReceives ==
  ASSUME TypeOK, NEW m \in Machines, NEW s \in Machines, NEW mid \in Mids, InputFrom(m, s, mid)
  PROVE  \E r, i : Receives(r, i)
<1>1. In[m][mid] \in Seq(BufferNames)
  BY ConfigTypes DEF TypeOK
<1>2. PICK b \in BufferNames :
        \/ \E i \in PopPlaces(Policy[b], buf[b], mid, m) :
             buf' = TakenFrom([ c \in {b} |-> i ]) /\ Receive(m, b, i, s)
             /\ TopPlace(Policy[b], buf[b]) # 0
        \/ /\ TopPlace(Policy[b], buf[b]) # 0
           /\ Receive(m, b, TopPlace(Policy[b], buf[b]), s) /\ UNCHANGED buf
  <2>1. \A k \in DOMAIN In[m][mid] : In[m][mid][k] \in BufferNames
    BY <1>1, LenProperties, ElementOfSeq
  <2> QED
    BY <2>1 DEF InputFrom
<1>3. UNCHANGED <<config, pc, who, saved, sent, held>>
  BY DEF InputFrom
<1>4. s # NoOne
  BY ExchangeAssumption DEF ExchangeAssumption
<1>5. /\ buf[b] \in BufferOf(Message) /\ Len(buf[b].msgs) \in Nat
      /\ DOMAIN buf[b].msgs = 1 .. Len(buf[b].msgs)
  BY BufferType
<1>6. CASE \E i \in PopPlaces(Policy[b], buf[b], mid, m) :
             buf' = TakenFrom([ c \in {b} |-> i ]) /\ Receive(m, b, i, s)
  <2>1. PICK i \in PopPlaces(Policy[b], buf[b], mid, m) :
             buf' = TakenFrom([ c \in {b} |-> i ]) /\ Receive(m, b, i, s)
    BY <1>6
  <2>2. i \in Found(b, mid, m)
    BY <2>1 DEF Found, PopPlaces
  <2>3. i \in 1 .. Len(buf[b].msgs) /\ (Policy[b] = "FIFO" => i = 1)
    BY <2>2, FoundType
  <2> DEFINE P == [ c \in {b} |-> i ]
             r == [ msg |-> buf[b].msgs[i], buffer |-> b, by |-> m, from |-> s ]
  <2>4. \A c \in DOMAIN P : c \in BufferNames /\ P[c] \in 1 .. Len(buf[c].msgs)
    BY <2>3
  <2>5. buf' = TakenFrom(P)
    BY <2>1
  <2>6. r \in Receipt /\ r.msg = buf[b].msgs[i] /\ r.buffer = b /\ r.from = s /\ got' = Append(got, r)
    BY <2>1, <2>3, ReceiptType
  <2> HIDE DEF P, r
  <2>7. Leaves
    BY <2>4, <2>5, TakenFromShrunk DEF Leaves, Typed
  <2>8. Receives(r, i)
    BY <1>3, <1>4, <2>3, <2>6, <2>7 DEF Receives
  <2> QED
    BY <2>8
<1>7. CASE /\ TopPlace(Policy[b], buf[b]) # 0
           /\ Receive(m, b, TopPlace(Policy[b], buf[b]), s) /\ UNCHANGED buf
  <2> DEFINE i == TopPlace(Policy[b], buf[b])
             r == [ msg |-> buf[b].msgs[i], buffer |-> b, by |-> m, from |-> s ]
  <2>1. i \in 0 .. Len(buf[b].msgs) /\ i # 0
    BY <1>5, <1>7, TopPlaceType
  <2>2. i \in 1 .. Len(buf[b].msgs)
    BY <1>5, <2>1
  <2>3. buf[b].msgs # <<>>
    BY <2>2, EmptySeq
  <2>4. Policy[b] = "FIFO" => i = 1
    BY <1>5, <2>3, TopPlaceType
  <2>5. Receive(m, b, i, s)
    BY <1>7
  <2>6. r \in Receipt /\ r.msg = buf[b].msgs[i] /\ r.buffer = b /\ r.from = s /\ got' = Append(got, r)
    BY <2>2, <2>5, ReceiptType
  <2> HIDE DEF i, r
  <2>7. Leaves
    <3>1. buf' = buf /\ buf \in [BufferNames -> Buffer]
      BY <1>7 DEF TypeOK
    <3>2. \A c \in BufferNames : Shrunk(Policy[c], buf[c], buf[c])
      BY BufferType, SameShrunk
    <3> QED
      BY <3>1, <3>2 DEF Leaves, Typed
  <2>8. Receives(r, i)
    BY <1>3, <1>4, <2>2, <2>4, <2>6, <2>7 DEF Receives
  <2> QED
    BY <2>8
<1> QED
  BY <1>2, <1>6, <1>7

\* A pop statement receives the top.
LEMMA PopReceives ==
  ASSUME TypeOK, NEW m \in Machines, NEW b \in BufferNames, PopStatement(m, b)
  PROVE  \E r, i : Receives(r, i)
<1> DEFINE i == TopPlace(Policy[b], buf[b])
           P == [ c \in {b} |-> i ]
           r == [ msg |-> buf[b].msgs[i], buffer |-> b, by |-> m, from |-> NoOne ]
<1>1. /\ buf[b].msgs # <<>> /\ buf' = TakenFrom(P) /\ Receive(m, b, i, NoOne)
      /\ UNCHANGED <<config, pc, who, saved, sent>>
      /\ held' = held \/ held' = held \cup {buf[b].msgs[i]}
  BY DEF PopStatement, Hold
<1>2. buf[b] \in BufferOf(Message)
  BY BufferType
<1>3. i \in 1 .. Len(buf[b].msgs) /\ (Policy[b] = "FIFO" => i = 1)
  BY <1>1, <1>2, TopPlaceType
<1>4. /\ \A c \in DOMAIN P : c \in BufferNames /\ P[c] \in 1 .. Len(buf[c].msgs)
      /\ b \in DOMAIN P /\ P[b] = i
  BY <1>3
<1>5. r \in Receipt /\ r.msg = buf[b].msgs[i] /\ r.buffer = b /\ r.from = NoOne /\ got' = Append(got, r)
  BY <1>1, <1>3, ReceiptType
<1> HIDE DEF i, P, r
<1>6. Leaves /\ buf'[b] = Taken(Policy[b], buf[b], i)
  BY <1>1, <1>4, TakenFromShrunk DEF Leaves, Typed
<1>7. Receives(r, i)
  BY <1>1, <1>3, <1>5, <1>6 DEF Receives
<1> QED
  BY <1>7

\* A top statement reads the top.
LEMMA TopReads ==
  ASSUME TypeOK, NEW m \in Machines, NEW b \in BufferNames, TopStatement(m, b)
  PROVE  \E i : Reads(b, i)
<1>1. buf[b] \in BufferOf(Message) /\ buf[b].msgs # <<>>
  BY BufferType DEF TopStatement
<1>2. TopPlace(Policy[b], buf[b]) \in 1 .. Len(buf[b].msgs)
  BY <1>1, TopPlaceType
<1>3. Reads(b, TopPlace(Policy[b], buf[b]))
  BY <1>2 DEF TopStatement, Hold, Reads
<1> QED
  BY <1>3

-----------------------------------------------------------------------------
\* A step that shrinks one buffer.
LEMMA OneLeaves ==
  ASSUME TypeOK, NEW b \in BufferNames, NEW new \in BufferOf(Message),
         Shrunk(Policy[b], new, buf[b]), buf' = [buf EXCEPT ![b] = new]
  PROVE  Leaves
<1>1. buf \in [BufferNames -> BufferOf(Message)]
  BY BufferIs DEF TypeOK
<1>2. /\ buf' \in [BufferNames -> BufferOf(Message)] /\ buf'[b] = new
      /\ \A c \in BufferNames \ {b} : buf'[c] = buf[c]
  BY <1>1
<1>3. ASSUME NEW c \in BufferNames PROVE Shrunk(Policy[c], buf'[c], buf[c])
  <2>1. CASE c = b
    BY <1>2, <2>1
  <2>2. CASE c # b
    BY <1>2, <2>2, BufferType, SameShrunk
  <2> QED
    BY <2>1, <2>2
<1> QED
  BY <1>2, <1>3, BufferIs DEF Leaves, Typed

\* A step that leaves the buffers alone.
LEMMA NoneLeaves ==
  ASSUME TypeOK, UNCHANGED buf
  PROVE  Leaves
<1>1. ASSUME NEW c \in BufferNames PROVE Shrunk(Policy[c], buf'[c], buf[c])
  BY BufferType, SameShrunk
<1> QED
  BY <1>1 DEF Leaves, Typed, TypeOK

\* The machine that runs input_enabled.
LEMMA WhoRuns ==
  ASSUME TypeOK, pc # "run"
  PROVE  who \in InputEnabled /\ EnabledBuffer[who] \in BufferNames /\ who # NoOne
<1>1. who \in InputEnabled /\ who # NoOne
  BY DEF TypeOK
<1> QED
  BY <1>1, ConfigTypes DEF TypeOK

\* A machine enters its input_enabled, and skips if it saves nothing.
LEMMA EnterMoves ==
  ASSUME TypeOK, NEW m \in InputEnabled, Enter(m)
  PROVE  Moves
<1> DEFINE b == EnabledBuffer[m]
<1>1. b \in BufferNames /\ m \in Machines /\ m # NoOne
  BY ConfigTypes, ExchangeAssumption DEF TypeOK, ExchangeAssumption
<1>2. buf[b] \in BufferOf(Message) /\ buf[b].msgs \in Seq(Message)
  BY <1>1, BufferType
<1>3. /\ pc = "run" /\ who' = m
      /\ UNCHANGED <<config, saved, sent, got, held>>
      /\ \/ pc' \in {"skipping", "inner", "crashed"} /\ UNCHANGED buf
         \/ /\ pc' = "inner"
            /\ \E left \in AfterSkip(Policy[b], buf[b].msgs, Expects[m], m) :
                 buf' = [buf EXCEPT ![b].msgs = left]
  BY DEF Enter
<1>4. saved' \in Seq(Message) /\ pc' \in {"skipping", "inner", "crashed"}
  BY <1>3 DEF TypeOK
<1>5. CASE UNCHANGED buf
  BY <1>1, <1>3, <1>4, <1>5, NoneLeaves DEF Moves, InputEnabled
<1>6. CASE \E left \in AfterSkip(Policy[b], buf[b].msgs, Expects[m], m) :
             buf' = [buf EXCEPT ![b].msgs = left]
  <2>1. PICK left \in AfterSkip(Policy[b], buf[b].msgs, Expects[m], m) :
          buf' = [buf EXCEPT ![b].msgs = left]
    BY <1>6
  <2>2. left \in Seq(Message) /\ Part(left, buf[b].msgs)
    BY <1>2, AfterSkipPart
  <2>3. /\ [buf[b] EXCEPT !.msgs = left] \in BufferOf(Message)
        /\ Shrunk(Policy[b], [buf[b] EXCEPT !.msgs = left], buf[b])
    BY <1>2, <2>2, PartShrunk
  <2>4. buf' = [buf EXCEPT ![b] = [buf[b] EXCEPT !.msgs = left]]
    BY <2>1
  <2>5. Leaves
    BY <1>1, <2>3, <2>4, OneLeaves
  <2> QED
    BY <1>1, <1>3, <1>4, <2>5 DEF Moves, InputEnabled
<1> QED
  BY <1>3, <1>5, <1>6

\* The top is there if the buffer holds something, and a pop of it shrinks the buffer.
LEMMA PopTopLeaves ==
  ASSUME TypeOK, pc # "run", buf[EnabledBuffer[who]].msgs # <<>>, PopTop
  PROVE  Leaves
<1> DEFINE b == EnabledBuffer[who]
<1>1. b \in BufferNames
  BY WhoRuns
<1>2. buf[b] \in BufferOf(Message)
  BY <1>1, BufferType
<1>3. TopPlace(Policy[b], buf[b]) \in 1 .. Len(buf[b].msgs)
  BY <1>2, TopPlaceType
<1>4. buf' = [buf EXCEPT ![b] = Taken(Policy[b], buf[b], TopPlace(Policy[b], buf[b]))]
  BY DEF PopTop
<1> HIDE DEF b
<1> QED
  BY <1>1, <1>2, <1>3, <1>4, TakenShrunk, OneLeaves

LEMMA TopIsMessage ==
  ASSUME TypeOK, pc # "run", buf[EnabledBuffer[who]].msgs # <<>>
  PROVE  Top \in Message
<1> DEFINE b == EnabledBuffer[who]
<1>1. b \in BufferNames
  BY WhoRuns
<1>2. buf[b] \in BufferOf(Message) /\ buf[b].msgs \in Seq(Message)
  BY <1>1, BufferType
<1>3. TopPlace(Policy[b], buf[b]) \in 1 .. Len(buf[b].msgs)
  BY <1>2, TopPlaceType
<1> QED
  BY <1>2, <1>3, ElementOfSeq DEF Top

\* The loop of input_enabled.
LEMMA SkipOneMoves ==
  ASSUME TypeOK, SkipOne
  PROVE  Moves
<1>1. pc = "skipping" /\ who # NoOne /\ who \in InputEnabled /\ UNCHANGED <<config, who, sent, got, held>>
  BY WhoRuns DEF SkipOne
<1>2. saved \in Seq(Message)
  BY DEF TypeOK
<1>3. CASE UNCHANGED <<buf, saved>> /\ pc' \in {"inner", pc}
  BY <1>1, <1>2, <1>3, NoneLeaves DEF Moves, InputEnabled
<1>4. CASE /\ buf[EnabledBuffer[who]].msgs # <<>> /\ PopTop /\ UNCHANGED pc
           /\ saved' = IF IsMID(Top, Saves[who]) THEN Append(saved, Top) ELSE saved
  <2>1. Top \in Message /\ Leaves
    BY <1>1, <1>4, TopIsMessage, PopTopLeaves
  <2>2. Append(saved, Top) \in Seq(Message)
    BY <1>2, <2>1, AppendProperties
  <2>3. saved' \in Seq(Message)
    BY <1>2, <1>4, <2>2
  <2> QED
    BY <1>1, <1>4, <2>1, <2>3 DEF Moves, InputEnabled
<1> QED
  BY <1>3, <1>4 DEF SkipOne

\* The end of input_enabled.
LEMMA LeaveMoves ==
  ASSUME TypeOK, Leave
  PROVE  Moves
<1>1. /\ pc' = "run" /\ who' = NoOne /\ saved' = <<>> /\ UNCHANGED <<config, buf, sent, got, held>>
  BY DEF Leave
<1>2. saved' \in Seq(Message)
  BY <1>1, EmptySeq
<1> QED
  BY <1>1, <1>2, NoneLeaves DEF Moves

\* The statements that take messages away.
LEMMA StatementsMove ==
  ASSUME TypeOK, NEW b \in BufferNames,
         \/ \E m \in Machines, mid \in Mids : RemoveStatement(m, b, mid)
         \/ \E m \in Machines : ClearStatement(m, b)
         \/ \E m \in Machines, n \in 0 .. config.maxSent : ResizeStatement(m, b, n)
  PROVE  Moves
<1>1. buf[b] \in BufferOf(Message) /\ buf[b].msgs \in Seq(Message)
  BY BufferType
<1>2. UNCHANGED <<config, pc, who, saved, sent, got, held>>
  BY DEF RemoveStatement, ClearStatement, ResizeStatement
<1>3. ASSUME NEW t \in Seq(Message), Part(t, buf[b].msgs), buf' = [buf EXCEPT ![b].msgs = t]
      PROVE  Leaves
  <2>1. buf' = [buf EXCEPT ![b] = [buf[b] EXCEPT !.msgs = t]]
    BY <1>3
  <2> QED
    BY <1>1, <1>3, <2>1, PartShrunk, OneLeaves
<1>4. ASSUME NEW m \in Machines, NEW mid \in Mids, RemoveStatement(m, b, mid)
      PROVE  Leaves
  <2>1. PICK t \in Removed(buf[b].msgs, mid) : buf' = [buf EXCEPT ![b].msgs = t]
    BY <1>4 DEF RemoveStatement
  <2> QED
    BY <1>1, <1>3, <2>1, RemovedPart
<1>5. ASSUME NEW m \in Machines, ClearStatement(m, b)
      PROVE  Leaves
  <2>1. buf' = [buf EXCEPT ![b].msgs = <<>>] /\ <<>> \in Seq(Message)
    BY <1>5, EmptySeq DEF ClearStatement
  <2> QED
    BY <1>1, <1>3, <2>1, EmptyPart
<1>6. ASSUME NEW m \in Machines, NEW n \in 0 .. config.maxSent, ResizeStatement(m, b, n)
      PROVE  Leaves
  <2>1. buf' = [buf EXCEPT ![b] = Resized(Policy[b], buf[b], n)] /\ n \in Nat
    BY <1>6 DEF ResizeStatement
  <2> QED
    BY <1>1, <2>1, ResizedShrunk, OneLeaves
<1>7. Leaves
  BY <1>4, <1>5, <1>6
<1> QED
  BY <1>2, <1>7 DEF Moves, TypeOK, InputEnabled

\* Every step is of one of the kinds.
LEMMA StepKinds ==
  ASSUME TypeOK, [Next]_vars
  PROVE  \/ UNCHANGED vars
         \/ \E msg : Comes(msg)
         \/ \E m, b, msg : Assigns(m, b, msg)
         \/ \E m, msg : Returns(m, msg)
         \/ \E r, i : Receives(r, i)
         \/ \E b, i : Reads(b, i)
         \/ Moves
<1>1. config.named \subseteq BufferNames /\ InputEnabled \subseteq Machines
  BY ConfigTypes DEF TypeOK
<1>2. ASSUME NEW m \in Machines, NEW mid \in Mids, NEW v \in Vals,
             \/ Output(m, mid, v)
             \/ \E r \in Machines : OutputTo(m, r, mid, v)
             \/ \E b \in config.named : PushStatement(m, b, mid, v) \/ Assign(m, b, mid, v)
      PROVE  (\E msg : Comes(msg)) \/ \E n, b, msg : Assigns(n, b, msg)
  BY <1>1, <1>2, OutputComes, OutputToComes, PushComes, AssignAssigns
<1>3. ASSUME NEW m \in Machines, NEW mid \in Mids,
             \/ Input(m, mid)
             \/ \E s \in Machines : InputFrom(m, s, mid)
             \/ \E b \in config.named : RemoveStatement(m, b, mid)
      PROVE  (\E r, i : Receives(r, i)) \/ Moves
  BY <1>1, <1>3, InputReceives, InputFromReceives, StatementsMove
<1>6. ASSUME NEW m \in Machines, NEW b \in config.named,
             TopStatement(m, b) \/ PushMessage(m, b) \/ AssignMessage(m, b)
      PROVE  (\E n, msg : Returns(n, msg)) \/ \E c, i : Reads(c, i)
  BY <1>1, <1>6, TopReads, PushReturns, AssignReturns
<1>4. ASSUME NEW m \in Machines, NEW b \in config.named,
             \/ PopStatement(m, b)
             \/ ClearStatement(m, b)
             \/ \E n \in 0 .. config.maxSent : ResizeStatement(m, b, n)
      PROVE  (\E r, i : Receives(r, i)) \/ Moves
  BY <1>1, <1>4, PopReceives, StatementsMove
<1>5. (\E m \in InputEnabled : Enter(m)) \/ SkipOne \/ Leave => Moves
  BY EnterMoves, SkipOneMoves, LeaveMoves
<1> QED
  BY <1>2, <1>3, <1>4, <1>5, <1>6 DEF Next

-----------------------------------------------------------------------------
(* Types. *)

LEMMA InitType == Init => TypeOK
<1> SUFFICES ASSUME Init PROVE TypeOK
  OBVIOUS
<1>1. <<>> \in Seq(Message) /\ <<>> \in Seq(Receipt)
  BY EmptySeq
<1>2. \A b \in BufferNames : [ msgs |-> <<>>, cap |-> config.capacity[b] ] \in Buffer
  BY <1>1, ConfigTypes DEF Init, Buffer
<1>3. 0 \in 0 .. config.maxSent
  BY ConfigTypes DEF Init
<1> QED
  BY <1>1, <1>2, <1>3 DEF Init, TypeOK, InputEnabled

LEMMA StepType ==
  ASSUME TypeOK, [Next]_vars
  PROVE  TypeOK'
<1>1. got \in Seq(Receipt) /\ sent \in 0 .. config.maxSent /\ config.maxSent \in Nat
  BY ConfigTypes DEF TypeOK
<1>2. CASE UNCHANGED vars
  BY <1>2 DEF vars, TypeOK, InputEnabled
<1>3. ASSUME NEW msg, Comes(msg) PROVE TypeOK'
  <2>1. sent' \in 0 .. config.maxSent
    BY <1>1, <1>3 DEF Comes
  <2> QED
    BY <1>3, <2>1 DEF Comes, PutIn, Typed, TypeOK, InputEnabled
<1>4. ASSUME NEW m, NEW b, NEW msg, Assigns(m, b, msg) PROVE TypeOK'
  <2>1. sent' \in 0 .. config.maxSent
    BY <1>1, <1>4 DEF Assigns
  <2> QED
    BY <1>4, <2>1 DEF Assigns, PutOver, Typed, TypeOK, InputEnabled
<1>5. ASSUME NEW r, NEW i, Receives(r, i) PROVE TypeOK'
  <2>1. r \in Receipt /\ got' = Append(got, r)
    BY <1>5 DEF Receives
  <2>2. got' \in Seq(Receipt)
    BY <1>1, <2>1, AppendProperties
  <2>3. held' \subseteq Message
    BY <1>5, <2>1 DEF Receives, Receipt, TypeOK
  <2> QED
    BY <1>5, <2>2, <2>3 DEF Receives, Leaves, Typed, TypeOK, InputEnabled
<1>6. CASE Moves
  BY <1>6 DEF Moves, Leaves, Typed, TypeOK, InputEnabled
<1>7. ASSUME NEW m, NEW msg, Returns(m, msg) PROVE TypeOK'
  BY <1>7 DEF Returns, PutIn, PutOver, Typed, TypeOK, InputEnabled
<1>8. ASSUME NEW b, NEW i, Reads(b, i) PROVE TypeOK'
  <2>1. buf[b].msgs[i] \in Message
    BY <1>8, BufferType, ElementOfSeq DEF Reads
  <2>2. held' \subseteq Message
    BY <1>8, <2>1 DEF Reads, TypeOK
  <2> QED
    BY <1>8, <2>2 DEF Reads, TypeOK, InputEnabled
<1> QED
  BY <1>2, <1>3, <1>4, <1>5, <1>6, <1>7, <1>8, StepKinds

\* Every variable keeps its type in every program, and input_enabled its machine.
THEOREM TypeCorrect == Spec => []TypeOK
<1>1. TypeOK /\ [Next]_vars => TypeOK'
  BY StepType
<1> QED
  BY <1>1, InitType, PTL DEF Spec

-----------------------------------------------------------------------------
(* Capacities. *)

LEMMA StepCapacity ==
  ASSUME TypeOK, WithinCapacity, [Next]_vars
  PROVE  WithinCapacity'
<1> SUFFICES ASSUME NEW b \in BufferNames, Policy[b] \in Queues, config' = config
             PROVE  Len(buf'[b].msgs) <= buf'[b].cap
  <2>1. config' = config
    BY StepKinds DEF vars, Comes, Assigns, Returns, Receives, Reads, Moves
  <2> QED
    BY <2>1 DEF WithinCapacity, Policy
<1>1. /\ Len(buf[b].msgs) <= buf[b].cap /\ Len(buf[b].msgs) \in Nat /\ buf[b].cap \in Nat
      /\ buf[b].msgs \in Seq(Message) /\ buf[b] \in BufferOf(Message)
  BY BufferType, BufferFields DEF WithinCapacity
<1>2. Policy[b] # "RAM"
  BY DEF Queues, Searched
<1>3. CASE UNCHANGED vars
  BY <1>1, <1>3 DEF vars
<1>4. ASSUME NEW msg \in Message, PutIn(msg) PROVE Len(buf'[b].msgs) <= buf'[b].cap
  <2>1. Grown(Policy[b], buf'[b], buf[b], msg)
    BY <1>4 DEF PutIn
  <2>2. Len(Append(buf[b].msgs, msg)) = Len(buf[b].msgs) + 1
    BY <1>1, AppendProperties
  <2> QED
    BY <1>1, <1>2, <2>1, <2>2 DEF Grown
<1>5. ASSUME NEW c, NEW msg \in Message, PutOver(c, msg) PROVE Len(buf'[b].msgs) <= buf'[b].cap
  <2>1. CASE c # b
    BY <1>1, <1>5, <2>1 DEF PutOver, OnlyIn
  <2>2. CASE c = b
    <3>1. PICK k \in 1 .. Len(buf[b].msgs) : buf'[b].msgs = [buf[b].msgs EXCEPT ![k] = msg]
      BY <1>2, <1>5, <2>2 DEF PutOver
    <3>2. Len(buf'[b].msgs) = Len(buf[b].msgs) /\ buf'[b].cap = buf[b].cap
      BY <1>1, <1>5, <2>2, <3>1, ExceptSeq DEF PutOver
    <3> QED
      BY <1>1, <3>2
  <2> QED
    BY <2>1, <2>2
<1>6. ASSUME Leaves PROVE Len(buf'[b].msgs) <= buf'[b].cap
  BY <1>1, <1>6 DEF Leaves, Shrunk
<1>7. ASSUME NEW m, NEW msg, Returns(m, msg) PROVE Len(buf'[b].msgs) <= buf'[b].cap
  <2>1. msg \in Message
    BY <1>7 DEF Returns, TypeOK
  <2> QED
    BY <1>4, <1>5, <1>7, <2>1 DEF Returns
<1>8. ASSUME NEW c, NEW i, Reads(c, i) PROVE Len(buf'[b].msgs) <= buf'[b].cap
  BY <1>1, <1>8 DEF Reads
<1> QED
  BY <1>3, <1>4, <1>5, <1>6, <1>7, <1>8, StepKinds DEF Comes, Assigns, Receives, Moves

\* In every program, no queue ever holds more than its capacity.
THEOREM CapacityKept == Spec => []WithinCapacity
<1>1. Init => WithinCapacity
  <2> SUFFICES ASSUME Init, NEW b \in BufferNames PROVE Len(buf[b].msgs) <= buf[b].cap
    BY DEF WithinCapacity
  <2>1. config.capacity[b] \in Nat /\ Len(<<>>) = 0
    BY ConfigTypes, EmptySeq DEF Init
  <2> QED
    BY <2>1 DEF Init
<1>2. TypeOK /\ WithinCapacity /\ [Next]_vars => WithinCapacity'
  BY StepCapacity
<1> QED
  BY <1>1, <1>2, TypeCorrect, PTL DEF Spec

-----------------------------------------------------------------------------
(* The numbers of the messages. *)

\* The messages of a list were built so far, and are different ones but for those of H; or they
\* are also in the order they were built.
Numbered(s, n, H) ==
  /\ \A i \in 1 .. Len(s) : s[i].id <= n
  /\ \A i, j \in 1 .. Len(s) : i # j => s[i].id # s[j].id \/ s[i].id \in H
Growing(s) == \A i, j \in 1 .. Len(s) : i < j => s[i].id < s[j].id

\* In each buffer the messages are different ones, but for those that were read, which may have
\* been put back: any other, once taken out, is out for good.
HeldIds == { m.id : m \in held }
Fresh ==
  /\ \A b \in BufferNames : Numbered(buf[b].msgs, sent, HeldIds)
  /\ \A m \in held : m.id <= sent

LEMMA PartNumbered ==
  ASSUME NEW s, NEW t, Len(t) \in Nat, Len(s) \in Nat, Part(t, s), NEW n, NEW H
  PROVE  /\ Numbered(s, n, H) => Numbered(t, n, H)
         /\ Growing(s) => Growing(t)
         /\ \A i \in 1 .. Len(t) : \E j \in 1 .. Len(s) : t[i] = s[j]
<1>1. PICK f \in [1 .. Len(t) -> 1 .. Len(s)] :
        /\ \A i, j \in 1 .. Len(t) : i < j => f[i] < f[j]
        /\ \A i \in 1 .. Len(t) : t[i] = s[f[i]]
  BY DEF Part
<1>2. \A i \in 1 .. Len(t) : f[i] \in 1 .. Len(s)
  BY <1>1
<1>3. ASSUME NEW i \in 1 .. Len(t), NEW j \in 1 .. Len(t), i # j PROVE f[i] # f[j]
  <2>1. i < j \/ j < i
    BY <1>3
  <2>2. f[i] < f[j] \/ f[j] < f[i]
    BY <1>1, <2>1
  <2> QED
    BY <1>2, <2>2
<1>4. ASSUME Numbered(s, n, H) PROVE Numbered(t, n, H)
  <2>1. ASSUME NEW i \in 1 .. Len(t) PROVE t[i].id <= n
    BY <1>1, <1>2, <1>4 DEF Numbered
  <2>2. ASSUME NEW i \in 1 .. Len(t), NEW j \in 1 .. Len(t), i # j
        PROVE  t[i].id # t[j].id \/ t[i].id \in H
    <3>1. t[i] = s[f[i]] /\ t[j] = s[f[j]] /\ f[i] # f[j]
      BY <1>1, <1>3, <2>2
    <3> QED
      BY <1>2, <1>4, <3>1 DEF Numbered
  <2> QED
    BY <2>1, <2>2 DEF Numbered
<1>5. Growing(s) => Growing(t)
  BY <1>1, <1>2 DEF Growing
<1> QED
  BY <1>1, <1>2, <1>4, <1>5

\* The numbers of a list of messages are numbers.
LEMMA IdType ==
  ASSUME NEW s \in Seq(Message)
  PROVE  Len(s) \in Nat /\ \A i \in 1 .. Len(s) : s[i] \in Message /\ s[i].id \in Nat
<1>1. Len(s) \in Nat /\ \A i \in 1 .. Len(s) : s[i] \in Message
  BY LenProperties, ElementOfSeq
<1> QED
  BY <1>1 DEF Message

\* As more messages are built, and more are read.
LEMMA MoreNumbered ==
  ASSUME NEW s \in Seq(Message), NEW n \in Nat, NEW k \in Nat, n <= k, NEW H, NEW G, H \subseteq G,
         Numbered(s, n, H)
  PROVE  Numbered(s, k, G)
BY IdType DEF Numbered

\* A list to which a message is appended, the next one or one of H.
LEMMA AppendNumbered ==
  ASSUME NEW s \in Seq(Message), NEW n \in Nat, NEW k \in Nat, n <= k, NEW H, NEW msg \in Message,
         msg.id <= k, n < msg.id \/ msg.id \in H, Numbered(s, n, H)
  PROVE  /\ Numbered(Append(s, msg), k, H)
         /\ n < msg.id /\ Growing(s) => Growing(Append(s, msg))
         /\ \A i \in 1 .. Len(Append(s, msg)) :
              Append(s, msg)[i] = msg \/ \E j \in 1 .. Len(s) : Append(s, msg)[i] = s[j]
<1> DEFINE t == Append(s, msg)
<1>1. /\ Len(s) \in Nat /\ msg.id \in Nat
      /\ \A i \in 1 .. Len(s) : s[i].id \in Nat /\ s[i].id <= n
  BY IdType DEF Numbered, Message
<1>2. Len(t) = Len(s) + 1 /\ t[Len(s) + 1] = msg /\ \A i \in 1 .. Len(s) : t[i] = s[i]
  BY AppendProperties
<1> HIDE DEF t
<1>3. \A i \in 1 .. Len(t) : i \in 1 .. Len(s) \/ i = Len(s) + 1
  BY <1>1, <1>2
<1>4. Numbered(t, k, H)
  <2>1. \A i, j \in 1 .. Len(s) : i # j => s[i].id # s[j].id \/ s[i].id \in H
    BY DEF Numbered
  <2>2. \A i \in 1 .. Len(s) : t[i].id \in Nat /\ t[i].id <= n /\ t[i].id = s[i].id
    BY <1>1, <1>2
  <2>3. t[Len(s) + 1].id = msg.id
    BY <1>2
  <2>4. \A i \in 1 .. Len(t) : t[i].id <= k
    BY <1>3, <2>2, <2>3
  <2>5. ASSUME NEW i \in 1 .. Len(t), NEW j \in 1 .. Len(t), i # j
        PROVE  t[i].id # t[j].id \/ t[i].id \in H
    <3>1. CASE i \in 1 .. Len(s) /\ j \in 1 .. Len(s)
      BY <2>1, <2>2, <2>5, <3>1
    <3>2. CASE i \in 1 .. Len(s) /\ j = Len(s) + 1
      <4>1. CASE n < msg.id
        BY <1>1, <2>2, <2>3, <3>2, <4>1
      <4>2. CASE msg.id \in H
        BY <2>3, <3>2, <4>2
      <4> QED
        BY <4>1, <4>2
    <3>3. CASE i = Len(s) + 1 /\ j \in 1 .. Len(s)
      <4>1. CASE n < msg.id
        BY <1>1, <2>2, <2>3, <3>3, <4>1
      <4>2. CASE msg.id \in H
        BY <2>3, <3>3, <4>2
      <4> QED
        BY <4>1, <4>2
    <3> QED
      BY <1>3, <2>5, <3>1, <3>2, <3>3
  <2> QED
    BY <2>4, <2>5 DEF Numbered
<1>5. n < msg.id /\ Growing(s) => Growing(t)
  <2> SUFFICES ASSUME n < msg.id, Growing(s), NEW i \in 1 .. Len(t), NEW j \in 1 .. Len(t), i < j
               PROVE  t[i].id < t[j].id
    BY DEF Growing
  <2>1. i \in 1 .. Len(s)
    BY <1>1, <1>2
  <2>2. CASE j \in 1 .. Len(s)
    BY <1>2, <2>1, <2>2 DEF Growing
  <2>3. CASE j = Len(s) + 1
    BY <1>1, <1>2, <2>1, <2>3
  <2> QED
    BY <1>3, <2>2, <2>3
<1>6. \A i \in 1 .. Len(t) : t[i] = msg \/ \E j \in 1 .. Len(s) : t[i] = s[j]
  BY <1>2, <1>3
<1> QED
  BY <1>4, <1>5, <1>6 DEF t

\* A register that is written.
LEMMA OneNumbered ==
  ASSUME NEW k, NEW H, NEW msg, msg.id <= k
  PROVE  Numbered(<<msg>>, k, H) /\ \A i \in 1 .. Len(<<msg>>) : <<msg>>[i] = msg
<1>1. Len(<<msg>>) = 1 /\ <<msg>>[1] = msg
  OBVIOUS
<1>2. \A i \in 1 .. Len(<<msg>>) : i = 1
  BY <1>1
<1> QED
  BY <1>1, <1>2 DEF Numbered

\* A list with the message msg at some place instead of what was there.
Overwritten(t, s, msg) ==
  /\ Len(t) = Len(s)
  /\ \E p \in 1 .. Len(s) : \A i \in 1 .. Len(s) : t[i] = IF i = p THEN msg ELSE s[i]

LEMMA ExceptNumbered ==
  ASSUME NEW s \in Seq(Message), NEW n \in Nat, NEW k \in Nat, n <= k, NEW H, NEW msg \in Message,
         msg.id <= k, n < msg.id \/ msg.id \in H, Numbered(s, n, H),
         NEW t, Overwritten(t, s, msg)
  PROVE  Numbered(t, k, H)
<1>1. /\ Len(s) \in Nat /\ msg.id \in Nat
      /\ \A i \in 1 .. Len(s) : s[i].id \in Nat /\ s[i].id <= n
  BY IdType DEF Numbered, Message
<1>2. PICK p \in 1 .. Len(s) : Len(t) = Len(s) /\ \A i \in 1 .. Len(s) : t[i] = IF i = p THEN msg ELSE s[i]
  BY DEF Overwritten
<1>3. Numbered(t, k, H)
  <2>1. \A i, j \in 1 .. Len(s) : i # j => s[i].id # s[j].id \/ s[i].id \in H
    BY DEF Numbered
  <2>2. \A i \in 1 .. Len(s) \ {p} : t[i].id \in Nat /\ t[i].id <= n /\ t[i].id = s[i].id
    BY <1>1, <1>2
  <2>3. t[p].id = msg.id
    BY <1>2
  <2>4. Len(t) = Len(s)
    BY <1>2
  <2>5. \A i \in 1 .. Len(t) : t[i].id <= k
    BY <2>2, <2>3, <2>4
  <2>6. ASSUME NEW i \in 1 .. Len(t), NEW j \in 1 .. Len(t), i # j
        PROVE  t[i].id # t[j].id \/ t[i].id \in H
    <3>1. CASE i # p /\ j # p
      BY <2>1, <2>2, <2>4, <2>6, <3>1
    <3>2. CASE msg.id \in H /\ (i = p \/ j = p)
      BY <2>3, <3>2
    <3>3. CASE n < msg.id /\ (i = p \/ j = p)
      BY <1>1, <2>2, <2>3, <2>4, <2>6, <3>3
    <3> QED
      BY <3>1, <3>2, <3>3
  <2> QED
    BY <2>5, <2>6 DEF Numbered
<1> QED
  BY <1>3

\* What a buffer holds once a message is put in: the message, all else was there.
LEMMA PutNumbered ==
  ASSUME TypeOK, Fresh, NEW msg \in Message, PutIn(msg) \/ \E c : PutOver(c, msg),
         NEW k \in Nat, sent <= k, msg.id <= k, sent < msg.id \/ msg.id \in HeldIds,
         NEW b \in BufferNames
  PROVE  /\ Numbered(buf'[b].msgs, k, HeldIds)
         /\ \A i \in 1 .. Len(buf'[b].msgs) :
              buf'[b].msgs[i] = msg \/ \E j \in 1 .. Len(buf[b].msgs) : buf'[b].msgs[i] = buf[b].msgs[j]
<1>1. buf[b].msgs \in Seq(Message) /\ Numbered(buf[b].msgs, sent, HeldIds) /\ sent \in Nat
  BY ConfigTypes, BufferType DEF Fresh, TypeOK
<1>2. CASE buf'[b].msgs = buf[b].msgs
  BY <1>1, <1>2, MoreNumbered
<1>3. CASE buf'[b].msgs = <<msg>>
  BY <1>3, OneNumbered
<1>4. CASE buf'[b].msgs = Append(buf[b].msgs, msg)
  BY <1>1, <1>4, AppendNumbered
<1>5. CASE \E p \in 1 .. Len(buf[b].msgs) : buf'[b].msgs = [buf[b].msgs EXCEPT ![p] = msg]
  <2>1. PICK p \in 1 .. Len(buf[b].msgs) : buf'[b].msgs = [buf[b].msgs EXCEPT ![p] = msg]
    BY <1>5
  <2>2. PICK s : s = buf[b].msgs
    OBVIOUS
  <2>3. PICK t : t = [s EXCEPT ![p] = msg]
    OBVIOUS
  <2>4. Overwritten(t, s, msg) /\ \A i \in 1 .. Len(t) : t[i] = msg \/ \E j \in 1 .. Len(s) : t[i] = s[j]
    <3>1. s \in Seq(Message) /\ p \in 1 .. Len(s)
      BY <1>1, <2>1, <2>2
    <3>2. Len(t) = Len(s) /\ \A i \in 1 .. Len(s) : t[i] = IF i = p THEN msg ELSE s[i]
      BY <2>3, <3>1, ExceptSeq
    <3> QED
      BY <3>1, <3>2 DEF Overwritten
  <2>5. /\ s \in Seq(Message) /\ sent \in Nat /\ p \in 1 .. Len(s) /\ Numbered(s, sent, HeldIds)
        /\ k \in Nat /\ sent <= k /\ msg.id <= k /\ msg \in Message
        /\ sent < msg.id \/ msg.id \in HeldIds
    BY <1>1, <2>1, <2>2
  <2>6. /\ Numbered(t, k, HeldIds)
        /\ \A i \in 1 .. Len(t) : t[i] = msg \/ \E j \in 1 .. Len(s) : t[i] = s[j]
    BY <2>4, <2>5, ExceptNumbered
  <2> QED
    BY <2>1, <2>2, <2>3, <2>6
<1>6. ASSUME PutIn(msg)
      PROVE  \/ buf'[b].msgs = buf[b].msgs \/ buf'[b].msgs = <<msg>>
             \/ buf'[b].msgs = Append(buf[b].msgs, msg)
  BY <1>6 DEF PutIn, Grown
<1>7. ASSUME NEW c, PutOver(c, msg)
      PROVE  \/ buf'[b].msgs = buf[b].msgs \/ buf'[b].msgs = <<msg>>
             \/ \E p \in 1 .. Len(buf[b].msgs) : buf'[b].msgs = [buf[b].msgs EXCEPT ![p] = msg]
  <2>1. CASE c # b
    BY <1>7, <2>1 DEF PutOver, OnlyIn
  <2>2. CASE c = b
    BY <1>7, <2>2 DEF PutOver
  <2> QED
    BY <2>1, <2>2
<1> QED
  BY <1>2, <1>3, <1>4, <1>5, <1>6, <1>7

\* What comes in is the next message, at the end.
LEMMA ComesNumbered ==
  ASSUME TypeOK, Fresh, NEW msg, Comes(msg), NEW b \in BufferNames
  PROVE  /\ Numbered(buf'[b].msgs, sent', HeldIds)
         /\ Policy[b] = "FIFO" /\ Growing(buf[b].msgs) => Growing(buf'[b].msgs)
         /\ \A i \in 1 .. Len(buf'[b].msgs) :
              buf'[b].msgs[i] = msg \/ \E j \in 1 .. Len(buf[b].msgs) : buf'[b].msgs[i] = buf[b].msgs[j]
<1>1. /\ buf[b].msgs \in Seq(Message) /\ Numbered(buf[b].msgs, sent, HeldIds) /\ PutIn(msg)
      /\ sent \in Nat /\ sent' = sent + 1 /\ msg \in Message /\ msg.id = sent + 1
  BY ConfigTypes, BufferType DEF Fresh, Comes, TypeOK
<1>2. sent' \in Nat /\ sent <= sent' /\ msg.id <= sent' /\ sent < msg.id
  BY <1>1
<1>3. /\ Numbered(buf'[b].msgs, sent', HeldIds)
      /\ \A i \in 1 .. Len(buf'[b].msgs) :
           buf'[b].msgs[i] = msg \/ \E j \in 1 .. Len(buf[b].msgs) : buf'[b].msgs[i] = buf[b].msgs[j]
  BY <1>1, <1>2, PutNumbered
<1>4. ASSUME Policy[b] = "FIFO" PROVE buf'[b].msgs = buf[b].msgs \/ buf'[b].msgs = Append(buf[b].msgs, msg)
  BY <1>1, <1>4 DEF PutIn, Grown
<1>5. Growing(buf[b].msgs) => Growing(Append(buf[b].msgs, msg))
  BY <1>1, <1>2, AppendNumbered
<1> QED
  BY <1>3, <1>4, <1>5

\* So it is with an assignment, at the top.
LEMMA AssignsNumbered ==
  ASSUME TypeOK, Fresh, NEW m, NEW c, NEW msg, Assigns(m, c, msg), NEW b \in BufferNames
  PROVE  /\ Numbered(buf'[b].msgs, sent', HeldIds)
         /\ \A i \in 1 .. Len(buf'[b].msgs) :
              buf'[b].msgs[i] = msg \/ \E j \in 1 .. Len(buf[b].msgs) : buf'[b].msgs[i] = buf[b].msgs[j]
<1>1. /\ sent \in Nat /\ sent' = sent + 1 /\ msg \in Message /\ msg.id = sent + 1 /\ PutOver(c, msg)
  BY ConfigTypes DEF Assigns, TypeOK
<1>2. sent' \in Nat /\ sent <= sent' /\ msg.id <= sent' /\ sent < msg.id
  BY <1>1
<1> QED
  BY <1>1, <1>2, PutNumbered

\* And with a message that is put back.
LEMMA ReturnsNumbered ==
  ASSUME TypeOK, Fresh, NEW m, NEW msg, Returns(m, msg), NEW b \in BufferNames
  PROVE  /\ Numbered(buf'[b].msgs, sent, HeldIds)
         /\ \A i \in 1 .. Len(buf'[b].msgs) :
              buf'[b].msgs[i] = msg \/ \E j \in 1 .. Len(buf[b].msgs) : buf'[b].msgs[i] = buf[b].msgs[j]
<1>1. /\ msg \in Message /\ msg.id <= sent /\ msg.id \in HeldIds
      /\ sent \in Nat /\ sent <= sent /\ (PutIn(msg) \/ \E c : PutOver(c, msg))
  BY ConfigTypes DEF Returns, Fresh, HeldIds, TypeOK
<1> QED
  BY <1>1, PutNumbered

\* What stays when messages leave.
LEMMA LeavesNumbered ==
  ASSUME TypeOK, Leaves, NEW b \in BufferNames, NEW H
  PROVE  /\ Numbered(buf[b].msgs, sent, H) => Numbered(buf'[b].msgs, sent, H)
         /\ Growing(buf[b].msgs) => Growing(buf'[b].msgs)
         /\ \A i \in 1 .. Len(buf'[b].msgs) : \E j \in 1 .. Len(buf[b].msgs) : buf'[b].msgs[i] = buf[b].msgs[j]
<1>1. Part(buf'[b].msgs, buf[b].msgs)
  BY DEF Leaves, Shrunk
<1>2. Len(buf[b].msgs) \in Nat
  BY BufferType
<1>3. buf'[b] \in BufferOf(Message)
  BY BufferIs DEF Leaves, Typed
<1>4. Len(buf'[b].msgs) \in Nat
  BY <1>3, BufferFields
<1>5. PICK s : s = buf[b].msgs
  OBVIOUS
<1>6. PICK t : t = buf'[b].msgs
  OBVIOUS
<1>7. Len(s) \in Nat /\ Len(t) \in Nat /\ Part(t, s)
  BY <1>1, <1>2, <1>4, <1>5, <1>6
<1>8. /\ Numbered(s, sent, H) => Numbered(t, sent, H)
      /\ Growing(s) => Growing(t)
      /\ \A i \in 1 .. Len(t) : \E j \in 1 .. Len(s) : t[i] = s[j]
  BY <1>7, PartNumbered
<1> QED
  BY <1>5, <1>6, <1>8

\* More may have been read since.
LEMMA FreshFrom ==
  ASSUME TypeOK', NEW H, \A b \in BufferNames : Numbered(buf'[b].msgs, sent', H),
         H \subseteq HeldIds', \A m \in held' : m.id <= sent'
  PROVE  Fresh'
<1>1. sent' \in Nat
  BY ConfigTypes DEF TypeOK
<1>2. ASSUME NEW b \in BufferNames PROVE Numbered(buf'[b].msgs, sent', HeldIds')
  <2>1. buf'[b].msgs \in Seq(Message)
    BY DEF TypeOK, Buffer
  <2>2. sent' <= sent'
    BY <1>1
  <2> QED
    BY <1>1, <2>1, <2>2, MoreNumbered
<1> QED
  BY <1>2 DEF Fresh

LEMMA StepFresh ==
  ASSUME TypeOK, Fresh, [Next]_vars
  PROVE  Fresh'
<1>1. TypeOK' /\ sent \in Nat
  BY StepType, ConfigTypes DEF TypeOK
<1>2. \A m \in held : m.id \in Nat /\ m.id <= sent
  BY DEF Fresh, TypeOK, Message
<1>3. CASE UNCHANGED vars
  BY <1>3 DEF vars, Fresh, HeldIds
<1>4. ASSUME NEW msg, Comes(msg) PROVE Fresh'
  <2>1. held' = held /\ sent' = sent + 1
    BY <1>4 DEF Comes
  <2>2. HeldIds \subseteq HeldIds' /\ \A m \in held' : m.id <= sent'
    BY <1>1, <1>2, <2>1 DEF HeldIds
  <2> QED
    BY <1>1, <1>4, <2>2, ComesNumbered, FreshFrom
<1>5. ASSUME NEW m, NEW b, NEW msg, Assigns(m, b, msg) PROVE Fresh'
  <2>1. held' = held /\ sent' = sent + 1
    BY <1>5 DEF Assigns
  <2>2. HeldIds \subseteq HeldIds' /\ \A n \in held' : n.id <= sent'
    BY <1>1, <1>2, <2>1 DEF HeldIds
  <2> QED
    BY <1>1, <1>5, <2>2, AssignsNumbered, FreshFrom
<1>6. ASSUME NEW m, NEW msg, Returns(m, msg) PROVE Fresh'
  <2>1. held' = held /\ sent' = sent
    BY <1>6 DEF Returns
  <2>2. HeldIds \subseteq HeldIds' /\ \A n \in held' : n.id <= sent'
    BY <1>2, <2>1 DEF HeldIds
  <2>3. \A c \in BufferNames : Numbered(buf'[c].msgs, sent', HeldIds)
    BY <1>6, <2>1, ReturnsNumbered
  <2> QED
    BY <1>1, <2>2, <2>3, FreshFrom
<1>7. ASSUME Leaves, UNCHANGED sent,
             held' = held \/ \E b \in BufferNames : \E i \in 1 .. Len(buf[b].msgs) : held' = held \cup {buf[b].msgs[i]}
      PROVE  Fresh'
  <2>1. \A b \in BufferNames : Numbered(buf'[b].msgs, sent', HeldIds)
    BY <1>7, LeavesNumbered DEF Fresh
  <2>2. HeldIds \subseteq HeldIds'
    BY <1>7 DEF HeldIds
  <2>3. \A b \in BufferNames : \A i \in 1 .. Len(buf[b].msgs) : buf[b].msgs[i].id <= sent
    BY DEF Fresh, Numbered
  <2>4. \A m \in held' : m.id <= sent'
    BY <1>2, <1>7, <2>3
  <2> QED
    BY <1>1, <2>1, <2>2, <2>4, FreshFrom
<1>8. ASSUME NEW r, NEW i, Receives(r, i) PROVE Fresh'
  <2>1. /\ Leaves /\ UNCHANGED sent /\ r.buffer \in BufferNames /\ i \in 1 .. Len(buf[r.buffer].msgs)
        /\ held' = held \/ held' = held \cup {buf[r.buffer].msgs[i]}
    BY <1>8 DEF Receives, Receipt
  <2> QED
    BY <1>7, <2>1
<1>9. ASSUME NEW b, NEW i, Reads(b, i) PROVE Fresh'
  <2>1. UNCHANGED <<buf, sent>>
    BY <1>9 DEF Reads
  <2>2. Leaves
    BY <2>1, NoneLeaves
  <2> QED
    BY <1>7, <1>9, <2>1, <2>2 DEF Reads
<1>10. CASE Moves
  BY <1>7, <1>10 DEF Moves
<1> QED
  BY <1>3, <1>4, <1>5, <1>6, <1>8, <1>9, <1>10, StepKinds

\* A buffer that is empty at first.
LEMMA InitEmpty ==
  ASSUME Init
  PROVE  Fresh /\ got = <<>> /\ \A b \in BufferNames : buf[b].msgs = <<>> /\ Growing(buf[b].msgs)
<1>1. \A b \in BufferNames : buf[b].msgs = <<>>
  BY DEF Init
<1>2. 1 .. Len(<<>>) = {}
  OBVIOUS
<1> QED
  BY <1>1, <1>2 DEF Init, Fresh, Numbered, Growing, HeldIds

-----------------------------------------------------------------------------
(* The order of what is received. *)

\* a receipt of an input or of a pop from a FIFO
FromFIFO(r) == r.from = NoOne /\ Policy[r.buffer] = "FIFO"
NoAssign == \A m \in Machines : config.runs[m] \cap Reordering = {}

\* The messages of a FIFO are in the order they were built, and later than all that were
\* received from it, which are in order as well.
Ordered ==
  NoAssign =>
    /\ \A b \in BufferNames : Policy[b] = "FIFO" => Growing(buf[b].msgs)
    /\ \A n \in 1 .. Len(got) : FromFIFO(got[n]) =>
         /\ got[n].msg.id <= sent
         /\ \A i \in 1 .. Len(buf[got[n].buffer].msgs) :
              got[n].msg.id < buf[got[n].buffer].msgs[i].id
    /\ \A i, j \in 1 .. Len(got) :
         i < j /\ FromFIFO(got[i]) /\ FromFIFO(got[j]) /\ got[i].buffer = got[j].buffer
           => got[i].msg.id < got[j].msg.id

\* The receipts and their numbers.
LEMMA GotType ==
  ASSUME TypeOK
  PROVE  /\ Len(got) \in Nat /\ DOMAIN got = 1 .. Len(got)
         /\ \A n \in 1 .. Len(got) : /\ got[n] \in Receipt /\ got[n].buffer \in BufferNames
                                   /\ got[n].msg.id \in Nat
<1>1. got \in Seq(Receipt)
  BY DEF TypeOK
<1>2. Len(got) \in Nat /\ DOMAIN got = 1 .. Len(got) /\ \A n \in 1 .. Len(got) : got[n] \in Receipt
  BY <1>1, LenProperties, ElementOfSeq
<1>3. \A r \in Receipt : r.buffer \in BufferNames /\ r.msg.id \in Nat
  BY DEF Receipt, Message
<1> QED
  BY <1>2, <1>3

LEMMA OrderedInOrder == TypeOK /\ Ordered => InOrder
BY GotType DEF Ordered, InOrder, NoAssign, FromFIFO

\* A step that receives nothing and puts new messages behind the old ones keeps the order.
LEMMA OrderKept ==
  ASSUME TypeOK, Ordered, UNCHANGED <<config, got>>, sent' \in {sent, sent + 1},
         NoAssign => \A b \in BufferNames : Policy[b] = "FIFO" =>
           /\ Growing(buf[b].msgs) => Growing(buf'[b].msgs)
           /\ \A i \in 1 .. Len(buf'[b].msgs) :
                \/ buf'[b].msgs[i].id = sent + 1
                \/ \E j \in 1 .. Len(buf[b].msgs) : buf'[b].msgs[i] = buf[b].msgs[j]
  PROVE  Ordered'
<1>1. sent \in Nat /\ sent' \in Nat /\ sent <= sent'
  BY ConfigTypes DEF TypeOK
<1> SUFFICES ASSUME NoAssign
             PROVE  /\ \A b \in BufferNames : Policy[b] = "FIFO" => Growing(buf'[b].msgs)
                    /\ \A n \in 1 .. Len(got) : FromFIFO(got[n]) =>
                         /\ got[n].msg.id <= sent'
                         /\ \A i \in 1 .. Len(buf'[got[n].buffer].msgs) :
                              got[n].msg.id < buf'[got[n].buffer].msgs[i].id
  BY DEF Ordered, NoAssign, FromFIFO, Policy
<1>2. \A b \in BufferNames : Policy[b] = "FIFO" => Growing(buf'[b].msgs)
  BY DEF Ordered
<1>3. ASSUME NEW n \in 1 .. Len(got), FromFIFO(got[n])
      PROVE  /\ got[n].msg.id <= sent'
             /\ \A i \in 1 .. Len(buf'[got[n].buffer].msgs) :
                  got[n].msg.id < buf'[got[n].buffer].msgs[i].id
  <2> DEFINE b == got[n].buffer
  <2>1. /\ b \in BufferNames /\ Policy[b] = "FIFO" /\ got[n].msg.id \in Nat /\ got[n].msg.id <= sent
        /\ \A i \in 1 .. Len(buf[b].msgs) : got[n].msg.id < buf[b].msgs[i].id
    BY <1>3, GotType DEF Ordered, FromFIFO
  <2>2. got[n].msg.id <= sent' /\ got[n].msg.id < sent + 1
    BY <1>1, <2>1
  <2>3. ASSUME NEW i \in 1 .. Len(buf'[b].msgs) PROVE got[n].msg.id < buf'[b].msgs[i].id
    BY <2>1, <2>2, <2>3
  <2> QED
    BY <2>2, <2>3
<1> QED
  BY <1>2, <1>3

\* What a queue keeps once its message i is taken out.
LEMMA TakenNumbered ==
  ASSUME NEW p, p # "RAM", NEW b \in BufferOf(Message), NEW i \in 1 .. Len(b.msgs), NEW n, NEW H,
         Numbered(b.msgs, n, H)
  PROVE  \A j \in 1 .. Len(Taken(p, b, i).msgs) :
           /\ Taken(p, b, i).msgs[j].id # b.msgs[i].id \/ b.msgs[i].id \in H
           /\ i = 1 /\ Growing(b.msgs) => b.msgs[i].id < Taken(p, b, i).msgs[j].id
<1>1. b.msgs \in Seq(Message) /\ Len(b.msgs) \in Nat
  BY BufferFields
<1>2. Taken(p, b, i).msgs = RemoveAt(b.msgs, i)
  BY DEF Taken, BufferOf
<1>3. Len(RemoveAt(b.msgs, i)) = Len(b.msgs) - 1
  BY <1>1, RemoveAtType
<1>4. ASSUME NEW j \in 1 .. Len(b.msgs) - 1
      PROVE  /\ RemoveAt(b.msgs, i)[j].id # b.msgs[i].id \/ b.msgs[i].id \in H
             /\ i = 1 /\ Growing(b.msgs) => b.msgs[i].id < RemoveAt(b.msgs, i)[j].id
  <2>1. RemoveAt(b.msgs, i)[j] = IF j < i THEN b.msgs[j] ELSE b.msgs[j + 1]
    BY <1>1, RemoveAtElements
  <2>2. j \in 1 .. Len(b.msgs) /\ j + 1 \in 1 .. Len(b.msgs)
    BY <1>1
  <2>3. CASE j < i
    BY <1>1, <2>1, <2>2, <2>3 DEF Numbered
  <2>4. CASE ~ (j < i)
    <3>1. i # j + 1 /\ i < j + 1 /\ RemoveAt(b.msgs, i)[j] = b.msgs[j + 1]
      BY <1>1, <2>1, <2>4
    <3> QED
      BY <1>1, <2>2, <3>1 DEF Numbered, Growing
  <2> QED
    BY <2>3, <2>4
<1> QED
  BY <1>2, <1>3, <1>4

\* A receipt from a FIFO is later than those before it, and what stays is later still.
LEMMA ReceivesOrdered ==
  ASSUME TypeOK, Fresh, Ordered, NEW r, NEW i, Receives(r, i)
  PROVE  Ordered'
<1>1. /\ r \in Receipt /\ r.buffer \in BufferNames /\ i \in 1 .. Len(buf[r.buffer].msgs)
      /\ r.msg = buf[r.buffer].msgs[i] /\ got' = Append(got, r)
      /\ UNCHANGED <<config, sent>> /\ Leaves
  BY DEF Receives, Receipt
<1>2. /\ Len(got') = Len(got) + 1 /\ got'[Len(got) + 1] = r
      /\ \A n \in 1 .. Len(got) : got'[n] = got[n]
  BY <1>1, AppendProperties DEF TypeOK
<1>3. /\ Len(got) \in Nat
      /\ \A n \in 1 .. Len(got') : n \in 1 .. Len(got) \/ n = Len(got) + 1
  BY <1>2, GotType
<1> SUFFICES ASSUME NoAssign PROVE Ordered'
  BY <1>1 DEF Ordered, NoAssign
<1>4. ASSUME NEW b \in BufferNames, Policy[b] = "FIFO"
      PROVE  /\ Growing(buf[b].msgs) /\ Growing(buf'[b].msgs)
             /\ \A k \in 1 .. Len(buf'[b].msgs) : \E j \in 1 .. Len(buf[b].msgs) : buf'[b].msgs[k] = buf[b].msgs[j]
  BY <1>1, <1>4, LeavesNumbered DEF Ordered
<1>5. ASSUME NEW n \in 1 .. Len(got), FromFIFO(got[n])
      PROVE  /\ got[n].msg.id <= sent
             /\ \A k \in 1 .. Len(buf'[got[n].buffer].msgs) : got[n].msg.id < buf'[got[n].buffer].msgs[k].id
             /\ got[n].buffer = r.buffer => got[n].msg.id < r.msg.id
  <2>1. /\ got[n].buffer \in BufferNames /\ Policy[got[n].buffer] = "FIFO" /\ got[n].msg.id <= sent
        /\ \A k \in 1 .. Len(buf[got[n].buffer].msgs) : got[n].msg.id < buf[got[n].buffer].msgs[k].id
    BY <1>5, GotType DEF Ordered, FromFIFO
  <2> QED
    BY <1>1, <1>4, <2>1
<1>6. ASSUME FromFIFO(r)
      PROVE  /\ r.msg.id <= sent
             /\ \A k \in 1 .. Len(buf'[r.buffer].msgs) : r.msg.id < buf'[r.buffer].msgs[k].id
  <2>1. /\ Policy[r.buffer] = "FIFO" /\ i = 1
        /\ buf'[r.buffer] = Taken(Policy[r.buffer], buf[r.buffer], i)
    BY <1>6 DEF FromFIFO, Receives
  <2>2. buf[r.buffer] \in BufferOf(Message) /\ Numbered(buf[r.buffer].msgs, sent, HeldIds) /\ Growing(buf[r.buffer].msgs)
    BY <1>1, <1>4, <2>1, BufferType DEF Fresh
  <2>3. Policy[r.buffer] # "RAM"
    BY <2>1
  <2>4. \A k \in 1 .. Len(buf'[r.buffer].msgs) : buf[r.buffer].msgs[i].id < buf'[r.buffer].msgs[k].id
    BY <1>1, <2>1, <2>2, <2>3, TakenNumbered
  <2> QED
    BY <1>1, <2>2, <2>4 DEF Numbered
<1>7. /\ UNCHANGED <<config, sent>>
      /\ \A n \in 1 .. Len(got') : FromFIFO(got'[n]) =>
           /\ got'[n].msg.id <= sent
           /\ \A k \in 1 .. Len(buf'[got'[n].buffer].msgs) : got'[n].msg.id < buf'[got'[n].buffer].msgs[k].id
  BY <1>1, <1>2, <1>3, <1>5, <1>6
<1>8. ASSUME NEW n \in 1 .. Len(got'), NEW k \in 1 .. Len(got'), n < k,
             FromFIFO(got'[n]), FromFIFO(got'[k]), got'[n].buffer = got'[k].buffer
      PROVE  got'[n].msg.id < got'[k].msg.id
  <2>1. n \in 1 .. Len(got)
    BY <1>2, <1>3, <1>8
  <2>2. CASE k \in 1 .. Len(got)
    BY <1>2, <1>8, <2>1, <2>2 DEF Ordered
  <2>3. CASE k = Len(got) + 1
    BY <1>2, <1>5, <1>8, <2>1, <2>3
  <2> QED
    BY <1>3, <2>2, <2>3
<1> QED
  BY <1>4, <1>7, <1>8 DEF Ordered, NoAssign, FromFIFO, Policy

LEMMA StepOrdered ==
  ASSUME TypeOK, Fresh, Ordered, [Next]_vars
  PROVE  Ordered'
<1>1. CASE UNCHANGED vars
  BY <1>1 DEF vars, Ordered, NoAssign, FromFIFO, Policy
<1>2. ASSUME NEW msg, Comes(msg) PROVE Ordered'
  <2>1. msg.id = sent + 1 /\ sent' = sent + 1 /\ UNCHANGED <<config, got>>
    BY <1>2 DEF Comes
  <2> QED
    BY <1>2, <2>1, ComesNumbered, OrderKept
<1>3. ASSUME NEW m, NEW b, NEW msg, Assigns(m, b, msg) PROVE Ordered'
  <2>1. ~ NoAssign /\ UNCHANGED config
    BY <1>3 DEF Assigns, NoAssign, Reordering
  <2> QED
    BY <2>1 DEF Ordered, NoAssign
<1>4. ASSUME NEW r, NEW i, Receives(r, i) PROVE Ordered'
  BY <1>4, ReceivesOrdered
<1>5. CASE Moves
  <2>1. Leaves /\ sent' = sent /\ UNCHANGED <<config, got>>
    BY <1>5 DEF Moves
  <2> QED
    BY <2>1, LeavesNumbered, OrderKept
<1>6. ASSUME NEW m, NEW msg, Returns(m, msg) PROVE Ordered'
  <2>1. ~ NoAssign /\ UNCHANGED config
    BY <1>6 DEF Returns, NoAssign, Reordering
  <2> QED
    BY <2>1 DEF Ordered, NoAssign
<1>7. ASSUME NEW b, NEW i, Reads(b, i) PROVE Ordered'
  <2>1. UNCHANGED <<config, buf, got, sent>>
    BY <1>7 DEF Reads
  <2> QED
    BY <2>1 DEF Ordered, NoAssign, FromFIFO, Policy
<1> QED
  BY <1>1, <1>2, <1>3, <1>4, <1>5, <1>6, <1>7, StepKinds

\* In every program that neither assigns the top of a buffer nor puts back a message it has read,
\* messages are received from a FIFO once and in the order they were output, whatever is refused,
\* skipped, read, removed or resized.
THEOREM ReceivedInOrder == Spec => []InOrder
<1>1. Init => TypeOK /\ Fresh /\ Ordered
  <2>1. 1 .. Len(<<>>) = {}
    OBVIOUS
  <2> QED
    BY <2>1, InitType, InitEmpty DEF Ordered
<1>2. TypeOK /\ Fresh /\ Ordered /\ [Next]_vars => (TypeOK /\ Fresh /\ Ordered)'
  BY StepType, StepFresh, StepOrdered
<1>3. TypeOK /\ Fresh /\ Ordered => InOrder
  BY OrderedInOrder
<1> QED
  BY <1>1, <1>2, <1>3, PTL DEF Spec

-----------------------------------------------------------------------------
(* The buffers implement the channel. *)

\* the copies in buffers f, and those that receipts g took
CopiesHeld(f) == UNION { { <<b, m.id>> : m \in Range(f[b].msgs) } : b \in BufferNames }
CopiesTaken(g) == { <<g[i].buffer, g[i].msg.id>> : i \in { n \in DOMAIN g : g[n].from = NoOne } }

\* A copy is in transit when it is at some place of some buffer.
LEMMA CopyIn ==
  ASSUME NEW f \in [BufferNames -> Buffer], NEW c
  PROVE  c \in CopiesHeld(f) <=> \E b \in BufferNames : \E i \in 1 .. Len(f[b].msgs) : c = <<b, f[b].msgs[i].id>>
<1>1. \A b \in BufferNames : DOMAIN f[b].msgs = 1 .. Len(f[b].msgs)
  BY BufferIs, BufferFields
<1>2. \A b \in BufferNames : Range(f[b].msgs) = { f[b].msgs[i] : i \in 1 .. Len(f[b].msgs) }
  BY <1>1 DEF Range
<1>3. c \in CopiesHeld(f) <=> \E b \in BufferNames : \E m \in Range(f[b].msgs) : c = <<b, m.id>>
  BY DEF CopiesHeld
<1>4. ASSUME NEW b \in BufferNames
      PROVE  (\E m \in Range(f[b].msgs) : c = <<b, m.id>>)
               <=> \E i \in 1 .. Len(f[b].msgs) : c = <<b, f[b].msgs[i].id>>
  BY <1>2
<1> QED
  BY <1>3, <1>4

\* Where messages leave, no copy comes in.
LEMMA LeavesCopies ==
  ASSUME TypeOK, Leaves
  PROVE  CopiesHeld(buf') \subseteq CopiesHeld(buf)
<1>1. buf \in [BufferNames -> Buffer] /\ buf' \in [BufferNames -> Buffer]
  BY DEF TypeOK, Leaves, Typed
<1> SUFFICES ASSUME NEW c \in CopiesHeld(buf') PROVE c \in CopiesHeld(buf)
  OBVIOUS
<1>2. PICK b \in BufferNames : \E n \in 1 .. Len(buf'[b].msgs) : c = <<b, buf'[b].msgs[n].id>>
  BY <1>1, CopyIn
<1>i. PICK i \in 1 .. Len(buf'[b].msgs) : c = <<b, buf'[b].msgs[i].id>>
  BY <1>2
<1>3. \E j \in 1 .. Len(buf[b].msgs) : buf'[b].msgs[i] = buf[b].msgs[j]
  BY LeavesNumbered
<1> QED
  BY <1>1, <1>i, <1>3, CopyIn

\* Where a message is put in some buffers, the other copies were there.
LEMMA PutCopies ==
  ASSUME TypeOK, Typed, NEW msg, NEW S \in SUBSET BufferNames,
         \A b \in BufferNames : \A i \in 1 .. Len(buf'[b].msgs) :
           \/ b \in S /\ buf'[b].msgs[i] = msg
           \/ \E j \in 1 .. Len(buf[b].msgs) : buf'[b].msgs[i] = buf[b].msgs[j]
  PROVE  CopiesHeld(buf') \subseteq CopiesHeld(buf) \cup { <<b, msg.id>> : b \in S }
<1>1. buf \in [BufferNames -> Buffer] /\ buf' \in [BufferNames -> Buffer]
  BY DEF TypeOK, Typed
<1> SUFFICES ASSUME NEW c \in CopiesHeld(buf')
             PROVE  c \in CopiesHeld(buf) \/ \E b \in S : c = <<b, msg.id>>
  OBVIOUS
<1>2. PICK b \in BufferNames : \E n \in 1 .. Len(buf'[b].msgs) : c = <<b, buf'[b].msgs[n].id>>
  BY <1>1, CopyIn
<1>i. PICK i \in 1 .. Len(buf'[b].msgs) : c = <<b, buf'[b].msgs[i].id>>
  BY <1>2
<1>3. CASE b \in S /\ buf'[b].msgs[i] = msg
  BY <1>i, <1>3
<1>4. CASE \E j \in 1 .. Len(buf[b].msgs) : buf'[b].msgs[i] = buf[b].msgs[j]
  BY <1>1, <1>i, <1>4, CopyIn
<1> QED
  BY <1>3, <1>4

\* A copy that is received was in transit, and is out of its buffer but for a register, or for
\* one that was read and may have been put back.
LEMMA ReceivesCopies ==
  ASSUME TypeOK, Fresh, NEW r, NEW i, Receives(r, i), r.from = NoOne
  PROVE  /\ <<r.buffer, r.msg.id>> \in CopiesHeld(buf)
         /\ \/ Policy[r.buffer] = "RAM" \/ r.msg.id \in HeldIds
            \/ <<r.buffer, r.msg.id>> \notin CopiesHeld(buf')
<1>1. /\ r.buffer \in BufferNames /\ i \in 1 .. Len(buf[r.buffer].msgs)
      /\ r.msg = buf[r.buffer].msgs[i]
      /\ buf'[r.buffer] = Taken(Policy[r.buffer], buf[r.buffer], i)
      /\ buf \in [BufferNames -> Buffer] /\ buf' \in [BufferNames -> Buffer]
  BY DEF Receives, Receipt, TypeOK, Leaves, Typed
<1>2. <<r.buffer, r.msg.id>> \in CopiesHeld(buf)
  BY <1>1, CopyIn
<1>3. ASSUME Policy[r.buffer] # "RAM", r.msg.id \notin HeldIds,
             <<r.buffer, r.msg.id>> \in CopiesHeld(buf')
      PROVE  FALSE
  <2>1. PICK b \in BufferNames : \E k \in 1 .. Len(buf'[b].msgs) : <<r.buffer, r.msg.id>> = <<b, buf'[b].msgs[k].id>>
    BY <1>1, <1>3, CopyIn
  <2>2. buf[r.buffer] \in BufferOf(Message) /\ Numbered(buf[r.buffer].msgs, sent, HeldIds)
    BY <1>1, BufferType DEF Fresh
  <2>3. \A j \in 1 .. Len(buf'[r.buffer].msgs) : buf'[r.buffer].msgs[j].id # r.msg.id
    BY <1>1, <1>3, <2>2, TakenNumbered
  <2> QED
    BY <2>1, <2>3
<1> QED
  BY <1>2, <1>3

\* A receipt takes the copy it is of, when an input or a pop got it.
LEMMA ReceivesTaken ==
  ASSUME TypeOK, NEW r, NEW i, Receives(r, i)
  PROVE  CopiesTaken(got') =
           IF r.from = NoOne THEN CopiesTaken(got) \cup { <<r.buffer, r.msg.id>> } ELSE CopiesTaken(got)
<1>1. r \in Receipt /\ got' = Append(got, r) /\ got \in Seq(Receipt)
  BY DEF Receives, TypeOK
<1>2. /\ Len(got) \in Nat /\ DOMAIN got = 1 .. Len(got)
      /\ DOMAIN got' = 1 .. Len(got) + 1 /\ got'[Len(got) + 1] = r
      /\ \A n \in 1 .. Len(got) : got'[n] = got[n]
  BY <1>1, LenProperties, AppendProperties
<1>3. \A n : n \in DOMAIN got' <=> n \in DOMAIN got \/ n = Len(got) + 1
  BY <1>2
<1>4. ASSUME NEW c
      PROVE  c \in CopiesTaken(got') <=>
               c \in CopiesTaken(got) \/ (r.from = NoOne /\ c = <<r.buffer, r.msg.id>>)
  <2>1. c \in CopiesTaken(got') <=>
          \E n \in DOMAIN got' : got'[n].from = NoOne /\ c = <<got'[n].buffer, got'[n].msg.id>>
    BY DEF CopiesTaken
  <2>2. c \in CopiesTaken(got) <=>
          \E n \in DOMAIN got : got[n].from = NoOne /\ c = <<got[n].buffer, got[n].msg.id>>
    BY DEF CopiesTaken
  <2> QED
    BY <1>2, <1>3, <2>1, <2>2
<1>5. PICK S : S = CopiesTaken(got)
  OBVIOUS
<1>6. PICK T : T = CopiesTaken(got')
  OBVIOUS
<1>7. \A c : c \in T <=> c \in S \/ (r.from = NoOne /\ c = <<r.buffer, r.msg.id>>)
  BY <1>4, <1>5, <1>6
<1>8. T = IF r.from = NoOne THEN S \cup { <<r.buffer, r.msg.id>> } ELSE S
  BY <1>7
<1> QED
  BY <1>5, <1>6, <1>8

\* The channel as it is seen through the buffers.
LEMMA MediumIs ==
  /\ InTransit = CopiesHeld(buf) /\ InTransit' = CopiesHeld(buf')
  /\ { <<got[i].buffer, got[i].msg.id>> : i \in Inputs } = CopiesTaken(got)
  /\ { <<got[i].buffer, got[i].msg.id>> : i \in Inputs }' = CopiesTaken(got')
  /\ { m.id : m \in held } = HeldIds /\ { m.id : m \in held }' = HeldIds'
BY DEF InTransit, Inputs, CopiesHeld, CopiesTaken, HeldIds

LEMMA InitMedium == Init => Medium!Init
<1> SUFFICES ASSUME Init PROVE Medium!Init
  OBVIOUS
<1>1. /\ \A b \in BufferNames : buf[b].msgs = <<>>
      /\ got = <<>> /\ sent = 0
  BY InitEmpty DEF Init
<1>2. Range(<<>>) = {} /\ DOMAIN <<>> = {}
  BY DEF Range
<1>3. CopiesHeld(buf) = {}
  BY <1>1, <1>2 DEF CopiesHeld
<1>4. CopiesTaken(got) = {}
  BY <1>1, <1>2 DEF CopiesTaken
<1>5. HeldIds = {}
  BY DEF Init, HeldIds
<1> QED
  BY <1>1, <1>3, <1>4, <1>5, MediumIs DEF Medium!Init

LEMMA StepMedium ==
  ASSUME TypeOK, Fresh, [Next]_vars
  PROVE  [Medium!Next]_(Medium!vars)
<1>1. CASE UNCHANGED vars
  BY <1>1 DEF vars, Medium!vars, InTransit, Inputs, Policy
<1>2. ASSUME NEW msg, Comes(msg) \/ \E m, c : Assigns(m, c, msg) PROVE Medium!Next
  <2>1. /\ msg.id = sent + 1 /\ sent' = sent + 1 /\ UNCHANGED <<config, got, held>> /\ Typed
    BY <1>2 DEF Comes, Assigns, PutIn, PutOver
  <2>2. ASSUME NEW b \in BufferNames, NEW i \in 1 .. Len(buf'[b].msgs)
        PROVE  buf'[b].msgs[i] = msg \/ \E j \in 1 .. Len(buf[b].msgs) : buf'[b].msgs[i] = buf[b].msgs[j]
    BY <1>2, ComesNumbered, AssignsNumbered
  <2>3. BufferNames \in SUBSET BufferNames
    OBVIOUS
  <2>4. CopiesHeld(buf') \subseteq CopiesHeld(buf) \cup { <<b, sent + 1>> : b \in BufferNames }
    <3>1. CopiesHeld(buf') \subseteq CopiesHeld(buf) \cup { <<b, msg.id>> : b \in BufferNames }
      BY <2>1, <2>2, <2>3, PutCopies
    <3> QED
      BY <2>1, <3>1
  <2>5. HeldIds' = HeldIds
    BY <2>1 DEF HeldIds
  <2> QED
    BY <2>1, <2>4, <2>5, MediumIs DEF Medium!Next, Medium!Send, Policy
<1>3. ASSUME NEW m, NEW msg, Returns(m, msg) PROVE Medium!Next
  <2>1. /\ UNCHANGED <<config, got, sent, held>> /\ Typed /\ msg \in held
        /\ \E b : OnlyIn(b)
    BY <1>3 DEF Returns, PutIn, PutOver
  <2>2. PICK c \in BufferNames : OnlyIn(c)
    BY <2>1 DEF OnlyIn
  <2>3. ASSUME NEW b \in BufferNames, NEW i \in 1 .. Len(buf'[b].msgs)
        PROVE  \/ b \in {c} /\ buf'[b].msgs[i] = msg
               \/ \E j \in 1 .. Len(buf[b].msgs) : buf'[b].msgs[i] = buf[b].msgs[j]
    <3>1. CASE b = c
      BY <1>3, <3>1, ReturnsNumbered
    <3>2. CASE b # c
      <4>1. buf'[b] = buf[b]
        BY <2>2, <3>2 DEF OnlyIn
      <4> QED
        BY <4>1
    <3> QED
      BY <3>1, <3>2
  <2>4. CopiesHeld(buf') \subseteq CopiesHeld(buf) \cup { <<b, msg.id>> : b \in {c} }
    BY <2>1, <2>3, PutCopies
  <2>5. HeldIds' = HeldIds /\ msg.id \in HeldIds
    BY <2>1 DEF HeldIds
  <2>6. CopiesHeld(buf') \in SUBSET (CopiesHeld(buf) \cup {<<c, msg.id>>})
    BY <2>4
  <2> QED
    BY <2>1, <2>5, <2>6, MediumIs DEF Medium!Next, Medium!PutBack, Policy
<1>4. ASSUME NEW r, NEW i, Receives(r, i) PROVE Medium!Next
  <2>1. Leaves /\ UNCHANGED <<config, sent>> /\ CopiesHeld(buf') \subseteq CopiesHeld(buf)
    BY <1>4, LeavesCopies DEF Receives
  <2>2. CASE r.from = NoOne
    <3>1. PICK copy : copy = <<r.buffer, r.msg.id>>
      OBVIOUS
    <3>2. /\ copy \in CopiesHeld(buf) /\ CopiesTaken(got') = CopiesTaken(got) \cup {copy}
          /\ \/ copy[1] \in { b \in BufferNames : Policy[b] = "RAM" }
             \/ copy[2] \in HeldIds \/ copy \notin CopiesHeld(buf')
      <4>1. r.buffer \in BufferNames
        BY <1>4 DEF Receives, Receipt
      <4> QED
        BY <1>4, <2>2, <3>1, <4>1, ReceivesCopies, ReceivesTaken
    <3>3. HeldIds' \in {HeldIds, HeldIds \cup {copy[2]}}
      <4>1. held' = held \/ held' = held \cup {r.msg}
        BY <1>4 DEF Receives
      <4>2. copy[2] = r.msg.id
        BY <3>1
      <4> QED
        BY <4>1, <4>2 DEF HeldIds
    <3> QED
      BY <2>1, <3>2, <3>3, MediumIs DEF Medium!Next, Medium!Receive, Policy
  <2>3. CASE r.from # NoOne
    <3>1. CopiesTaken(got') = CopiesTaken(got) /\ HeldIds' = HeldIds
      BY <1>4, <2>3, ReceivesTaken DEF Receives, HeldIds
    <3> QED
      BY <2>1, <3>1, MediumIs DEF Medium!Next, Medium!Discard, Policy
  <2> QED
    BY <2>2, <2>3
<1>5. CASE Moves
  <2>1. UNCHANGED <<config, sent, got, held>> /\ CopiesHeld(buf') \subseteq CopiesHeld(buf)
    BY <1>5, LeavesCopies DEF Moves
  <2>2. HeldIds' = HeldIds
    BY <2>1 DEF HeldIds
  <2> QED
    BY <2>1, <2>2, MediumIs DEF Medium!Next, Medium!Discard, Policy
<1>6. ASSUME NEW b, NEW i, Reads(b, i) PROVE Medium!Next
  <2>1. UNCHANGED <<config, buf, sent, got>>
    BY <1>6 DEF Reads
  <2>2. buf \in [BufferNames -> Buffer]
    BY DEF TypeOK
  <2>3. PICK copy : copy = <<b, buf[b].msgs[i].id>>
    OBVIOUS
  <2>4. copy \in CopiesHeld(buf)
    BY <1>6, <2>2, <2>3, CopyIn DEF Reads
  <2>5. HeldIds' = HeldIds \cup {copy[2]}
    BY <1>6, <2>3 DEF Reads, HeldIds
  <2> QED
    BY <2>1, <2>4, <2>5, MediumIs DEF Medium!Next, Medium!Read, Policy
<1> QED
  BY <1>1, <1>2, <1>3, <1>4, <1>5, <1>6, StepKinds

\* Whatever the program, the buffers are a channel: a message is received from a buffer it was
\* put in, and once it has left a buffer it comes back only if the program has read it into a
\* variable and puts it back itself.
THEOREM BuffersAreChannel == Spec => ImplementsChannel
<1>1. Init => TypeOK /\ Fresh /\ Medium!Init
  BY InitType, InitEmpty, InitMedium
<1>2. TypeOK /\ Fresh /\ [Next]_vars => TypeOK' /\ Fresh' /\ [Medium!Next]_(Medium!vars)
  BY StepType, StepFresh, StepMedium
<1> QED
  BY <1>1, <1>2, PTL DEF Spec, ImplementsChannel, Medium!Spec

-----------------------------------------------------------------------------
(* What a machine skips. *)

\* The list t keeps the places K of s: f says from which place each of its messages comes.
Picks(f, t, s, K) ==
  /\ f \in [1 .. Len(t) -> K]
  /\ \A i, j \in 1 .. Len(t) : i < j => f[i] < f[j]
  /\ \A i \in 1 .. Len(t) : t[i] = s[f[i]]
  /\ \A k \in K : \E i \in 1 .. Len(t) : f[i] = k

\* What keeps some places of a list keeps all of them.
LEMMA KeptPicks ==
  ASSUME NEW S, NEW s \in Seq(S), NEW K \in SUBSET DOMAIN s, NEW t \in Kept(s, K)
  PROVE  t \in Seq(S) /\ Len(t) \in Nat /\ \E f : Picks(f, t, s, K)
<1>1. t \in Seq(S) /\ Len(t) \in Nat
  BY KeptPart, LenProperties
<1>2. Len(s) \in Nat /\ DOMAIN s = 1 .. Len(s)
  BY LenProperties
<1>3. IsFiniteSet(K)
  <2>1. IsFiniteSet(1 .. Len(s))
    BY <1>2, FS_Interval
  <2> QED
    BY <1>2, <2>1, FS_Subset
<1>4. Cardinality(K) \in Nat
  BY <1>3, FS_CardinalityType
<1>5. PICK f \in [1 .. Cardinality(K) -> K] :
        /\ \A i, j \in DOMAIN f : i < j => f[i] < f[j]
        /\ t = [ n \in DOMAIN f |-> s[f[n]] ]
  BY DEF Kept
<1>6. t = [ n \in 1 .. Cardinality(K) |-> s[f[n]] ] /\ DOMAIN t = 1 .. Len(t)
  BY <1>1, <1>5, LenProperties
<1>7. 1 .. Len(t) = 1 .. Cardinality(K)
  BY <1>6
<1>8. Len(t) = Cardinality(K)
  BY <1>1, <1>4, <1>7
<1>9. \A i, j \in 1 .. Cardinality(K) : f[i] = f[j] => i = j
  <2>1. \A i \in 1 .. Cardinality(K) : f[i] \in Nat
    BY <1>2, <1>5
  <2> QED
    BY <1>4, <1>5, <2>1
<1>10. f \in Injection(1 .. Cardinality(K), K)
  BY <1>5, <1>9 DEF Injection, IsInjective
<1>11. Cardinality(1 .. Cardinality(K)) = Cardinality(K)
  BY <1>4, FS_Interval
<1>12. f \in Surjection(1 .. Cardinality(K), K)
  BY <1>3, <1>10, <1>11, FS_Injection
<1>13. \A k \in K : \E i \in 1 .. Cardinality(K) : f[i] = k
  BY <1>12 DEF Surjection
<1>14. Picks(f, t, s, K)
  BY <1>5, <1>6, <1>8, <1>13 DEF Picks
<1> QED
  BY <1>1, <1>14

\* What is skipped, but from a MULTILIFO, may be skipped, and the rest is still there.
LEMMA SkippedSkippable ==
  ASSUME NEW s, NEW p, p # "MULTILIFO", NEW S, NEW r, Len(s) \in Nat, DOMAIN s = 1 .. Len(s),
         NEW i \in SkippedPlaces(p, s, S, r)
  PROVE  i \in 1 .. Len(s) /\ Skippable(s[i], S, r)
<1>1. CASE p = "LIFO"
  BY <1>1 DEF SkippedPlaces, Searched
<1>2. CASE p = "MULTIFIFO"
  BY <1>2 DEF SkippedPlaces, Searched
<1>3. CASE p \in Searched
  BY <1>3 DEF SkippedPlaces, Searched
<1>4. CASE p \notin {"LIFO", "MULTIFIFO"} \cup Searched
  <2>1. SkippedPlaces(p, s, S, r) = { j \in DOMAIN s : \A k \in 1 .. j : Skippable(s[k], S, r) }
    BY <1>4 DEF SkippedPlaces, Searched
  <2> QED
    BY <2>1
<1> QED
  BY <1>1, <1>2, <1>3, <1>4

LEMMA SkipKeeps ==
  ASSUME NEW M, NEW p, p # "MULTILIFO", NEW s \in Seq(M), NEW S, NEW r, NEW t \in AfterSkip(p, s, S, r)
  PROVE  \A m \in Range(s) \ Range(t) : Skippable(m, S, r)
<1> DEFINE K == DOMAIN s \ SkippedPlaces(p, s, S, r)
<1>1. t \in Kept(s, K)
  BY DEF AfterSkip
<1>2. K \in SUBSET DOMAIN s
  OBVIOUS
<1>3. Len(s) \in Nat /\ DOMAIN s = 1 .. Len(s)
  BY LenProperties
<1>4. ASSUME NEW i \in 1 .. Len(s), i \notin K PROVE Skippable(s[i], S, r)
  BY <1>3, <1>4, SkippedSkippable
<1> HIDE DEF K
<1>5. t \in Seq(M) /\ Len(t) \in Nat /\ \E f : Picks(f, t, s, K)
  BY <1>1, <1>2, KeptPicks
<1>6. PICK f : Picks(f, t, s, K)
  BY <1>5
<1>7. DOMAIN t = 1 .. Len(t)
  BY <1>5, LenProperties
<1>8. ASSUME NEW i \in K PROVE s[i] \in Range(t)
  <2>1. PICK j \in 1 .. Len(t) : f[j] = i
    BY <1>6 DEF Picks
  <2>2. t[j] = s[i]
    BY <1>6, <2>1 DEF Picks
  <2> QED
    BY <1>7, <2>1, <2>2 DEF Range
<1>9. ASSUME NEW m \in Range(s) \ Range(t) PROVE Skippable(m, S, r)
  <2>1. PICK i \in 1 .. Len(s) : s[i] = m
    BY <1>3 DEF Range
  <2> QED
    BY <1>4, <1>8, <2>1
<1> QED
  BY <1>9

\* A step that begins an input_enabled is Enter.
LEMMA OnlyEnterBegins ==
  ASSUME TypeOK, [Next]_vars, pc = "run", who' # NoOne
  PROVE  \E m \in InputEnabled : Enter(m)
<1>1. who = NoOne
  BY DEF TypeOK
<1>2. ~ UNCHANGED vars
  BY <1>1 DEF vars
<1>3. ASSUME NEW m \in Machines, NEW mid \in Mids, NEW v \in Vals,
             \/ Output(m, mid, v)
             \/ \E r \in Machines : OutputTo(m, r, mid, v)
             \/ \E b \in config.named : PushStatement(m, b, mid, v) \/ Assign(m, b, mid, v)
      PROVE  FALSE
  BY <1>1, <1>3 DEF Output, OutputTo, PushStatement, Assign
<1>4. ASSUME NEW m \in Machines, NEW mid \in Mids,
             \/ Input(m, mid)
             \/ \E s \in Machines : InputFrom(m, s, mid)
             \/ \E b \in config.named : RemoveStatement(m, b, mid)
      PROVE  FALSE
  BY <1>1, <1>4 DEF Input, InputFrom, RemoveStatement
<1>5. ASSUME NEW m \in Machines, NEW b \in config.named,
             \/ PopStatement(m, b)
             \/ ClearStatement(m, b)
             \/ \E n \in 0 .. config.maxSent : ResizeStatement(m, b, n)
      PROVE  FALSE
  BY <1>1, <1>5 DEF PopStatement, ClearStatement, ResizeStatement
<1>6. ASSUME NEW m \in Machines, NEW b \in config.named,
             TopStatement(m, b) \/ PushMessage(m, b) \/ AssignMessage(m, b)
      PROVE  FALSE
  BY <1>1, <1>6 DEF TopStatement, PushMessage, AssignMessage
<1>7. ~ SkipOne /\ ~ Leave
  BY DEF SkipOne, Leave
<1> QED
  BY <1>2, <1>3, <1>4, <1>5, <1>6, <1>7, Zenon DEF Next

LEMMA StepSkips ==
  ASSUME TypeOK, [Next]_vars, pc = "run", who' # NoOne,
         NEW c \in BufferNames, Policy[c] # "MULTILIFO", NEW n \in Range(buf[c].msgs) \ Range(buf'[c].msgs)
  PROVE  Skippable(n, Expects[who'], who')
<1>1. PICK m \in InputEnabled : Enter(m)
  BY OnlyEnterBegins
<1> DEFINE b == EnabledBuffer[m]
<1>2. b \in BufferNames
  BY ConfigTypes DEF TypeOK
<1>3. buf[b] \in BufferOf(Message) /\ buf[b].msgs \in Seq(Message) /\ buf \in [BufferNames -> BufferOf(Message)]
  BY <1>2, BufferType, BufferIs DEF TypeOK
<1>4. /\ who' = m
      /\ \/ UNCHANGED buf
         \/ \E left \in AfterSkip(Policy[b], buf[b].msgs, Expects[m], m) :
              buf' = [buf EXCEPT ![b].msgs = left]
  BY <1>1 DEF Enter
<1>5. PICK left \in AfterSkip(Policy[b], buf[b].msgs, Expects[m], m) :
        buf' = [buf EXCEPT ![b].msgs = left]
  BY <1>4
<1> HIDE DEF b
<1>6. c = b
  BY <1>2, <1>3, <1>5
<1>7. buf'[c].msgs = left
  BY <1>2, <1>3, <1>5, <1>6 DEF BufferOf
<1> QED
  BY <1>3, <1>4, <1>5, <1>6, <1>7, SkipKeeps

\* In every program, what a machine drops as it enters its input_enabled it may receive and does
\* not expect.
THEOREM SkippedNotExpected == Spec => SkipsUnexpected
<1>1. TypeOK /\ [Next]_vars =>
        [pc = "run" /\ who' # NoOne =>
           \A b \in BufferNames : Policy[b] # "MULTILIFO" =>
             \A m \in Range(buf[b].msgs) \ Range(buf'[b].msgs) : Skippable(m, Expects[who'], who')]_vars
  BY StepSkips
<1> QED
  BY <1>1, TypeCorrect, PTL DEF Spec, SkipsUnexpected

-----------------------------------------------------------------------------
(* What is left after skipping can be received. *)

\* A register holds one message at most.
OneInRegister == \A b \in BufferNames : Policy[b] = "RAM" => Len(buf[b].msgs) <= 1

LEMMA StepRegister ==
  ASSUME TypeOK, OneInRegister, [Next]_vars
  PROVE  OneInRegister'
<1> SUFFICES ASSUME NEW b \in BufferNames, Policy[b] = "RAM", config' = config
             PROVE  Len(buf'[b].msgs) <= 1
  <2>1. config' = config
    BY StepKinds DEF vars, Comes, Assigns, Returns, Receives, Reads, Moves
  <2> QED
    BY <2>1 DEF OneInRegister, Policy
<1>1. /\ Len(buf[b].msgs) <= 1 /\ Len(buf[b].msgs) \in Nat
      /\ buf[b].msgs \in Seq(Message)
  BY BufferType DEF OneInRegister
<1>2. CASE UNCHANGED vars
  BY <1>1, <1>2 DEF vars
<1>3. \A msg : Len(<<msg>>) = 1
  OBVIOUS
<1>4. ASSUME NEW msg, PutIn(msg) PROVE Len(buf'[b].msgs) <= 1
  <2>1. Grown("RAM", buf'[b], buf[b], msg)
    BY <1>4 DEF PutIn
  <2>2. CASE buf'[b] = buf[b]
    BY <1>1, <2>2
  <2>3. CASE buf'[b].msgs = <<msg>>
    BY <1>3, <2>3
  <2> QED
    BY <2>1, <2>2, <2>3 DEF Grown
<1>5. ASSUME NEW c, NEW msg \in Message, PutOver(c, msg) PROVE Len(buf'[b].msgs) <= 1
  <2>1. CASE c # b
    BY <1>1, <1>5, <2>1 DEF PutOver, OnlyIn
  <2>2. CASE c = b /\ buf'[b].msgs = <<msg>>
    BY <1>3, <2>2
  <2>3. CASE c = b /\ \E k \in 1 .. Len(buf[b].msgs) : buf'[b].msgs = [buf[b].msgs EXCEPT ![k] = msg]
    BY <1>1, <2>3, ExceptSeq
  <2> QED
    BY <1>5, <2>1, <2>2, <2>3 DEF PutOver
<1>6. ASSUME Leaves PROVE Len(buf'[b].msgs) <= 1
  <2>1. Len(buf'[b].msgs) <= Len(buf[b].msgs)
    BY <1>6 DEF Leaves, Shrunk, Part
  <2>2. Len(buf'[b].msgs) \in Nat
    BY <1>6, BufferIs, BufferFields DEF Leaves, Typed
  <2> QED
    BY <1>1, <2>1, <2>2
<1>7. ASSUME NEW m, NEW msg, Returns(m, msg) PROVE Len(buf'[b].msgs) <= 1
  <2>1. msg \in Message
    BY <1>7 DEF Returns, TypeOK
  <2> QED
    BY <1>4, <1>5, <1>7, <2>1 DEF Returns
<1>8. ASSUME NEW c, NEW i, Reads(c, i) PROVE Len(buf'[b].msgs) <= 1
  BY <1>1, <1>8 DEF Reads
<1> QED
  BY <1>2, <1>4, <1>5, <1>6, <1>7, <1>8, StepKinds DEF Comes, Assigns, Receives, Moves

\* The top, if it is expected and for the machine, is where a pop finds a message.
LEMMA TopFound ==
  ASSUME NEW M, NEW p, p \notin Searched, NEW B \in BufferOf(M), B.msgs # <<>>, NEW S, NEW r,
         IsReceiver(B.msgs[TopPlace(p, B)], r), IsMID(B.msgs[TopPlace(p, B)], S)
  PROVE  \E mid \in S : PopPlaces(p, B, mid, r) # {}
<1> DEFINE top == B.msgs[TopPlace(p, B)]
<1>1. TopPlace(p, B) \in 1 .. Len(B.msgs)
  BY TopPlaceType
<1>2. TopPlace(p, B) # 0
  BY <1>1
<1>3. top.mid \in S /\ IsCompatible(top, top.mid, r)
  BY DEF IsCompatible, IsMID
<1>4. TopPlace(p, B) \in PopPlaces(p, B, top.mid, r)
  BY <1>2, <1>3 DEF PopPlaces
<1> QED
  BY <1>3, <1>4

\* What is left of a queue that is skipped begins, or ends, with a message not to be skipped.
LEMMA SkipLeavesFirst ==
  ASSUME NEW M, NEW p, p \notin {"LIFO", "MULTILIFO"} \cup Searched, NEW s \in Seq(M), NEW S, NEW r,
         NEW t \in AfterSkip(p, s, S, r), t # <<>>
  PROVE  ~ Skippable(t[1], S, r)
<1> DEFINE K == DOMAIN s \ SkippedPlaces(p, s, S, r)
<1>1. t \in Kept(s, K) /\ K \in SUBSET DOMAIN s
  BY DEF AfterSkip
<1>2. Len(s) \in Nat /\ DOMAIN s = 1 .. Len(s)
  BY LenProperties
<1> HIDE DEF K
<1>3. t \in Seq(M) /\ Len(t) \in Nat /\ \E f : Picks(f, t, s, K)
  BY <1>1, KeptPicks
<1>4. PICK f : Picks(f, t, s, K)
  BY <1>3
<1>5. 1 \in 1 .. Len(t)
  BY <1>3, EmptySeq
<1>6. PICK i : i = f[1]
  OBVIOUS
<1>7. i \in K /\ t[1] = s[i]
  BY <1>4, <1>5, <1>6 DEF Picks
<1>8. i \in 1 .. Len(s) /\ i \notin SkippedPlaces(p, s, S, r)
  BY <1>2, <1>7 DEF K
<1>9. ASSUME NEW k \in 1 .. Len(s), k < i PROVE Skippable(s[k], S, r)
  <2>1. k \notin K
    <3>1. SUFFICES ASSUME k \in K PROVE FALSE
      OBVIOUS
    <3>2. PICK j \in 1 .. Len(t) : f[j] = k
      BY <1>4, <3>1 DEF Picks
    <3>3. j = 1 \/ 1 < j
      BY <1>3, <3>2
    <3>4. 1 < j => f[1] < f[j]
      BY <1>4, <1>5, <3>2 DEF Picks
    <3> QED
      BY <1>6, <1>8, <1>9, <3>2, <3>3, <3>4
  <2>2. k \in SkippedPlaces(p, s, S, r)
    BY <1>2, <2>1 DEF K
  <2> QED
    BY <1>2, <2>2, SkippedSkippable
<1>10. SUFFICES ASSUME Skippable(s[i], S, r) PROVE FALSE
  BY <1>7
<1>11. CASE p = "MULTIFIFO"
  <2>1. SkippedPlaces(p, s, S, r) =
          { n \in DOMAIN s : Skippable(s[n], S, r) /\ \A j \in 1 .. n - 1 : ~ IsExpected(s[j], S, r) }
    BY <1>11 DEF SkippedPlaces, Searched
  <2>2. \A j \in 1 .. i - 1 : j \in 1 .. Len(s) /\ j < i
    BY <1>2, <1>8
  <2>3. \A j \in 1 .. i - 1 : ~ IsExpected(s[j], S, r)
    BY <1>9, <2>2 DEF Skippable, IsExpected
  <2> QED
    BY <1>2, <1>8, <1>10, <2>1, <2>3
<1>12. CASE p # "MULTIFIFO"
  <2>1. SkippedPlaces(p, s, S, r) = { n \in DOMAIN s : \A j \in 1 .. n : Skippable(s[j], S, r) }
    BY <1>12 DEF SkippedPlaces, Searched
  <2>2. \A j \in 1 .. i : j \in 1 .. Len(s) /\ (j < i \/ j = i)
    BY <1>2, <1>8
  <2>3. \A j \in 1 .. i : Skippable(s[j], S, r)
    BY <1>9, <1>10, <2>2
  <2> QED
    BY <1>2, <1>8, <2>1, <2>3
<1> QED
  BY <1>11, <1>12

LEMMA SkipLeavesLast ==
  ASSUME NEW M, NEW s \in Seq(M), NEW S, NEW r, NEW t \in AfterSkip("LIFO", s, S, r), t # <<>>
  PROVE  ~ Skippable(t[Len(t)], S, r)
<1> DEFINE p == "LIFO"
           K == DOMAIN s \ SkippedPlaces(p, s, S, r)
<1>1. t \in Kept(s, K) /\ K \in SUBSET DOMAIN s
  BY DEF AfterSkip
<1>2. Len(s) \in Nat /\ DOMAIN s = 1 .. Len(s)
  BY LenProperties
<1> HIDE DEF K
<1>3. t \in Seq(M) /\ Len(t) \in Nat /\ \E f : Picks(f, t, s, K)
  BY <1>1, KeptPicks
<1>4. PICK f : Picks(f, t, s, K)
  BY <1>3
<1>5. Len(t) \in 1 .. Len(t)
  BY <1>3, EmptySeq
<1>6. PICK i : i = f[Len(t)]
  OBVIOUS
<1>7. i \in K /\ t[Len(t)] = s[i]
  BY <1>4, <1>5, <1>6 DEF Picks
<1>8. i \in 1 .. Len(s) /\ i \notin SkippedPlaces(p, s, S, r)
  BY <1>2, <1>7 DEF K
<1>9. ASSUME NEW k \in 1 .. Len(s), i < k PROVE Skippable(s[k], S, r)
  <2>1. k \notin K
    <3>1. SUFFICES ASSUME k \in K PROVE FALSE
      OBVIOUS
    <3>2. PICK j \in 1 .. Len(t) : f[j] = k
      BY <1>4, <3>1 DEF Picks
    <3>3. j = Len(t) \/ j < Len(t)
      BY <1>3, <3>2
    <3>4. j < Len(t) => f[j] < f[Len(t)]
      BY <1>4, <1>5, <3>2 DEF Picks
    <3> QED
      BY <1>6, <1>8, <1>9, <3>2, <3>3, <3>4
  <2>2. k \in SkippedPlaces(p, s, S, r)
    BY <1>2, <2>1 DEF K
  <2> QED
    BY <1>2, <2>2, SkippedSkippable
<1>10. SUFFICES ASSUME Skippable(s[i], S, r) PROVE FALSE
  BY <1>7
<1>11. SkippedPlaces(p, s, S, r) = { n \in DOMAIN s : \A j \in n .. Len(s) : Skippable(s[j], S, r) }
  BY DEF SkippedPlaces, Searched
<1>12. \A j \in i .. Len(s) : j \in 1 .. Len(s) /\ (i < j \/ j = i)
  BY <1>2, <1>8
<1>13. \A j \in i .. Len(s) : Skippable(s[j], S, r)
  BY <1>9, <1>10, <1>12
<1> QED
  BY <1>2, <1>8, <1>11, <1>13

\* So a machine that may receive all of what is left finds something it expects.
LEMMA SkipThenFound ==
  ASSUME NEW M, NEW p \in Policies, p \notin {"MULTILIFO"} \cup Searched, NEW B \in BufferOf(M),
         p = "RAM" => Len(B.msgs) <= 1, NEW S, NEW r, NEW t \in AfterSkip(p, B.msgs, S, r), t # <<>>,
         \A n \in Range(t) : IsReceiver(n, r)
  PROVE  \E mid \in S : PopPlaces(p, [B EXCEPT !.msgs = t], mid, r) # {}
<1> DEFINE new == [B EXCEPT !.msgs = t]
<1>1. B.msgs \in Seq(M) /\ Len(B.msgs) \in Nat
  BY BufferFields
<1>2. t \in Seq(M) /\ Len(t) <= Len(B.msgs)
  BY <1>1, AfterSkipPart DEF Part
<1>3. Len(t) \in Nat /\ Len(t) # 0 /\ DOMAIN t = 1 .. Len(t)
  BY <1>2, LenProperties, EmptySeq
<1>4. new \in BufferOf(M) /\ new.msgs = t
  BY <1>2, BufferFields DEF BufferOf
<1>5. \A i \in 1 .. Len(t) : IsReceiver(t[i], r)
  BY <1>3 DEF Range
<1> HIDE DEF new
<1>6. CASE p = "LIFO"
  <2>1. ~ Skippable(t[Len(t)], S, r)
    BY <1>1, <1>6, SkipLeavesLast
  <2>2. TopPlace(p, new) = Len(t)
    BY <1>4, <1>6 DEF TopPlace
  <2>3. IsReceiver(t[Len(t)], r)
    BY <1>3, <1>5
  <2>4. IsMID(t[Len(t)], S)
    BY <2>1, <2>3 DEF Skippable
  <2> QED
    BY <1>4, <2>2, <2>3, <2>4, TopFound DEF new
<1>7. CASE p # "LIFO"
  <2>1. ~ Skippable(t[1], S, r)
    BY <1>1, <1>7, SkipLeavesFirst
  <2>2. TopPlace(p, new) = 1
    <3>1. p \in {"FIFO", "MULTIFIFO", "RAM"}
      BY <1>7 DEF Policies, Queues, Searched
    <3>2. p = "RAM" => Len(t) = 1
      BY <1>1, <1>2, <1>3
    <3> QED
      BY <1>4, <3>1, <3>2 DEF TopPlace
  <2>3. IsReceiver(t[1], r)
    BY <1>3, <1>5
  <2>4. IsMID(t[1], S)
    BY <2>1, <2>3 DEF Skippable
  <2> QED
    BY <1>4, <2>2, <2>3, <2>4, TopFound DEF new
<1> QED
  BY <1>6, <1>7

\* A step into the code of an input_enabled enters it, or ends its skipping.
LEMMA OnlyTheseBegin ==
  ASSUME TypeOK, [Next]_vars, pc # "inner", pc' = "inner"
  PROVE  SkipOne \/ \E m \in InputEnabled : Enter(m)
<1>1. ~ UNCHANGED vars
  BY DEF vars
<1>2. ASSUME NEW m \in Machines, NEW mid \in Mids, NEW v \in Vals,
             \/ Output(m, mid, v)
             \/ \E r \in Machines : OutputTo(m, r, mid, v)
             \/ \E b \in config.named : PushStatement(m, b, mid, v) \/ Assign(m, b, mid, v)
      PROVE  FALSE
  BY <1>2 DEF Output, OutputTo, PushStatement, Assign
<1>3. ASSUME NEW m \in Machines, NEW mid \in Mids,
             \/ Input(m, mid)
             \/ \E s \in Machines : InputFrom(m, s, mid)
             \/ \E b \in config.named : RemoveStatement(m, b, mid)
      PROVE  FALSE
  BY <1>3 DEF Input, InputFrom, RemoveStatement
<1>4. ASSUME NEW m \in Machines, NEW b \in config.named,
             \/ PopStatement(m, b)
             \/ ClearStatement(m, b)
             \/ \E n \in 0 .. config.maxSent : ResizeStatement(m, b, n)
      PROVE  FALSE
  BY <1>4 DEF PopStatement, ClearStatement, ResizeStatement
<1>5. ASSUME NEW m \in Machines, NEW b \in config.named,
             TopStatement(m, b) \/ PushMessage(m, b) \/ AssignMessage(m, b)
      PROVE  FALSE
  BY <1>5 DEF TopStatement, PushMessage, AssignMessage
<1>6. ~ Leave
  BY DEF Leave
<1> QED
  BY <1>1, <1>2, <1>3, <1>4, <1>5, <1>6, Zenon DEF Next

\* Of a set, an input finds what is present.
LEMMA SetFound ==
  ASSUME TypeOK, NEW b \in BufferNames, Policy[b] \in Searched, NEW m, NEW mid,
         \E n \in Range(buf[b].msgs) : IsCompatible(n, mid, m)
  PROVE  Found(b, mid, m) # {}
BY DEF Found, Range

\* What Readable says, of the machine m in a state where its skipping is over.
ReadableBy(m) ==
  LET b == EnabledBuffer[m]
  IN /\ Policy[b] # "MULTILIFO"
     /\ \A n \in Range(buf[b].msgs) : n.routed /\ IsReceiver(n, m)
     /\ \E mid \in Expects[m] : Present(m, b, mid)
     => \E mid \in Expects[m] : Found(b, mid, m) # {}

\* It holds where the buffer is empty, is a set, or has an expected message at its top.
LEMMA TopReadable ==
  ASSUME TypeOK, NEW m \in InputEnabled,
         LET b == EnabledBuffer[m]
         IN buf[b].msgs # <<>> => \/ Policy[b] \in Searched
                                  \/ IsMID(buf[b].msgs[TopPlace(Policy[b], buf[b])], Expects[m])
  PROVE  ReadableBy(m)
<1> DEFINE b == EnabledBuffer[m]
<1>1. b \in BufferNames
  BY ConfigTypes DEF TypeOK
<1>2. SUFFICES ASSUME Policy[b] # "MULTILIFO",
                      \A n \in Range(buf[b].msgs) : n.routed /\ IsReceiver(n, m),
                      NEW mid \in Expects[m], Present(m, b, mid)
               PROVE  \E e \in Expects[m] : Found(b, e, m) # {}
  BY DEF ReadableBy
<1>3. buf[b] \in BufferOf(Message) /\ buf[b].msgs \in Seq(Message) /\ DOMAIN buf[b].msgs = 1 .. Len(buf[b].msgs)
  BY <1>1, BufferType
<1>4. \E n \in Range(buf[b].msgs) : IsCompatible(n, mid, m)
  BY <1>2 DEF Present
<1>5. buf[b].msgs # <<>>
  BY <1>4 DEF Range
<1>6. CASE Policy[b] \in Searched
  BY <1>1, <1>4, <1>6, SetFound
<1>7. CASE Policy[b] \notin Searched /\ IsMID(buf[b].msgs[TopPlace(Policy[b], buf[b])], Expects[m])
  <2>1. TopPlace(Policy[b], buf[b]) \in 1 .. Len(buf[b].msgs)
    BY <1>3, <1>5, TopPlaceType
  <2>2. IsReceiver(buf[b].msgs[TopPlace(Policy[b], buf[b])], m)
    BY <1>2, <1>3, <2>1 DEF Range
  <2>3. \E e \in Expects[m] : PopPlaces(Policy[b], buf[b], e, m) # {}
    BY <1>3, <1>5, <1>7, <2>2, TopFound
  <2> QED
    BY <1>7, <2>3 DEF Found
<1> QED
  BY <1>5, <1>6, <1>7

\* It holds after a skip.
LEMMA SkippedReadable ==
  ASSUME TypeOK, OneInRegister, TypeOK', NEW m \in InputEnabled, config' = config,
         LET b == EnabledBuffer[m]
         IN \E t \in AfterSkip(Policy[b], buf[b].msgs, Expects[m], m) : buf' = [buf EXCEPT ![b].msgs = t]
  PROVE  ReadableBy(m)'
<1> DEFINE b == EnabledBuffer[m]
<1>1. b \in BufferNames /\ Policy[b] \in Policies
  BY ConfigTypes DEF TypeOK
<1>2. buf \in [BufferNames -> BufferOf(Message)] /\ buf[b] \in BufferOf(Message)
  BY <1>1, BufferType, BufferIs DEF TypeOK
<1>3. PICK t \in AfterSkip(Policy[b], buf[b].msgs, Expects[m], m) : buf' = [buf EXCEPT ![b].msgs = t]
  OBVIOUS
<1>4. buf'[b] = [buf[b] EXCEPT !.msgs = t] /\ buf'[b].msgs = t
  <2>1. buf'[b] = [buf[b] EXCEPT !.msgs = t]
    BY <1>1, <1>2, <1>3
  <2> QED
    BY <1>2, <2>1 DEF BufferOf
<1>5. Policy' = Policy /\ Expects' = Expects /\ InputEnabled' = InputEnabled /\ EnabledBuffer' = EnabledBuffer
  BY DEF Policy, Expects, InputEnabled, EnabledBuffer
<1> SUFFICES ASSUME Policy[b] # "MULTILIFO",
                    \A n \in Range(buf'[b].msgs) : n.routed /\ IsReceiver(n, m),
                    NEW mid \in Expects[m], Present(m, b, mid)'
             PROVE  \E e \in Expects[m] : Found(b, e, m)' # {}
  BY <1>5 DEF ReadableBy
<1>6. \E n \in Range(buf'[b].msgs) : IsCompatible(n, mid, m)
  BY <1>5 DEF Present
<1>7. CASE Policy[b] \in Searched
  <2>1. PICK n \in DOMAIN buf'[b].msgs : IsCompatible(buf'[b].msgs[n], mid, m)
    BY <1>6 DEF Range
  <2>2. n \in Found(b, mid, m)'
    BY <1>5, <1>7, <2>1 DEF Found
  <2> QED
    BY <2>2
<1>8. CASE Policy[b] \notin Searched
  <2>1. t # <<>> /\ \A n \in Range(t) : IsReceiver(n, m)
    BY <1>4, <1>6 DEF Range
  <2>2. Policy[b] = "RAM" => Len(buf[b].msgs) <= 1
    BY <1>1 DEF OneInRegister
  <2>3. \E e \in Expects[m] : PopPlaces(Policy[b], [buf[b] EXCEPT !.msgs = t], e, m) # {}
    <3>1. PICK p, B, S : p = Policy[b] /\ B = buf[b] /\ S = Expects[m]
      OBVIOUS
    <3>2. /\ p \in Policies /\ p \notin {"MULTILIFO"} \cup Searched /\ B \in BufferOf(Message)
          /\ p = "RAM" => Len(B.msgs) <= 1
          /\ t \in AfterSkip(p, B.msgs, S, m)
      BY <1>1, <1>2, <1>8, <2>2, <3>1
    <3> HIDE DEF b
    <3>3. \E e \in S : PopPlaces(p, [B EXCEPT !.msgs = t], e, m) # {}
      BY <2>1, <3>2, SkipThenFound
    <3> QED
      BY <3>1, <3>3
  <2> QED
    BY <1>4, <1>5, <1>8, <2>3 DEF Found
<1> QED
  BY <1>7, <1>8

LEMMA StepReadable ==
  ASSUME TypeOK, OneInRegister, [Next]_vars, pc # "inner"
  PROVE  Readable'
<1> SUFFICES ASSUME pc' = "inner" PROVE Readable'
  BY DEF Readable
<1>1. TypeOK'
  BY StepType
<1>2. ReadableBy(who)' => Readable'
  BY DEF Readable, ReadableBy
<1>3. CASE SkipOne
  <2> DEFINE b == EnabledBuffer[who]
  <2>1. who \in InputEnabled
    BY <1>3, WhoRuns DEF SkipOne
  <2>2. UNCHANGED <<config, who, buf>> /\ (buf[b].msgs # <<>> => IsMID(Top, Expects[who]))
    BY <1>3 DEF SkipOne
  <2>3. ReadableBy(who)
    BY <2>1, <2>2, TopReadable DEF Top
  <2>4. UNCHANGED <<config, who, buf>> => ReadableBy(who)' = ReadableBy(who)
    BY DEF ReadableBy, Found, Present, Policy, Expects, InputEnabled, EnabledBuffer
  <2> QED
    BY <1>2, <2>2, <2>3, <2>4
<1>4. ASSUME NEW m \in InputEnabled, Enter(m) PROVE Readable'
  <2> DEFINE b == EnabledBuffer[m]
  <2>1. who' = m /\ config' = config
    BY <1>4 DEF Enter
  <2>2. CASE buf[b].msgs = <<>> /\ UNCHANGED buf
    <3>1. ReadableBy(m)
      BY <2>2, TopReadable
    <3>2. UNCHANGED <<config, buf>> => ReadableBy(m)' = ReadableBy(m)
      BY DEF ReadableBy, Found, Present, Policy, Expects, InputEnabled, EnabledBuffer
    <3> QED
      BY <1>2, <2>1, <2>2, <3>1, <3>2 DEF ReadableBy, Readable
  <2>3. CASE \E t \in AfterSkip(Policy[b], buf[b].msgs, Expects[m], m) : buf' = [buf EXCEPT ![b].msgs = t]
    <3>1. ReadableBy(m)'
      BY <1>1, <2>1, <2>3, SkippedReadable
    <3> QED
      BY <2>1, <3>1 DEF ReadableBy, Readable
  <2> QED
    BY <1>4, <2>2, <2>3 DEF Enter
<1> QED
  BY <1>3, <1>4, OnlyTheseBegin

\* In every program, once input_enabled has skipped, a machine that has in its buffer something
\* it expects, and nothing for another machine, is able to input it.
THEOREM PresentIsRead == Spec => PresentMeansInput
<1>1. Init => OneInRegister
  BY InitEmpty, EmptySeq DEF OneInRegister
<1>2. TypeOK /\ OneInRegister /\ [Next]_vars => OneInRegister'
  BY StepRegister
<1>3. TypeOK /\ OneInRegister /\ [Next]_vars => [pc # "inner" => Readable']_vars
  BY StepReadable
<1> QED
  BY <1>1, <1>2, <1>3, TypeCorrect, PTL DEF Spec, PresentMeansInput

-----------------------------------------------------------------------------
(* Receivers of the same multicasts. *)

\* the message of number n has come into buffer b, and is still there or was received from it
Seen(b, n) ==
  \/ \E k \in 1 .. Len(got) : got[k].buffer = b /\ got[k].msg.id = n
  \/ \E i \in 1 .. Len(buf[b].msgs) : buf[b].msgs[i].id = n

OnlyInputs == \A m \in Machines : config.runs[m] \subseteq {"output", "input"}

\* Where machines only output and input, what is received is received from anyone; and twin
\* buffers have seen the same messages.
TwinInv ==
  /\ OnlyInputs => \A k \in 1 .. Len(got) : got[k].from = NoOne
  /\ \A b, c \in BufferNames : Twins(b, c) => \A n : Seen(b, n) <=> Seen(c, n)

\* The steps of such programs.
LEMMA OnlySteps ==
  ASSUME TypeOK, [Next]_vars, OnlyInputs
  PROVE  \/ \E m \in Machines, mid \in Mids, v \in Vals : Output(m, mid, v)
         \/ \E m \in Machines, mid \in Mids : Input(m, mid)
         \/ /\ UNCHANGED <<config, got, sent>>
            /\ \/ UNCHANGED buf
               \/ \E m \in InputEnabled : \A b \in BufferNames \ {EnabledBuffer[m]} : buf'[b] = buf[b]
<1> DEFINE Else == /\ UNCHANGED <<config, got, sent>>
                   /\ \/ UNCHANGED buf
                      \/ \E m \in InputEnabled : \A b \in BufferNames \ {EnabledBuffer[m]} : buf'[b] = buf[b]
<1>1. UNCHANGED vars => Else
  BY DEF vars
<1>2. ASSUME NEW m \in Machines, NEW mid \in Mids, NEW v \in Vals,
             \/ \E r \in Machines : OutputTo(m, r, mid, v)
             \/ \E b \in config.named : PushStatement(m, b, mid, v) \/ Assign(m, b, mid, v)
      PROVE  FALSE
  BY <1>2 DEF OutputTo, PushStatement, Assign, Runs, OnlyInputs
<1>3. ASSUME NEW m \in Machines, NEW mid \in Mids,
             \/ \E s \in Machines : InputFrom(m, s, mid)
             \/ \E b \in config.named : RemoveStatement(m, b, mid)
      PROVE  FALSE
  BY <1>3 DEF InputFrom, RemoveStatement, Runs, OnlyInputs
<1>4. ASSUME NEW m \in Machines, NEW b \in config.named,
             \/ PopStatement(m, b)
             \/ ClearStatement(m, b)
             \/ \E n \in 0 .. config.maxSent : ResizeStatement(m, b, n)
      PROVE  FALSE
  BY <1>4 DEF PopStatement, ClearStatement, ResizeStatement, Runs, OnlyInputs
<1>9. ASSUME NEW m \in Machines, NEW b \in config.named,
             TopStatement(m, b) \/ PushMessage(m, b) \/ AssignMessage(m, b)
      PROVE  FALSE
  BY <1>9 DEF TopStatement, PushMessage, AssignMessage, Runs, OnlyInputs
<1>5. buf \in [BufferNames -> BufferOf(Message)]
  BY BufferIs DEF TypeOK
<1>6. ASSUME NEW m \in InputEnabled, Enter(m) PROVE Else
  <2>1. /\ UNCHANGED <<config, got, sent>>
        /\ \/ UNCHANGED buf
           \/ \E t : buf' = [buf EXCEPT ![EnabledBuffer[m]].msgs = t]
    BY <1>6 DEF Enter
  <2>2. ASSUME NEW t, buf' = [buf EXCEPT ![EnabledBuffer[m]].msgs = t],
               NEW b \in BufferNames \ {EnabledBuffer[m]}
        PROVE  buf'[b] = buf[b]
    BY <1>5, <2>2
  <2> QED
    BY <2>1, <2>2
<1>7. ASSUME SkipOne PROVE Else
  <2>1. who \in InputEnabled
    BY <1>7, WhoRuns DEF SkipOne
  <2>2. UNCHANGED <<config, got, sent>> /\ (UNCHANGED buf \/ PopTop)
    BY <1>7 DEF SkipOne
  <2>3. PopTop => \A b \in BufferNames \ {EnabledBuffer[who]} : buf'[b] = buf[b]
    BY <1>5 DEF PopTop
  <2> QED
    BY <2>1, <2>2, <2>3
<1>8. ASSUME Leave PROVE Else
  BY <1>8 DEF Leave
<1> HIDE DEF Else
<1>10. \/ \E m \in Machines, mid \in Mids, v \in Vals : Output(m, mid, v)
       \/ \E m \in Machines, mid \in Mids : Input(m, mid)
       \/ Else
  BY <1>1, <1>2, <1>3, <1>4, <1>6, <1>7, <1>8, <1>9, Zenon DEF Next
<1> QED
  BY <1>10 DEF Else

\* An input that refuses nothing takes one message from one buffer.
LEMMA InputTakes ==
  ASSUME TypeOK, NEW m \in Machines, NEW mid \in Mids, Input(m, mid), ~ config.mayRefuse
  PROVE  \E d \in BufferNames : \E i \in Found(d, mid, m) :
           /\ \A b \in BufferNames \ {d} : buf'[b] = buf[b]
           /\ buf'[d] = Taken(Policy[d], buf[d], i)
           /\ Receive(m, d, i, NoOne)
<1> DEFINE earlier(k) == { In[m][mid][j] : j \in 1 .. k - 1 }
           refused(k) == { c \in earlier(k) : Found(c, mid, m) # {} }
           popped(k) == { c \in refused(k) : Policy[c] \notin Searched }
           places(k, i) == [ c \in popped(k) \cup {In[m][mid][k]} |->
                               IF c = In[m][mid][k] THEN i ELSE TopPlace(Policy[c], buf[c]) ]
<1>1. PICK k \in DOMAIN In[m][mid] :
        /\ refused(k) = {} \/ config.mayRefuse
        /\ \E i \in Found(In[m][mid][k], mid, m) :
             buf' = TakenFrom(places(k, i)) /\ Receive(m, In[m][mid][k], i, NoOne)
  BY Zenon DEF Input
<1>2. PICK i \in Found(In[m][mid][k], mid, m) :
        buf' = TakenFrom(places(k, i)) /\ Receive(m, In[m][mid][k], i, NoOne)
  BY <1>1
<1>3. In[m][mid][k] \in BufferNames
  <2>1. In[m][mid] \in Seq(BufferNames)
    BY ConfigTypes DEF TypeOK
  <2> QED
    BY <1>1, <2>1, LenProperties, ElementOfSeq
<1>4. popped(k) = {}
  BY <1>1
<1>5. PICK d \in BufferNames : d = In[m][mid][k]
  BY <1>3
<1>6. DOMAIN places(k, i) = {d} /\ places(k, i)[d] = i
  BY <1>4, <1>5
<1>7. buf' = TakenFrom(places(k, i)) /\ Receive(m, d, i, NoOne) /\ i \in Found(d, mid, m)
  BY <1>2, <1>5
<1> HIDE DEF places
<1>8. buf'[d] = Taken(Policy[d], buf[d], i) /\ \A b \in BufferNames \ {d} : buf'[b] = buf[b]
  BY <1>6, <1>7 DEF TakenFrom
<1> QED
  BY <1>7, <1>8

\* What a FIFO has seen when its first message is taken.
LEMMA FirstTaken ==
  ASSUME NEW B \in BufferOf(Message), 1 \in 1 .. Len(B.msgs), NEW n
  PROVE  (\E i \in 1 .. Len(B.msgs) : B.msgs[i].id = n) <=>
           \/ B.msgs[1].id = n
           \/ \E i \in 1 .. Len(Taken("FIFO", B, 1).msgs) : Taken("FIFO", B, 1).msgs[i].id = n
<1>1. B.msgs \in Seq(Message) /\ Len(B.msgs) \in Nat
  BY BufferFields
<1> DEFINE t == RemoveAt(B.msgs, 1)
<1>2. Taken("FIFO", B, 1).msgs = t
  BY DEF Taken, BufferOf
<1>3. Len(t) = Len(B.msgs) - 1
  BY <1>1, RemoveAtType
<1>4. \A i \in 1 .. Len(B.msgs) - 1 : t[i] = B.msgs[i + 1]
  <2>1. \A i \in 1 .. Len(B.msgs) - 1 : t[i] = IF i < 1 THEN B.msgs[i] ELSE B.msgs[i + 1]
    BY <1>1, RemoveAtElements
  <2> HIDE DEF t
  <2> QED
    BY <1>1, <2>1
<1> HIDE DEF t
<1>5. ASSUME NEW i \in 1 .. Len(B.msgs), B.msgs[i].id = n, i # 1
      PROVE  \E j \in 1 .. Len(t) : t[j].id = n
  <2>1. i - 1 \in 1 .. Len(t) /\ (i - 1) + 1 = i
    BY <1>1, <1>3, <1>5
  <2>2. t[i - 1] = B.msgs[i]
    BY <1>3, <1>4, <2>1
  <2> QED
    BY <1>5, <2>1, <2>2
<1>6. ASSUME NEW j \in 1 .. Len(t), t[j].id = n
      PROVE  \E i \in 1 .. Len(B.msgs) : B.msgs[i].id = n
  <2>1. j + 1 \in 1 .. Len(B.msgs) /\ t[j] = B.msgs[j + 1]
    BY <1>1, <1>3, <1>4
  <2> QED
    BY <1>6, <2>1
<1> QED
  BY <1>2, <1>5, <1>6

\* An input changes nothing of what the FIFOs have seen.
LEMMA InputSeen ==
  ASSUME TypeOK, NEW m \in Machines, NEW mid \in Mids, Input(m, mid), ~ config.mayRefuse,
         NEW b \in BufferNames, Policy[b] = "FIFO", NEW n
  PROVE  Seen(b, n)' <=> Seen(b, n)
<1> DEFINE Takes(d, i) == /\ \A c \in BufferNames \ {d} : buf'[c] = buf[c]
                          /\ buf'[d] = Taken(Policy[d], buf[d], i)
                          /\ Receive(m, d, i, NoOne)
<1>0. PICK d \in BufferNames : \E i \in Found(d, mid, m) : Takes(d, i)
  BY InputTakes
<1>1. PICK i \in Found(d, mid, m) : Takes(d, i)
  BY <1>0
<1>2. i \in 1 .. Len(buf[d].msgs) /\ (Policy[d] = "FIFO" => i = 1)
  BY FoundType
<1> DEFINE r == [ msg |-> buf[d].msgs[i], buffer |-> d, by |-> m, from |-> NoOne ]
<1>3. r \in Receipt /\ r.msg = buf[d].msgs[i] /\ r.buffer = d /\ got' = Append(got, r)
  <2>1. NoOne \in Machines \cup {NoOne} /\ Receive(m, d, i, NoOne)
    BY <1>1
  <2> QED
    BY <1>2, <2>1, ReceiptType
<1> HIDE DEF r, Takes
<1>4. /\ Len(got) \in Nat /\ Len(got') = Len(got) + 1 /\ got'[Len(got) + 1] = r
      /\ \A k \in 1 .. Len(got) : got'[k] = got[k]
  BY <1>3, AppendProperties, GotType DEF TypeOK
<1>5. (\E k \in 1 .. Len(got') : got'[k].buffer = b /\ got'[k].msg.id = n) <=>
        \/ \E k \in 1 .. Len(got) : got[k].buffer = b /\ got[k].msg.id = n
        \/ d = b /\ buf[d].msgs[i].id = n
  <2>1. \A k \in 1 .. Len(got') : k \in 1 .. Len(got) \/ k = Len(got) + 1
    BY <1>4
  <2>2. \A k \in 1 .. Len(got) : k \in 1 .. Len(got')
    BY <1>4
  <2>3. Len(got) + 1 \in 1 .. Len(got')
    BY <1>4
  <2> QED
    BY <1>3, <1>4, <2>1, <2>2, <2>3, Zenon
<1>6. CASE d # b
  BY <1>1, <1>5, <1>6 DEF Seen, Takes
<1>7. CASE d = b
  <2>1. /\ buf[b] \in BufferOf(Message) /\ 1 \in 1 .. Len(buf[b].msgs)
        /\ buf'[b] = Taken("FIFO", buf[b], 1) /\ i = 1
    BY <1>1, <1>2, <1>7, BufferType DEF Takes
  <2>2. (\E j \in 1 .. Len(buf[b].msgs) : buf[b].msgs[j].id = n) <=>
           \/ buf[b].msgs[1].id = n
           \/ \E j \in 1 .. Len(buf'[b].msgs) : buf'[b].msgs[j].id = n
    <3>1. PICK B \in BufferOf(Message) : B = buf[b] /\ 1 \in 1 .. Len(B.msgs)
      BY <2>1
    <3>2. (\E j \in 1 .. Len(B.msgs) : B.msgs[j].id = n) <=>
            \/ B.msgs[1].id = n
            \/ \E j \in 1 .. Len(Taken("FIFO", B, 1).msgs) : Taken("FIFO", B, 1).msgs[j].id = n
      BY <3>1, FirstTaken, Zenon
    <3> QED
      BY <2>1, <3>1, <3>2
  <2> QED
    BY <1>5, <1>7, <2>1, <2>2 DEF Seen
<1> QED
  BY <1>6, <1>7

\* A multicast comes into all the FIFOs of its port.
LEMMA MulticastSeen ==
  ASSUME TypeOK, NEW m \in Machines, NEW mid \in Mids, NEW v \in Vals, Output(m, mid, v),
         Protocol[mid] = "multicast", NEW b \in Range(Out[mid]), b \in BufferNames, Policy[b] = "FIFO", NEW n
  PROVE  Seen(b, n)' <=> Seen(b, n) \/ n = sent + 1
<1> DEFINE msg == New(m, mid, v, NoOne)
           S == Range(Out[mid])
<1>1. msg \in Message /\ msg.id = sent + 1
  BY NewType
<1>2. UNCHANGED got /\ PushAll(S, msg)
  BY DEF Output
<1> HIDE DEF msg
<1>3. Accepts("FIFO", buf[b]) /\ buf'[b] = Push("FIFO", buf[b], msg)
  BY <1>2 DEF PushAll, PushedIn, Accepting
<1>4. buf'[b] = [buf[b] EXCEPT !.msgs = Append(@, msg)]
  BY <1>3 DEF Push, Pushed
<1>5. buf[b] \in BufferOf(Message) /\ buf[b].msgs \in Seq(Message) /\ Len(buf[b].msgs) \in Nat
  BY BufferType
<1>6. buf'[b].msgs = Append(buf[b].msgs, msg)
  BY <1>4, <1>5 DEF BufferOf
<1>7. /\ Len(buf'[b].msgs) = Len(buf[b].msgs) + 1 /\ buf'[b].msgs[Len(buf[b].msgs) + 1] = msg
      /\ \A i \in 1 .. Len(buf[b].msgs) : buf'[b].msgs[i] = buf[b].msgs[i]
  BY <1>1, <1>5, <1>6, AppendProperties
<1>8. (\E i \in 1 .. Len(buf'[b].msgs) : buf'[b].msgs[i].id = n) <=>
        \/ \E i \in 1 .. Len(buf[b].msgs) : buf[b].msgs[i].id = n
        \/ n = sent + 1
  <2>1. \A i \in 1 .. Len(buf'[b].msgs) : i \in 1 .. Len(buf[b].msgs) \/ i = Len(buf[b].msgs) + 1
    BY <1>5, <1>7
  <2>2. \A i \in 1 .. Len(buf[b].msgs) : i \in 1 .. Len(buf'[b].msgs)
    BY <1>5, <1>7
  <2>3. Len(buf[b].msgs) + 1 \in 1 .. Len(buf'[b].msgs)
    BY <1>5, <1>7
  <2> QED
    BY <1>1, <1>7, <2>1, <2>2, <2>3, Zenon
<1> QED
  BY <1>2, <1>8 DEF Seen

LEMMA StepTwins ==
  ASSUME TypeOK, TwinInv, [Next]_vars
  PROVE  TwinInv'
<1>1. config' = config
  BY StepKinds DEF vars, Comes, Assigns, Returns, Receives, Reads, Moves
<1>2. /\ OnlyInputs' = OnlyInputs /\ Policy' = Policy /\ Protocol' = Protocol
      /\ \A b, c : Twins(b, c)' = Twins(b, c)
  BY <1>1 DEF OnlyInputs, Twins, Policy, Protocol, Out, InputEnabled, EnabledBuffer
<1>3. ASSUME OnlyInputs, NEW k \in 1 .. Len(got') PROVE got'[k].from = NoOne
  <2>1. CASE UNCHANGED got
    BY <1>3, <2>1 DEF TwinInv
  <2>2. ASSUME NEW m \in Machines, NEW mid \in Mids, Input(m, mid) PROVE got'[k].from = NoOne
    <3>1. PICK e, d : got' = Append(got, [ msg |-> e, buffer |-> d, by |-> m, from |-> NoOne ])
      BY <2>2 DEF Input, Receive
    <3> DEFINE r == [ msg |-> e, buffer |-> d, by |-> m, from |-> NoOne ]
    <3>2. r.from = NoOne /\ got' = Append(got, r)
      BY <3>1
    <3> HIDE DEF r
    <3>3. got \in Seq(Receipt) /\ Len(got) \in Nat /\ got' \in Seq(Receipt)
      BY StepType, GotType DEF TypeOK
    <3>4. /\ Len(got') = Len(got) + 1 /\ got'[Len(got) + 1] = r
          /\ \A n \in 1 .. Len(got) : got'[n] = got[n]
      BY <3>2, <3>3
    <3>5. k \in 1 .. Len(got) \/ k = Len(got) + 1
      BY <1>3, <3>3, <3>4
    <3> QED
      BY <1>3, <3>2, <3>4, <3>5 DEF TwinInv
  <2>3. ASSUME NEW m \in Machines, NEW mid \in Mids, NEW v \in Vals, Output(m, mid, v) PROVE UNCHANGED got
    BY <2>3 DEF Output
  <2> QED
    BY <1>3, <2>1, <2>2, <2>3, OnlySteps
<1>4. ASSUME NEW b \in BufferNames, NEW c \in BufferNames, Twins(b, c), NEW n
      PROVE  Seen(b, n)' <=> Seen(c, n)'
  <2>1. /\ OnlyInputs /\ ~ config.mayRefuse /\ Policy[b] = "FIFO" /\ Policy[c] = "FIFO"
        /\ \A m \in InputEnabled : b # EnabledBuffer[m] /\ c # EnabledBuffer[m]
        /\ Seen(b, n) <=> Seen(c, n)
    BY <1>4 DEF Twins, OnlyInputs, TwinInv
  <2>2. ASSUME NEW m \in Machines, NEW mid \in Mids, NEW v \in Vals, Output(m, mid, v)
        PROVE  Seen(b, n)' <=> Seen(c, n)'
    <3>1. Protocol[mid] = "multicast" /\ b \in Range(Out[mid]) /\ c \in Range(Out[mid])
      BY <1>4 DEF Twins
    <3>2. Seen(b, n)' <=> Seen(b, n) \/ n = sent + 1
      BY <2>1, <2>2, <3>1, MulticastSeen
    <3>3. Seen(c, n)' <=> Seen(c, n) \/ n = sent + 1
      BY <2>1, <2>2, <3>1, MulticastSeen
    <3> QED
      BY <2>1, <3>2, <3>3
  <2>3. ASSUME NEW m \in Machines, NEW mid \in Mids, Input(m, mid)
        PROVE  Seen(b, n)' <=> Seen(c, n)'
    <3>1. Seen(b, n)' <=> Seen(b, n)
      BY <2>1, <2>3, InputSeen
    <3>2. Seen(c, n)' <=> Seen(c, n)
      BY <2>1, <2>3, InputSeen
    <3> QED
      BY <2>1, <3>1, <3>2
  <2>4. ASSUME UNCHANGED got, buf'[b] = buf[b], buf'[c] = buf[c]
        PROVE  Seen(b, n)' <=> Seen(c, n)'
    BY <2>1, <2>4 DEF Seen
  <2>5. \/ \E m \in Machines, mid \in Mids, v \in Vals : Output(m, mid, v)
        \/ \E m \in Machines, mid \in Mids : Input(m, mid)
        \/ UNCHANGED got /\ buf'[b] = buf[b] /\ buf'[c] = buf[c]
    BY <2>1, OnlySteps
  <2> QED
    BY <2>2, <2>3, <2>4, <2>5
<1> QED
  BY <1>2, <1>3, <1>4 DEF TwinInv

\* Of two receipts from twins the one of the older message comes earlier in the count of its
\* buffer: all that was received from b by then has been received from c before the other message.
LEMMA NotAhead ==
  ASSUME TypeOK, Ordered, TwinInv, NEW b \in BufferNames, NEW c \in BufferNames, Twins(b, c),
         NEW i \in 1 .. Len(got), NEW j \in 1 .. Len(got), got[i].buffer = b, got[j].buffer = c,
         got[i].msg.id < got[j].msg.id
  PROVE  Cardinality(ReceivedUpTo(b, i)) < Cardinality(ReceivedUpTo(c, j))
<1>1. /\ Len(got) \in Nat
      /\ \A n \in 1 .. Len(got) : got[n].msg.id \in Nat
  BY GotType
<1>2. OnlyInputs /\ NoAssign /\ Policy[b] = "FIFO" /\ Policy[c] = "FIFO"
  BY DEF Twins, OnlyInputs, NoAssign, Reordering
<1>3. \A n \in 1 .. Len(got) : got[n].buffer \in {b, c} => FromFIFO(got[n])
  BY <1>2 DEF TwinInv, FromFIFO
<1>4. ASSUME NEW k \in 1 .. Len(got), NEW l \in 1 .. Len(got), k < l,
             got[k].buffer = got[l].buffer, got[k].buffer \in {b, c}
      PROVE  got[k].msg.id < got[l].msg.id
  BY <1>2, <1>3, <1>4 DEF Ordered
<1>5. \A n \in 1 .. Len(buf[c].msgs) : got[j].msg.id < buf[c].msgs[n].id
  BY <1>2, <1>3 DEF Ordered
<1>6. \A k \in ReceivedUpTo(b, i) : /\ k \in 1 .. Len(got) /\ got[k].buffer = b
                                    /\ k = i \/ k < i
  BY <1>1 DEF ReceivedUpTo
<1>7. \A k \in ReceivedUpTo(b, i) : got[k].msg.id < got[j].msg.id
  <2> SUFFICES ASSUME NEW k \in ReceivedUpTo(b, i) PROVE got[k].msg.id < got[j].msg.id
    OBVIOUS
  <2>1. k \in 1 .. Len(got) /\ (k = i \/ got[k].msg.id < got[i].msg.id)
    BY <1>4, <1>6
  <2> QED
    BY <1>1, <2>1
<1>8. ASSUME NEW k \in ReceivedUpTo(b, i)
      PROVE  \E l \in ReceivedUpTo(c, j) \ {j} : got[l].msg.id = got[k].msg.id
  <2>1. PICK n : n = got[k].msg.id
    OBVIOUS
  <2>2. n < got[j].msg.id /\ n \in Nat
    BY <1>1, <1>6, <1>7, <2>1
  <2>3. Seen(b, n)
    BY <1>6, <2>1 DEF Seen
  <2>4. Seen(c, n)
    BY <2>3 DEF TwinInv
  <2>5. ~ \E m \in 1 .. Len(buf[c].msgs) : buf[c].msgs[m].id = n
    <3>1. ASSUME NEW m \in 1 .. Len(buf[c].msgs), buf[c].msgs[m].id = n PROVE FALSE
      BY <1>1, <1>5, <2>2, <3>1
    <3> QED
      BY <3>1
  <2>6. PICK l \in 1 .. Len(got) : got[l].buffer = c /\ got[l].msg.id = n
    BY <2>4, <2>5 DEF Seen
  <2>7. l < j
    <3>1. l # j
      BY <1>1, <2>2, <2>6
    <3>2. ~ (j < l)
      <4>1. j < l => got[j].msg.id < n
        BY <1>4, <2>6
      <4> QED
        BY <1>1, <2>2, <4>1
    <3> QED
      BY <1>1, <3>1, <3>2
  <2> QED
    BY <1>1, <2>1, <2>6, <2>7 DEF ReceivedUpTo
<1> DEFINE g == [ k \in ReceivedUpTo(b, i) |->
                    CHOOSE l \in ReceivedUpTo(c, j) \ {j} : got[l].msg.id = got[k].msg.id ]
<1>9. \A k \in ReceivedUpTo(b, i) : g[k] \in ReceivedUpTo(c, j) \ {j} /\ got[g[k]].msg.id = got[k].msg.id
  BY <1>8
<1>10. g \in [ReceivedUpTo(b, i) -> ReceivedUpTo(c, j) \ {j}]
  BY <1>9
<1> HIDE DEF g
<1>11. ASSUME NEW k \in ReceivedUpTo(b, i), NEW l \in ReceivedUpTo(b, i), g[k] = g[l]
       PROVE  k = l
  <2>1. got[k].msg.id = got[l].msg.id
    BY <1>9, <1>11
  <2>2. k \in 1 .. Len(got) /\ l \in 1 .. Len(got) /\ got[k].buffer = b /\ got[l].buffer = b
    BY <1>6
  <2>3. k < l => got[k].msg.id < got[l].msg.id
    BY <1>4, <2>2
  <2>4. l < k => got[l].msg.id < got[k].msg.id
    BY <1>4, <2>2
  <2>5. got[k].msg.id \in Nat /\ got[l].msg.id \in Nat
    BY <1>1, <2>2
  <2>6. ~ (k < l) /\ ~ (l < k)
    BY <2>1, <2>3, <2>4, <2>5
  <2> QED
    BY <1>1, <2>2, <2>6
<1>12. g \in Injection(ReceivedUpTo(b, i), ReceivedUpTo(c, j) \ {j})
  BY <1>10, <1>11 DEF Injection, IsInjective
<1>13. IsFiniteSet(ReceivedUpTo(c, j)) /\ j \in ReceivedUpTo(c, j)
  <2>1. IsFiniteSet(1 .. j)
    BY <1>1, FS_Interval
  <2>2. ReceivedUpTo(c, j) \in SUBSET (1 .. j) /\ j \in ReceivedUpTo(c, j)
    BY <1>1 DEF ReceivedUpTo
  <2> QED
    BY <2>1, <2>2, FS_Subset
<1>14. /\ IsFiniteSet(ReceivedUpTo(c, j) \ {j})
       /\ Cardinality(ReceivedUpTo(c, j) \ {j}) = Cardinality(ReceivedUpTo(c, j)) - 1
  BY <1>13, FS_RemoveElement
<1>15. /\ IsFiniteSet(ReceivedUpTo(b, i))
       /\ Cardinality(ReceivedUpTo(b, i)) <= Cardinality(ReceivedUpTo(c, j) \ {j})
  BY <1>12, <1>14, FS_Injection
<1>16. Cardinality(ReceivedUpTo(b, i)) \in Nat /\ Cardinality(ReceivedUpTo(c, j)) \in Nat
  BY <1>13, <1>15, FS_CardinalityType
<1> QED
  BY <1>14, <1>15, <1>16

LEMMA TwinsSameOrder == TypeOK /\ Ordered /\ TwinInv => SameOrder
<1> SUFFICES ASSUME TypeOK, Ordered, TwinInv, NEW b \in BufferNames, NEW c \in BufferNames, Twins(b, c),
                    NEW i \in DOMAIN got, NEW j \in DOMAIN got, got[i].buffer = b, got[j].buffer = c,
                    Cardinality(ReceivedUpTo(b, i)) = Cardinality(ReceivedUpTo(c, j))
             PROVE  got[i].msg.id = got[j].msg.id
  BY DEF SameOrder
<1>1. i \in 1 .. Len(got) /\ j \in 1 .. Len(got)
  BY GotType
<1>2. got[i].msg.id \in Nat /\ got[j].msg.id \in Nat
  BY <1>1, GotType
<1>3. Twins(c, b)
  BY DEF Twins
<1>4. \A n \in 1 .. Len(got) : \A d : IsFiniteSet(ReceivedUpTo(d, n))
  <2> SUFFICES ASSUME NEW n \in 1 .. Len(got), NEW d PROVE IsFiniteSet(ReceivedUpTo(d, n))
    OBVIOUS
  <2>1. IsFiniteSet(1 .. n)
    BY GotType, FS_Interval
  <2>2. ReceivedUpTo(d, n) \in SUBSET (1 .. n)
    BY DEF ReceivedUpTo
  <2> QED
    BY <2>1, <2>2, FS_Subset
<1>5. Cardinality(ReceivedUpTo(b, i)) \in Nat /\ Cardinality(ReceivedUpTo(c, j)) \in Nat
  BY <1>1, <1>4, FS_CardinalityType
<1>6. ~ (got[i].msg.id < got[j].msg.id)
  <2>1. SUFFICES ASSUME got[i].msg.id < got[j].msg.id PROVE FALSE
    OBVIOUS
  <2>2. Cardinality(ReceivedUpTo(b, i)) < Cardinality(ReceivedUpTo(c, j))
    BY <1>1, <2>1, NotAhead
  <2> QED
    BY <1>5, <2>2
<1>7. ~ (got[j].msg.id < got[i].msg.id)
  <2>1. SUFFICES ASSUME got[j].msg.id < got[i].msg.id PROVE FALSE
    OBVIOUS
  <2>2. Cardinality(ReceivedUpTo(c, j)) < Cardinality(ReceivedUpTo(b, i))
    BY <1>1, <1>3, <2>1, NotAhead
  <2> QED
    BY <1>5, <2>2
<1> QED
  BY <1>2, <1>6, <1>7

\* In every program, the receivers of the same multicasts that only input, and refuse no value,
\* receive the same messages in the same order.
THEOREM MulticastsInSameOrder == Spec => []SameOrder
<1>1. Init => TypeOK /\ Fresh /\ Ordered /\ TwinInv
  <2>1. 1 .. Len(<<>>) = {}
    OBVIOUS
  <2> QED
    BY <2>1, InitType, InitEmpty DEF Ordered, TwinInv, Seen, Twins
<1>2. TypeOK /\ Fresh /\ Ordered /\ TwinInv /\ [Next]_vars => (TypeOK /\ Fresh /\ Ordered /\ TwinInv)'
  BY StepType, StepFresh, StepOrdered, StepTwins
<1>3. TypeOK /\ Ordered /\ TwinInv => SameOrder
  BY TwinsSameOrder
<1> QED
  BY <1>1, <1>2, <1>3, PTL DEF Spec
=============================================================================
