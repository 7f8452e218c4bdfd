------------------------- MODULE SymbexLoopProofs -------------------------
(* Type correctness of the evaluation loop and what it says of requests and *)
(* stops, for every list of units, every limit and every outcome.           *)
EXTENDS SymbexLoop, ListLemmas, FiniteSetTheorems

(* What the operations on the lists of contexts return and leave alone. *)

\* ecQueue->erase touches one list only.
LEMMA DropType ==
  ASSUME NEW S, NEW qs \in [Queues -> Seq(S)], NEW a \in Queues, NEW i \in 1 .. Len(qs[a])
  PROVE  /\ Drop(qs, a, i) \in [Queues -> Seq(S)]
         /\ \A n \in Queues \ {a} : Drop(qs, a, i)[n] = qs[n]
         /\ Len(Drop(qs, a, i)[a]) = Len(qs[a]) - 1
<1>1. RemoveAt(qs[a], i) \in Seq(S) /\ Len(RemoveAt(qs[a], i)) = Len(qs[a]) - 1
  BY RemoveAtType
<1> QED
  BY <1>1 DEF Drop

\* append touches one list only.
LEMMA AddType ==
  ASSUME NEW S, NEW qs \in [Queues -> Seq(S)], NEW b \in Queues, NEW c \in S
  PROVE  /\ Add(qs, b, c) \in [Queues -> Seq(S)]
         /\ \A n \in Queues \ {b} : Add(qs, b, c)[n] = qs[n]
BY DEF Add

\* Moving a context from a list to another touches these two only.
LEMMA MoveType ==
  ASSUME NEW S, NEW qs \in [Queues -> Seq(S)], NEW a \in Queues, NEW b \in Queues,
         NEW i \in 1 .. Len(qs[a])
  PROVE  /\ Move(qs, a, i, b) \in [Queues -> Seq(S)]
         /\ \A n \in Queues \ {a, b} : Move(qs, a, i, b)[n] = qs[n]
<1> DEFINE c == qs[a][i]
           r == Drop(qs, a, i)
<1>1. c \in S
  OBVIOUS
<1>2. /\ r \in [Queues -> Seq(S)]
      /\ \A n \in Queues \ {a} : r[n] = qs[n]
  BY DropType
<1>3. Move(qs, a, i, b) = Add(r, b, c)
  BY DEF Move
<1> HIDE DEF c, r
<1>4. /\ Add(r, b, c) \in [Queues -> Seq(S)]
      /\ \A n \in Queues \ {b} : Add(r, b, c)[n] = r[n]
  BY <1>1, <1>2 DEF Add
<1> QED
  BY <1>2, <1>3, <1>4

\* splice empties the list it takes from and touches these two only.
LEMMA SpliceType ==
  ASSUME NEW S, NEW qs \in [Queues -> Seq(S)], NEW a \in Queues, NEW b \in Queues, a # b
  PROVE  /\ Splice(qs, a, b) \in [Queues -> Seq(S)]
         /\ \A n \in Queues \ {a, b} : Splice(qs, a, b)[n] = qs[n]
         /\ Splice(qs, a, b)[a] = <<>>
         /\ Splice(qs, a, b)[b] = qs[b] \o qs[a]
<1> DEFINE r == [qs EXCEPT ![b] = qs[b] \o qs[a]]
<1>1. qs[b] \o qs[a] \in Seq(S) /\ <<>> \in Seq(S)
  BY ConcatProperties
<1>2. r \in [Queues -> Seq(S)] /\ r[b] = qs[b] \o qs[a] /\ \A n \in Queues \ {b} : r[n] = qs[n]
  BY <1>1
<1>3. Splice(qs, a, b) = [r EXCEPT ![a] = <<>>]
  BY DEF Splice
<1> HIDE DEF r
<1> QED
  BY <1>1, <1>2, <1>3

\* clear empties the lists named and touches no other.
LEMMA ClearType ==
  ASSUME NEW S, NEW qs \in [Queues -> Seq(S)], NEW N
  PROVE  /\ Clear(qs, N) \in [Queues -> Seq(S)]
         /\ \A n \in Queues \ N : Clear(qs, N)[n] = qs[n]
         /\ \A n \in Queues \cap N : Clear(qs, N)[n] = <<>>
BY DEF Clear

\* Removing a context from a list of children leaves a list of children.
LEMMA WithoutType ==
  ASSUME NEW S, NEW s \in Seq(S), NEW c
  PROVE  Without(s, c) \in Seq(S)
<1>1. CASE c \in Range(s)
  <2> DEFINE i == CHOOSE i \in DOMAIN s : s[i] = c
  <2>1. i \in 1 .. Len(s)
    BY <1>1 DEF Range
  <2> QED
    BY <1>1, <2>1, RemoveAtType DEF Without
<1>2. CASE c \notin Range(s)
  BY <1>2 DEF Without
<1> QED
  BY <1>1, <1>2

\* A selection of the children is a list of children.
LEMMA SomeOfType ==
  ASSUME NEW S, NEW s \in Seq(S), NEW t \in SomeOf(s)
  PROVE  t \in Seq(S)
<1>1. t \in SeqOf(Range(s), Len(s))
  BY DEF SomeOf
<1>2. PICK m \in 0 .. Len(s) : t \in [1 .. m -> Range(s)]
  BY <1>1 DEF SeqOf
<1>3. Range(s) \subseteq S
  BY RangeOfSeq
<1> QED
  BY <1>2, <1>3

\* What is drawn from a set is a list of its members.
LEMMA DrawsType ==
  ASSUME NEW S, NEW n \in Nat, NEW t \in Draws(S, n)
  PROVE  t \in Seq(S)
<1>1. t \in SeqOf(S, n)
  BY DEF Draws
<1>2. PICK m \in 0 .. n : t \in [1 .. m -> S]
  BY <1>1 DEF SeqOf
<1> QED
  BY <1>2

\* A finite set in any order is a list of its members.
LEMMA SetToSeqType ==
  ASSUME NEW S, IsFiniteSet(S)
  PROVE  SetToSeq(S) \in Seq(S)
<1>1. Cardinality(S) \in Nat /\ ExistsBijection(1 .. Cardinality(S), S)
  BY FS_CardinalityType
<1>2. \E f \in [1 .. Cardinality(S) -> S] : IsInjective(f)
  BY <1>1 DEF ExistsBijection, Bijection, Injection, Surjection, IsInjective
<1>3. SetToSeq(S) \in [1 .. Cardinality(S) -> S]
  BY <1>2 DEF SetToSeq
<1> QED
  BY <1>1, <1>3

\* What is left of a list is a list of the same contexts.
LEMMA LessType ==
  ASSUME NEW T, NEW s \in Seq(T), NEW S, NEW t \in Less(s, S)
  PROVE  t \in Seq(T)
<1> DEFINE left == { k \in DOMAIN s : s[k] \notin S }
<1>1. DOMAIN s = 1 .. Len(s) /\ Len(s) \in Nat /\ \A k \in DOMAIN s : s[k] \in T
  BY LenProperties, ElementOfSeq
<1>2. IsFiniteSet(1 .. Len(s))
  BY <1>1, FS_Interval
<1>3. Cardinality(left) \in Nat
  <2>1. left \in SUBSET (1 .. Len(s))
    BY <1>1
  <2> HIDE DEF left
  <2>2. IsFiniteSet(left)
    BY <1>2, <2>1, FS_Subset
  <2> QED
    BY <2>2, FS_CardinalityType
<1>4. PICK f \in [1 .. Cardinality(left) -> left] : t = [i \in DOMAIN f |-> s[f[i]]]
  BY DEF Less
<1>5. DOMAIN f = 1 .. Cardinality(left) /\ \A i \in DOMAIN f : f[i] \in DOMAIN s
  BY <1>4
<1> HIDE DEF left
<1>6. t \in [1 .. Cardinality(left) -> T]
  BY <1>1, <1>4, <1>5
<1> QED
  BY <1>3, <1>6

-----------------------------------------------------------------------------
(* The lists stay disjoint. *)

\* The places of typed lists.
LEMMA PlacesType ==
  ASSUME NEW S, NEW qs \in [Queues -> Seq(S)], NEW a \in Queues
  PROVE  DOMAIN qs[a] = 1 .. Len(qs[a]) /\ Len(qs[a]) \in Nat /\ \A i \in DOMAIN qs[a] : qs[a][i] \in S
<1>1. qs[a] \in Seq(S)
  OBVIOUS
<1> QED
  BY <1>1, LenProperties, ElementOfSeq

\* erase: what is erased is in no list any more.
LEMMA DropDisjoint ==
  ASSUME NEW S, NEW qs \in [Queues -> Seq(S)], NEW a \in Queues, NEW i \in 1 .. Len(qs[a]),
         Disjoint(qs)
  PROVE  /\ Disjoint(Drop(qs, a, i))
         /\ \A n \in Queues : Held(Drop(qs, a, i), n) \subseteq Held(qs, n)
         /\ \A n \in Queues : qs[a][i] \notin Held(Drop(qs, a, i), n)
<1> DEFINE r == Drop(qs, a, i)
           At(n, j) == IF n = a /\ ~ (j < i) THEN j + 1 ELSE j
<1>1. /\ r \in [Queues -> Seq(S)] /\ \A n \in Queues \ {a} : r[n] = qs[n]
      /\ Len(r[a]) = Len(qs[a]) - 1 /\ r[a] = RemoveAt(qs[a], i)
  <2>1. r[a] = RemoveAt(qs[a], i)
    BY DEF Drop
  <2> HIDE DEF r
  <2> QED
    BY <2>1, DropType DEF r
<1>2. \A n \in Queues : DOMAIN qs[n] = 1 .. Len(qs[n]) /\ Len(qs[n]) \in Nat
  BY PlacesType
<1>3. \A n \in Queues : DOMAIN r[n] = 1 .. Len(r[n]) /\ Len(r[n]) \in Nat
  BY <1>1, PlacesType
<1>4. qs[a] \in Seq(S)
  OBVIOUS
<1>5. \A j \in 1 .. Len(qs[a]) - 1 : RemoveAt(qs[a], i)[j] = IF j < i THEN qs[a][j] ELSE qs[a][j + 1]
  BY <1>4, RemoveAtElements
<1> HIDE DEF r
<1>6. ASSUME NEW n \in Queues, NEW j \in DOMAIN r[n]
      PROVE  At(n, j) \in DOMAIN qs[n] /\ r[n][j] = qs[n][At(n, j)] /\ ~ (n = a /\ At(n, j) = i)
  <2>1. CASE n = a
    <3>1. j \in 1 .. Len(qs[a]) - 1
      BY <1>1, <1>3, <2>1
    <3>2. r[a][j] = IF j < i THEN qs[a][j] ELSE qs[a][j + 1]
      BY <1>1, <1>5, <3>1
    <3> QED
      BY <1>2, <2>1, <3>1, <3>2
  <2>2. CASE n # a
    BY <1>1, <2>2
  <2> QED
    BY <2>1, <2>2
<1>7. ASSUME NEW n \in Queues, NEW j \in DOMAIN r[n], NEW k \in DOMAIN r[n], At(n, j) = At(n, k)
      PROVE  j = k
  <2>1. j \in Nat /\ k \in Nat
    BY <1>3
  <2> QED
    BY <1>7, <2>1
<1> HIDE DEF At
<1>8. Disjoint(r)
  BY <1>6, <1>7 DEF Disjoint
<1>9. \A n \in Queues : Held(r, n) \subseteq Held(qs, n)
  BY <1>6 DEF Held
<1>10. \A n \in Queues : qs[a][i] \notin Held(r, n)
  BY <1>2, <1>6 DEF Held, Disjoint
<1> QED
  BY <1>8, <1>9, <1>10 DEF r

\* the contexts of s are different ones; they are in no list; s is appended to list b
Different(s) == \A i, j \in DOMAIN s : s[i] = s[j] => i = j
Outside(s, qs) == \A i \in DOMAIN s, n \in Queues : s[i] \notin Held(qs, n)
Longer(r, qs, b, s) == r[b] = qs[b] \o s /\ \A n \in Queues \ {b} : r[n] = qs[n]
Appends(S, r, qs, b, s) ==
  /\ qs \in [Queues -> Seq(S)] /\ b \in Queues /\ s \in Seq(S)
  /\ Disjoint(qs) /\ Different(s) /\ Outside(s, qs) /\ Longer(r, qs, b, s)

\* A list of different contexts that are in no list is appended to one.
LEMMA ConcatDisjoint ==
  ASSUME NEW S, NEW qs, NEW b, NEW s, NEW r, Appends(S, r, qs, b, s)
  PROVE  /\ Disjoint(r)
         /\ \A n \in Queues \ {b} : Held(r, n) = Held(qs, n)
         /\ Held(r, b) = Held(qs, b) \cup Range(s)
<1> /\ qs \in [Queues -> Seq(S)] /\ b \in Queues /\ s \in Seq(S)
    /\ Disjoint(qs) /\ Different(s) /\ Outside(s, qs) /\ Longer(r, qs, b, s)
  BY DEF Appends
<1>1. DOMAIN s = 1 .. Len(s) /\ Len(s) \in Nat
  BY LenProperties
<1>2. \A n \in Queues : DOMAIN qs[n] = 1 .. Len(qs[n]) /\ Len(qs[n]) \in Nat
  BY PlacesType
<1>3. qs[b] \in Seq(S)
  OBVIOUS
<1>4. /\ Len(qs[b] \o s) = Len(qs[b]) + Len(s) /\ qs[b] \o s \in Seq(S)
      /\ \A k \in 1 .. Len(qs[b]) + Len(s) :
           (qs[b] \o s)[k] = IF k <= Len(qs[b]) THEN qs[b][k] ELSE s[k - Len(qs[b])]
  BY <1>3, ConcatProperties
<1>5. r[b] = qs[b] \o s /\ \A n \in Queues \ {b} : r[n] = qs[n]
  BY DEF Longer
<1>6. DOMAIN r[b] = 1 .. Len(qs[b]) + Len(s)
  BY <1>4, <1>5, LenProperties
<1>7. ASSUME NEW n \in Queues, NEW j \in DOMAIN r[n]
      PROVE  \/ j \in DOMAIN qs[n] /\ r[n][j] = qs[n][j]
             \/ /\ n = b /\ j - Len(qs[b]) \in DOMAIN s /\ r[n][j] = s[j - Len(qs[b])]
                /\ j \in Nat
  <2>1. CASE n = b
    <3>1. /\ j \in 1 .. Len(qs[b]) + Len(s) /\ Len(qs[b]) \in Nat /\ Len(s) \in Nat
          /\ r[n][j] = IF j <= Len(qs[b]) THEN qs[b][j] ELSE s[j - Len(qs[b])]
      BY <1>1, <1>2, <1>4, <1>5, <1>6, <2>1
    <3>2. CASE j <= Len(qs[b])
      <4>1. j \in 1 .. Len(qs[b])
        BY <3>1, <3>2
      <4> QED
        BY <1>2, <2>1, <3>1, <3>2, <4>1
    <3>3. CASE ~ (j <= Len(qs[b]))
      <4>1. j - Len(qs[b]) \in 1 .. Len(s) /\ j \in Nat
        BY <3>1, <3>3
      <4> QED
        BY <1>1, <2>1, <3>1, <3>3, <4>1
    <3> QED
      BY <3>2, <3>3
  <2>2. CASE n # b
    BY <1>5, <2>2
  <2> QED
    BY <2>1, <2>2
<1>8. ASSUME NEW n \in Queues, NEW m \in Queues, NEW j \in DOMAIN r[n], NEW k \in DOMAIN r[m],
             r[n][j] = r[m][k]
      PROVE  n = m /\ j = k
  <2>1. CASE j \in DOMAIN qs[n] /\ r[n][j] = qs[n][j]
    <3>1. r[n][j] \in Held(qs, n)
      BY <2>1 DEF Held
    <3>2. k \in DOMAIN qs[m] /\ r[m][k] = qs[m][k]
      BY <1>7, <1>8, <3>1 DEF Outside
    <3>3. qs[n][j] = qs[m][k] /\ j \in DOMAIN qs[n] /\ k \in DOMAIN qs[m]
      BY <1>8, <2>1, <3>2
    <3>4. \A i \in DOMAIN qs[n], l \in DOMAIN qs[m] : qs[n][i] = qs[m][l] => n = m /\ i = l
      BY DEF Disjoint
    <3> QED
      BY <3>3, <3>4
  <2>2. CASE n = b /\ j - Len(qs[b]) \in DOMAIN s /\ r[n][j] = s[j - Len(qs[b])] /\ j \in Nat
    <3>1. \A l \in Queues : r[m][k] \notin Held(qs, l)
      BY <1>8, <2>2 DEF Outside
    <3>2. /\ m = b /\ k - Len(qs[b]) \in DOMAIN s /\ r[m][k] = s[k - Len(qs[b])] /\ k \in Nat
      BY <1>7, <3>1 DEF Held
    <3>3. j - Len(qs[b]) = k - Len(qs[b])
      BY <1>8, <2>2, <3>2 DEF Different
    <3> QED
      BY <1>2, <2>2, <3>2, <3>3
  <2> QED
    BY <1>7, <2>1, <2>2
<1>9. Disjoint(r)
  BY <1>8 DEF Disjoint
<1>10. \A n \in Queues \ {b} : Held(r, n) = Held(qs, n)
  BY <1>5 DEF Held
<1>11. ASSUME NEW j \in DOMAIN r[b] PROVE r[b][j] \in Held(qs, b) \cup Range(s)
  <2>1. CASE j \in DOMAIN qs[b] /\ r[b][j] = qs[b][j]
    BY <2>1, Zenon DEF Held
  <2>2. CASE j - Len(qs[b]) \in DOMAIN s /\ r[b][j] = s[j - Len(qs[b])]
    BY <2>2, Zenon DEF Range
  <2> QED
    BY <1>7, <2>1, <2>2
<1>12. ASSUME NEW j \in DOMAIN qs[b] PROVE qs[b][j] \in Held(r, b)
  <2>1. j \in DOMAIN r[b] /\ r[b][j] = qs[b][j]
    BY <1>1, <1>2, <1>4, <1>5, <1>6
  <2> QED
    BY <2>1 DEF Held
<1>13. ASSUME NEW j \in DOMAIN s PROVE s[j] \in Held(r, b)
  <2>1. j + Len(qs[b]) \in DOMAIN r[b] /\ r[b][j + Len(qs[b])] = s[j]
    BY <1>1, <1>2, <1>4, <1>5, <1>6
  <2> QED
    BY <2>1 DEF Held
<1>14. Held(r, b) = Held(qs, b) \cup Range(s)
  <2>1. \A x \in Held(r, b) : x \in Held(qs, b) \cup Range(s)
    BY <1>11, Zenon DEF Held
  <2>2. \A x \in Held(qs, b) : x \in Held(r, b)
    BY <1>12, Zenon DEF Held
  <2>3. \A x \in Range(s) : x \in Held(r, b)
    BY <1>13, Zenon DEF Range
  <2> QED
    BY <2>1, <2>2, <2>3
<1> QED
  BY <1>9, <1>10, <1>14

\* clear empties lists.
LEMMA ClearDisjoint ==
  ASSUME NEW S, NEW qs \in [Queues -> Seq(S)], NEW N, Disjoint(qs)
  PROVE  /\ Disjoint(Clear(qs, N))
         /\ \A n \in Queues : Held(Clear(qs, N), n) = IF n \in N THEN {} ELSE Held(qs, n)
<1> DEFINE r == Clear(qs, N)
<1>1. \A n \in Queues : r[n] = IF n \in N THEN <<>> ELSE qs[n]
  BY DEF Clear
<1>2. \A n \in Queues : n \in N => DOMAIN r[n] = {}
  BY <1>1
<1> HIDE DEF r
<1>3. Disjoint(r)
  BY <1>1, <1>2 DEF Disjoint
<1>4. \A n \in Queues : Held(r, n) = IF n \in N THEN {} ELSE Held(qs, n)
  BY <1>1, <1>2 DEF Held
<1> QED
  BY <1>3, <1>4 DEF r

\* append of a context that is in no list.
LEMMA AddDisjoint ==
  ASSUME NEW S, NEW qs \in [Queues -> Seq(S)], NEW b \in Queues, NEW c \in S, Disjoint(qs),
         \A n \in Queues : c \notin Held(qs, n)
  PROVE  /\ Disjoint(Add(qs, b, c))
         /\ \A n \in Queues \ {b} : Held(Add(qs, b, c), n) = Held(qs, n)
         /\ Held(Add(qs, b, c), b) = Held(qs, b) \cup {c}
<1> DEFINE s == <<c>>
<1>1. s \in Seq(S) /\ DOMAIN s = {1} /\ s[1] = c
  OBVIOUS
<1>2. Range(s) = {c}
  BY <1>1 DEF Range
<1>3. Append(qs[b], c) = qs[b] \o s
  <2>1. qs[b] \in Seq(S)
    OBVIOUS
  <2> QED
    BY <2>1, AppendIsConcat
<1> DEFINE r == Add(qs, b, c)
<1>4. Longer(r, qs, b, s)
  BY <1>3 DEF Add, Longer
<1> HIDE DEF r, s
<1>5. Different(s)
  BY <1>1 DEF Different
<1>6. Outside(s, qs)
  BY <1>1 DEF Outside
<1>7. /\ Disjoint(r)
      /\ \A n \in Queues \ {b} : Held(r, n) = Held(qs, n)
      /\ Held(r, b) = Held(qs, b) \cup Range(s)
  <2>1. Appends(S, r, qs, b, s)
    BY <1>1, <1>4, <1>5, <1>6 DEF Appends
  <2> QED
    BY <2>1, ConcatDisjoint
<1> QED
  BY <1>2, <1>7 DEF r

\* A context that moves is in no other list.
LEMMA MoveDisjoint ==
  ASSUME NEW S, NEW qs \in [Queues -> Seq(S)], NEW a \in Queues, NEW b \in Queues,
         NEW i \in 1 .. Len(qs[a]), Disjoint(qs)
  PROVE  /\ Disjoint(Move(qs, a, i, b))
         /\ \A n \in Queues \ {b} : Held(Move(qs, a, i, b), n) \subseteq Held(qs, n) \ {qs[a][i]}
         /\ Held(Move(qs, a, i, b), b) \subseteq Held(qs, b) \cup {qs[a][i]}
<1> DEFINE r == Drop(qs, a, i)
           c == qs[a][i]
<1>1. r \in [Queues -> Seq(S)] /\ c \in S
  BY DropType, PlacesType
<1>2. /\ Disjoint(r)
      /\ \A n \in Queues : Held(r, n) \subseteq Held(qs, n)
      /\ \A n \in Queues : c \notin Held(r, n)
  BY DropDisjoint
<1>3. Move(qs, a, i, b) = Add(r, b, c)
  BY DEF Move
<1> HIDE DEF r, c
<1>4. /\ Disjoint(Add(r, b, c))
      /\ \A n \in Queues \ {b} : Held(Add(r, b, c), n) = Held(r, n)
      /\ Held(Add(r, b, c), b) = Held(r, b) \cup {c}
  BY <1>1, <1>2, AddDisjoint
<1>5. Held(r, b) \subseteq Held(qs, b)
  BY <1>2
<1>6. ASSUME NEW n \in Queues \ {b}
      PROVE  Held(Add(r, b, c), n) \subseteq Held(qs, n) \ {c}
  BY <1>2, <1>4
<1> QED
  BY <1>3, <1>4, <1>5, <1>6 DEF c

\* splice moves all that one list holds to another.
LEMMA SpliceDisjoint ==
  ASSUME NEW S, NEW qs \in [Queues -> Seq(S)], NEW a \in Queues, NEW b \in Queues, a # b,
         Disjoint(qs)
  PROVE  /\ Disjoint(Splice(qs, a, b))
         /\ \A n \in Queues : n # a /\ n # b => Held(Splice(qs, a, b), n) = Held(qs, n)
         /\ Held(Splice(qs, a, b), a) = {}
         /\ Held(Splice(qs, a, b), b) = Held(qs, b) \cup Held(qs, a)
<1> DEFINE r == Clear(qs, {a})
           s == qs[a]
<1>1. r \in [Queues -> Seq(S)] /\ s \in Seq(S)
  BY ClearType
<1>2. /\ Disjoint(r)
      /\ \A n \in Queues : Held(r, n) = IF n \in {a} THEN {} ELSE Held(qs, n)
  BY ClearDisjoint
<1> DEFINE t == Splice(qs, a, b)
<1>3. Longer(t, r, b, s)
  BY DEF Splice, Clear, Longer
<1>4. Different(s)
  BY Zenon DEF Disjoint, Different
<1>5. Outside(s, r)
  <2> SUFFICES ASSUME NEW i \in DOMAIN s, NEW n \in Queues, n # a PROVE s[i] \notin Held(qs, n)
    BY <1>2 DEF Outside
  <2>1. \A j \in DOMAIN qs[n] : qs[a][i] = qs[n][j] => a = n
    BY Zenon DEF Disjoint
  <2> QED
    BY <2>1 DEF Held
<1>6. Range(s) = Held(qs, a)
  BY DEF Held, Range
<1> HIDE DEF r, s, t
<1>7. Disjoint(r)
  BY <1>2
<1>8. /\ Disjoint(t)
      /\ \A n \in Queues \ {b} : Held(t, n) = Held(r, n)
      /\ Held(t, b) = Held(r, b) \cup Range(s)
  <2>1. Appends(S, t, r, b, s)
    BY <1>1, <1>3, <1>4, <1>5, <1>7 DEF Appends
  <2> QED
    BY <2>1, ConcatDisjoint
<1> QED
  BY <1>2, <1>6, <1>8 DEF t

-----------------------------------------------------------------------------
(* Where listeners are being called. *)

\* No listener is being called when the engine starts.
LEMMA FiringWhereInit == Init => FiringWhere
BY DEF Init, FiringWhere

\* Listeners are left to be called at no other place after any step.
LEMMA FiringWhereStep == FiringWhere /\ [Next]_vars => FiringWhere'
<1> SUFFICES ASSUME FiringWhere, [Next]_vars PROVE FiringWhere'
  OBVIOUS
<1> USE DEF FiringWhere, Goto, Walked, Walking, requestVars
<1>1. CASE Prefilter
  BY <1>1 DEF Prefilter, MainPrefilter, ReadStopScript, EndMainPrefilter, RedundancyPrefilter,
     EndRedundancyPrefilter, FilterPrefilter, JumpPrefilter, PassPrefilter, CoveragePrefilterStop,
     NextPrefilter, EndPrefiltering, Keep, Take, EndPrefilter
<1>2. CASE Fire
  BY <1>2 DEF Fire, FireStop, FireRequeueWaiting, NothingToFire, FireGoalReady, NoGoalReady,
     EndGoalReady, FireContinue, EndContinue, FireGoalResult, NoGoalResult, EndGoalResult,
     FireAll, StartFiring
<1>3. CASE Handle
  BY <1>3 DEF Handle, IgnoreGoal, JumpGoal, JumpGivesUp, JumpBacktracks, JumpSelects, Listener
<1>4. CASE Postfilter
  BY <1>4 DEF Postfilter, FilterPostfilter, SelectorPostfilter, NextPostfilter, EndPostfiltering,
     PopResult, FinalizeChild, FinalizeSelected, EndFinalize, PushWaiting, Postfiltering
<1>5. CASE \/ AnalyseReady \/ PopWaiting \/ NothingToRefill \/ HandOver \/ Evaluate
           \/ EndEvaluate \/ AnalyseResult \/ NoResult \/ Loop
  BY <1>5 DEF AnalyseReady, PopWaiting, NothingToRefill, HandOver, Evaluate, EndEvaluate,
     AnalyseResult, NoResult, Loop
<1>6. CASE UNCHANGED vars
  BY <1>6 DEF vars
<1> QED
  BY <1>1, <1>2, <1>3, <1>4, <1>5, <1>6 DEF Next, Step, Terminated

-----------------------------------------------------------------------------
(* Requests: the mask, the listeners and the list being fired. *)

\* A post adds bits of known requests and registers a unit that may post.
LEMMA PostType ==
  ASSUME RequestsOK, NEW u \in Posters, NEW R \in SUBSET Requests, Post(u, R)
  PROVE  requested' \subseteq Requests /\ listeners' \in [Requests -> Seq(Posters)]
<1>1. ASSUME NEW s \in Seq(Posters) PROVE AddUnique(s, u) \in Seq(Posters)
  BY DEF AddUnique
<1> QED
  BY <1>1 DEF Post, RequestsOK

\* The requests a hit-or-jump unit posts before the loop starts are typed.
LEMMA InitRequests == Init => RequestsOK
<1> SUFFICES ASSUME Init PROVE RequestsOK
  OBVIOUS
<1>1. JumpUnits \in Seq(Posters)
  BY UnitsAssumption, SeqMonotonic DEF Posters
<1> QED
  BY <1>1 DEF Init, RequestsOK, Requests

\* Firing a request keeps the mask, the listener lists and the list being fired typed.
LEMMA FireType ==
  ASSUME RequestsOK, NEW r \in Requests, StartFiring(r) \/ FireAll(r)
  PROVE  RequestsOK'
<1>1. listeners[r] \in Seq(Posters) /\ <<>> \in Seq(Posters)
  BY DEF RequestsOK
<1> QED
  BY <1>1 DEF RequestsOK, StartFiring, FireAll

\* The unit being called is one that may post a request.
LEMMA HeadIsPoster ==
  ASSUME RequestsOK, firing # <<>>
  PROVE  Head(firing) \in Posters /\ Tail(firing) \in Seq(Posters)
BY HeadTailProperties DEF RequestsOK

\* A unit of the prefilters or of the postfilters may post a request.
LEMMA UnitIsPoster ==
  ASSUME ControlOK
  PROVE  /\ unit <= Len(PreUnits) => PreUnits[unit] \in Posters
         /\ unit <= Len(PostUnits) => PostUnits[unit] \in Posters
BY UnitsAssumption, LenProperties DEF ControlOK, Posters

\* What a step may do to the requests: nothing, fire one while no listener is left to be
\* called, post some, or return from a listener; a unit may post before it returns.
RequestStep ==
  \/ UNCHANGED requestVars
  \/ firing = <<>> /\ \E r \in Requests : StartFiring(r) \/ FireAll(r)
  \/ /\ firing' = firing \/ (firing # <<>> /\ firing' = Tail(firing))
     /\ \/ UNCHANGED <<requested, listeners>>
        \/ \E u \in Posters, R \in SUBSET Requests : Post(u, R)

\* Every step posts for one unit, starts or ends a fire, calls the next listener, or
\* leaves the requests alone: what the theorems on requests look at.
LEMMA RequestSteps == TypeOK /\ FiringWhere /\ [Next]_vars => RequestStep
<1> SUFFICES ASSUME TypeOK, FiringWhere, [Next]_vars PROVE RequestStep
  OBVIOUS
<1> USE DEF TypeOK, RequestStep
<1>2. CASE FireStop \/ FireRequeueWaiting \/ FireGoalReady \/ FireContinue \/ FireGoalResult
  BY <1>2 DEF FireStop, FireRequeueWaiting, FireGoalReady, FireContinue, FireGoalResult, Requests,
     FiringWhere, Goto
<1>3. CASE ReadStopScript
  <2>1. Post(Main, {"STOP"}) /\ firing' = firing
    BY <1>3 DEF ReadStopScript
  <2> QED
    BY <2>1 DEF Posters, Requests
<1>4. CASE CoveragePrefilterStop
  <2>1. Post(PreUnits[unit], {"STOP"}) /\ firing' = firing /\ unit <= Len(PreUnits)
    BY <1>4 DEF CoveragePrefilterStop, Prefiltering
  <2> QED
    BY <2>1, UnitIsPoster DEF Requests
<1>5. CASE NextPostfilter
  <2>1. /\ \E R \in SUBSET Requests : Post(PostUnits[unit], R)
        /\ firing' = firing /\ unit <= Len(PostUnits)
    BY <1>5 DEF NextPostfilter, Postfiltering, MayPost, Requests
  <2> QED
    BY <2>1, UnitIsPoster
<1>6. CASE IgnoreGoal
  BY <1>6 DEF IgnoreGoal, Listener
<1>7. CASE JumpGoal \/ JumpGivesUp \/ JumpBacktracks \/ JumpSelects
  <2>1. firing # <<>> /\ firing' = Tail(firing)
    BY <1>7 DEF JumpGoal, JumpGivesUp, JumpBacktracks, JumpSelects, Listener
  <2>2. \E R \in SUBSET Requests : Post(Head(firing), R)
    <3>1. \A G \in SUBSET {"GOAL_ACHIEVED"} : G \cup {"CONTINUE"} \in SUBSET Requests
      BY DEF Requests
    <3>2. {{"STOP"}, {"CONTINUE"}, {"GOAL_ACHIEVED"}} \subseteq SUBSET Requests
      BY DEF Requests
    <3>3. CASE JumpGoal \/ JumpGivesUp
      BY <3>2, <3>3 DEF JumpGoal, JumpGivesUp
    <3>4. CASE JumpBacktracks
      BY <3>1, <3>2, <3>4, Zenon DEF JumpBacktracks
    <3>5. CASE JumpSelects
      BY <3>1, <3>5, Zenon DEF JumpSelects
    <3> QED
      BY <1>7, <3>3, <3>4, <3>5
  <2> QED
    BY <2>1, <2>2, HeadIsPoster
<1>9. CASE Prefilter
  <2>1. ReadStopScript \/ CoveragePrefilterStop \/ UNCHANGED requestVars
    BY <1>9 DEF Prefilter, MainPrefilter, EndMainPrefilter, RedundancyPrefilter,
       EndRedundancyPrefilter, FilterPrefilter, JumpPrefilter, PassPrefilter,
       NextPrefilter, EndPrefiltering, EndPrefilter
  <2> QED
    BY <1>3, <1>4, <2>1
<1>10. CASE Fire
  <2>1. \/ FireStop \/ FireRequeueWaiting \/ FireGoalReady \/ FireContinue \/ FireGoalResult
        \/ UNCHANGED requestVars
    BY <1>10 DEF Fire, NothingToFire, NoGoalReady, EndGoalReady, EndContinue, NoGoalResult,
       EndGoalResult
  <2> QED
    BY <1>2, <2>1
<1>11. CASE Handle
  BY <1>6, <1>7, <1>11 DEF Handle
<1>12. CASE Postfilter
  <2>1. NextPostfilter \/ UNCHANGED requestVars
    BY <1>12 DEF Postfilter, FilterPostfilter, SelectorPostfilter, EndPostfiltering,
       PopResult, FinalizeChild, FinalizeSelected, EndFinalize, PushWaiting, requestVars
  <2> QED
    BY <1>5, <2>1
<1>13. CASE \/ AnalyseReady \/ PopWaiting \/ NothingToRefill \/ HandOver \/ Evaluate
            \/ EndEvaluate \/ AnalyseResult \/ NoResult \/ Loop
  BY <1>13 DEF AnalyseReady, PopWaiting, NothingToRefill, HandOver, Evaluate, EndEvaluate,
     AnalyseResult, NoResult, Loop
<1>14. CASE UNCHANGED vars
  BY <1>14 DEF vars
<1> QED
  BY <1>9, <1>10, <1>11, <1>12, <1>13, <1>14 DEF Next, Step, Terminated

\* Requests stay typed in every step.
LEMMA RequestsStep == TypeOK /\ FiringWhere /\ [Next]_vars => RequestsOK'
<1> SUFFICES ASSUME TypeOK, FiringWhere, RequestStep PROVE RequestsOK'
  BY RequestSteps
<1>1. RequestsOK
  BY DEF TypeOK
<1>2. CASE UNCHANGED requestVars
  BY <1>1, <1>2 DEF RequestsOK, requestVars
<1>3. CASE \E r \in Requests : StartFiring(r) \/ FireAll(r)
  BY <1>1, <1>3, FireType
<1>4. ASSUME firing' = firing \/ (firing # <<>> /\ firing' = Tail(firing))
      PROVE  firing' \in Seq(Posters)
  BY <1>1, <1>4, HeadIsPoster DEF RequestsOK
<1>5. CASE UNCHANGED <<requested, listeners>> /\ firing' \in Seq(Posters)
  BY <1>1, <1>5 DEF RequestsOK
<1>6. CASE /\ \E u \in Posters, R \in SUBSET Requests : Post(u, R)
           /\ firing' \in Seq(Posters)
  BY <1>1, <1>6, PostType DEF RequestsOK
<1> QED
  BY <1>2, <1>3, <1>4, <1>5, <1>6 DEF RequestStep

\* The mask and the listener lists agree after every step if they did before it.
LEMMA RequestsHaveListenersStep ==
  TypeOK /\ FiringWhere /\ RequestsHaveListeners /\ [Next]_vars => RequestsHaveListeners'
<1> SUFFICES ASSUME TypeOK, RequestsHaveListeners, RequestStep PROVE RequestsHaveListeners'
  BY RequestSteps
<1>1. requested \subseteq Requests /\ listeners \in [Requests -> Seq(Posters)]
  BY DEF TypeOK, RequestsOK
<1>2. CASE UNCHANGED <<requested, listeners>>
  BY <1>2 DEF RequestsHaveListeners
<1>3. CASE \E r \in Requests : StartFiring(r) \/ FireAll(r)
  BY <1>1, <1>3 DEF RequestsHaveListeners, StartFiring, FireAll
<1>4. CASE \E u \in Posters, R \in SUBSET Requests : Post(u, R)
  <2>1. PICK u \in Posters, R \in SUBSET Requests : Post(u, R)
    BY <1>4
  <2>2. ASSUME NEW s \in Seq(Posters) PROVE AddUnique(s, u) # <<>>
    <3>1. CASE Contains(s, u)
      <4>1. s # <<>>
        BY <3>1 DEF Contains
      <4> QED
        BY <3>1, <4>1 DEF AddUnique
    <3>2. CASE ~Contains(s, u)
      BY <3>2, AppendProperties DEF AddUnique
    <3> QED
      BY <3>1, <3>2
  <2>3. /\ requested' = requested \cup R
        /\ listeners' = [r \in Requests |->
                            IF r \in R THEN AddUnique(listeners[r], u) ELSE listeners[r]]
    BY <2>1 DEF Post
  <2> QED
    BY <1>1, <2>2, <2>3 DEF RequestsHaveListeners
<1> QED
  BY <1>2, <1>3, <1>4 DEF RequestStep, requestVars

-----------------------------------------------------------------------------
(* Control: labels, lifecycle, counters and iterators. *)

\* ControlOK less the stop marker, which is Boolean
NumbersOK ==
  /\ pc \in Labels
  /\ static \in {"STARTED", "STOPPED"}
  /\ dynamic \in {"IDLE", "RUNNING", "SUSPENDED"}
  /\ stepCount \in Nat /\ evalNumber \in Nat /\ graphWidth \in Nat /\ trials \in Nat
  /\ cur \in Nat \ {0} /\ unit \in Nat \ {0}

\* The engine starts with its counters at zero and its lifecycle started.
LEMMA ControlInit == Init => ControlOK
<1>1. Init => NumbersOK
  BY DEF Init, NumbersOK, Labels
<1>2. Init => stopMarker \in BOOLEAN
  BY Zenon DEF Init
<1> QED
  BY <1>1, <1>2, Zenon DEF NumbersOK, ControlOK

\* finalizePostfiltering(aChildEC) opens at most one column.
LEMMA FinalizeWidth ==
  ASSUME NEW c, Finalize(c)
  PROVE  graphWidth' = graphWidth \/ graphWidth' = graphWidth + 1
<1>1. graphWidth' = IF ec[c].aees \notin {"NOTHING", "ERROR"} /\ TakesNewWidth(c)
                    THEN graphWidth + 1 ELSE graphWidth
  BY Zenon DEF Finalize
<1> QED
  BY <1>1, Zenon

\* Counters, iterators and lifecycle states stay in their ranges.
LEMMA NumbersStep == NumbersOK /\ [Next]_vars => NumbersOK'
<1> SUFFICES ASSUME NumbersOK, [Next]_vars PROVE NumbersOK'
  OBVIOUS
<1> USE DEF NumbersOK, Labels, Goto, Walked, Walking, lifeVars, countVars, walkVars
<1>1. CASE Prefilter
  <2>1. CASE MainPrefilter \/ RedundancyPrefilter \/ FilterPrefilter \/ JumpPrefilter
             \/ PassPrefilter \/ CoveragePrefilterStop
    BY <2>1 DEF MainPrefilter, RedundancyPrefilter, FilterPrefilter, JumpPrefilter,
       PassPrefilter, CoveragePrefilterStop, Keep, Take
  <2>2. CASE ReadStopScript
    BY <2>2 DEF ReadStopScript, Take
  <2>3. CASE EndMainPrefilter \/ EndRedundancyPrefilter \/ NextPrefilter \/ EndPrefiltering
    BY <2>3 DEF EndMainPrefilter, EndRedundancyPrefilter, NextPrefilter, EndPrefiltering,
       EndPrefilter
  <2> QED
    BY <1>1, <2>1, <2>2, <2>3 DEF Prefilter
<1>2. CASE Fire
  BY <1>2 DEF Fire, FireStop, FireRequeueWaiting, NothingToFire, FireGoalReady, NoGoalReady,
     EndGoalReady, FireContinue, EndContinue, FireGoalResult, NoGoalResult, EndGoalResult
<1>3. CASE Handle
  BY <1>3 DEF Handle, IgnoreGoal, JumpGoal, JumpGivesUp, JumpBacktracks, JumpSelects,
     Listener, NextTrial
<1>4. CASE Postfilter
  <2>1. CASE FilterPostfilter \/ SelectorPostfilter \/ NextPostfilter
    BY <2>1 DEF FilterPostfilter, SelectorPostfilter, NextPostfilter, Postfiltering
  <2>2. CASE EndPostfiltering \/ PopResult \/ EndFinalize \/ PushWaiting
    BY <2>2 DEF EndPostfiltering, PopResult, EndFinalize, PushWaiting
  <2>3. CASE FinalizeChild \/ FinalizeSelected
    <3>1. \E c : Finalize(c)
      BY <2>3 DEF FinalizeChild, FinalizeSelected
    <3>2. graphWidth' \in Nat
      BY <3>1, FinalizeWidth
    <3>3. /\ pc' \in {"finalizeResult", "finalizeAnte", "crashed"}
          /\ UNCHANGED <<static, dynamic, stepCount, evalNumber, trials, cur, unit>>
      BY <2>3 DEF FinalizeChild, FinalizeSelected
    <3> QED
      BY <3>2, <3>3
  <2> QED
    BY <1>4, <2>1, <2>2, <2>3 DEF Postfilter
<1>5. CASE AnalyseReady \/ HandOver
  BY <1>5 DEF AnalyseReady, HandOver, NoWork
<1>6. CASE Evaluate
  <2>1. evalNumber' = evalNumber + 1 /\ UNCHANGED <<pc, static, dynamic, stepCount, trials, cur, unit>>
    BY <1>6 DEF Evaluate
  <2>2. graphWidth' = graphWidth \/ graphWidth' = graphWidth + 1
    BY <1>6 DEF Evaluate
  <2> QED
    BY <2>1, <2>2
<1>7. CASE PopWaiting \/ NothingToRefill \/ EndEvaluate \/ AnalyseResult \/ NoResult \/ Loop
  BY <1>7 DEF PopWaiting, NothingToRefill, EndEvaluate, AnalyseResult, NoResult, Loop, NoWork
<1>8. CASE UNCHANGED vars
  BY <1>8 DEF vars
<1> QED
  BY <1>1, <1>2, <1>3, <1>4, <1>5, <1>6, <1>7, <1>8 DEF Next, Step, Terminated

\* The stop marker is set by the stop file or by an EXIT ALL statement, and never reset.
LEMMA MarkerSteps ==
  ASSUME [Next]_vars
  PROVE  \/ UNCHANGED stopMarker
         \/ ReadStopScript
         \/ \E c : Finalize(c)
<1>1. Prefilter => ReadStopScript \/ UNCHANGED stopMarker
  BY DEF Prefilter, MainPrefilter, EndMainPrefilter, RedundancyPrefilter,
     EndRedundancyPrefilter, FilterPrefilter, JumpPrefilter, PassPrefilter, CoveragePrefilterStop,
     NextPrefilter, EndPrefiltering, EndPrefilter, lifeVars
<1>2. Fire => UNCHANGED stopMarker
  BY DEF Fire, FireStop, FireRequeueWaiting, NothingToFire, FireGoalReady, NoGoalReady,
     EndGoalReady, FireContinue, EndContinue, FireGoalResult, NoGoalResult, EndGoalResult, lifeVars
<1>3. Handle => UNCHANGED stopMarker
  BY DEF Handle, IgnoreGoal, JumpGoal, JumpGivesUp, JumpBacktracks, JumpSelects,
     lifeVars
<1>4. Postfilter => UNCHANGED stopMarker \/ \E c : Finalize(c)
  BY DEF Postfilter, FilterPostfilter, SelectorPostfilter, NextPostfilter, EndPostfiltering,
     PopResult, FinalizeChild, FinalizeSelected, EndFinalize, PushWaiting, lifeVars
<1>5. \/ AnalyseReady \/ PopWaiting \/ NothingToRefill \/ HandOver \/ Evaluate
      \/ EndEvaluate \/ AnalyseResult \/ NoResult \/ Loop
      => UNCHANGED stopMarker
  BY DEF AnalyseReady, PopWaiting, NothingToRefill, HandOver, Evaluate, EndEvaluate,
     AnalyseResult, NoResult, Loop, NoWork, lifeVars
<1> QED
  BY <1>1, <1>2, <1>3, <1>4, <1>5 DEF Next, Step, Terminated, vars, lifeVars

\* Everything but contexts and requests stays typed in every step.
LEMMA ControlStep == ControlOK /\ [Next]_vars => ControlOK'
<1> SUFFICES ASSUME ControlOK, [Next]_vars PROVE ControlOK'
  OBVIOUS
<1>1. NumbersOK /\ stopMarker \in BOOLEAN
  BY Zenon DEF NumbersOK, ControlOK
<1>2. NumbersOK'
  BY <1>1, NumbersStep
<1>3. stopMarker' \in BOOLEAN
  <2>1. CASE UNCHANGED stopMarker
    BY <1>1, <2>1, Zenon
  <2>2. CASE ReadStopScript
    BY <2>2, Zenon DEF ReadStopScript
  <2>3. CASE \E c : Finalize(c)
    BY <1>1, <2>3, Zenon DEF Finalize
  <2> QED
    BY <2>1, <2>2, <2>3, MarkerSteps
<1> QED
  BY <1>2, <1>3, Zenon DEF NumbersOK, ControlOK

-----------------------------------------------------------------------------
(* Contexts: no list, container or child list holds one that does not exist. *)

\* The fields of a context that exists.
LEMMA ContextFields ==
  ASSUME NEW d \in Context
  PROVE  d.parent \in Nat /\ d.height \in Nat /\ d.width \in Nat /\ d.kids \in Seq(Nat)
BY DEF Context

\* A new context with a height, a width and a status is a context.
LEMMA ECType ==
  ASSUME NEW p \in Nat, NEW h \in Nat, NEW w \in Nat, NEW s \in Status
  PROVE  EC(p, h, w, s) \in Context /\ EC(p, h, w, s).parent = p /\ EC(p, h, w, s).kids = <<>>
BY DEF EC, Context

\* The initial graph: its contexts, and those the engine starts from.
LEMMA InitialGraphType ==
  /\ InitialGraph \in Seq(Context)
  /\ \A c \in DOMAIN InitialGraph :
       /\ InitialGraph[c].parent \in {0} \cup DOMAIN InitialGraph
       /\ InitialGraph[c].kids \in Seq(DOMAIN InitialGraph)
  /\ Inputs \in Seq(DOMAIN InitialGraph) /\ Inputs # <<>>
<1> DEFINE root == EC(0, 0, 1, "OK")
<1>1. /\ root \in Context /\ root.parent = 0 /\ root.kids = <<>>
      /\ \A c \in Nat : EC(1, 1, c, "OK") \in Context /\ EC(1, 1, c, "OK").parent = 1
                       /\ EC(1, 1, c, "OK").kids = <<>>
  BY ECType DEF Status
<1>2. CASE Leaves = 0
  <2> HIDE DEF root
  <2>1. InitialGraph = << root >> /\ Inputs = <<1>>
    BY <1>2 DEF InitialGraph, Inputs, root
  <2>2. DOMAIN InitialGraph = {1} /\ InitialGraph[1] = root
    BY <2>1
  <2>3. <<root>> \in Seq(Context) /\ <<1>> \in Seq({1}) /\ <<>> \in Seq({1}) /\ <<1>> # <<>>
    BY <1>1
  <2>4. InitialGraph[1].parent = 0 /\ InitialGraph[1].kids = <<>>
    BY <1>1, <2>2
  <2> QED
    BY <2>1, <2>2, <2>3, <2>4
<1>3. CASE Leaves # 0
  <2> DEFINE first == [root EXCEPT !.eval = 1, !.kids = Inputs]
             leaf(c) == EC(1, 1, c - 1, "OK")
             N == 1 .. Leaves + 1
  <2>1. Leaves \in Nat \ {0}
    BY <1>3, LimitsAssumption
  <2>2. Inputs \in Seq(Nat) /\ Inputs \in Seq(N) /\ Inputs # <<>>
    BY <1>3, <2>1 DEF Inputs
  <2>3. first \in Context /\ first.parent = 0 /\ first.kids = Inputs
    BY <1>1, <2>2 DEF Context, EC
  <2>4. \A c \in N \ {1} : leaf(c) \in Context /\ leaf(c).parent = 1 /\ leaf(c).kids = <<>>
    BY <1>1, <2>1
  <2>5. InitialGraph = [c \in N |-> IF c = 1 THEN first ELSE leaf(c)]
    BY <1>3 DEF InitialGraph
  <2> HIDE DEF first, leaf
  <2>6. InitialGraph \in [N -> Context] /\ DOMAIN InitialGraph = N
    BY <2>3, <2>4, <2>5
  <2>7. InitialGraph \in Seq(Context)
    BY <2>1, <2>6
  <2>8. \A c \in N : InitialGraph[c].parent \in {0} \cup N /\ InitialGraph[c].kids \in Seq(N)
    <3>1. 1 \in N /\ InitialGraph[1] = first
      BY <2>1, <2>5
    <3>2. \A c \in N \ {1} : InitialGraph[c] = leaf(c)
      BY <2>5
    <3>3. <<>> \in Seq(N)
      OBVIOUS
    <3> HIDE DEF N
    <3>4. \A c \in N \ {1} : InitialGraph[c].parent = 1 /\ InitialGraph[c].kids = <<>>
      BY <2>4, <3>2
    <3>5. InitialGraph[1].parent = 0 /\ InitialGraph[1].kids = Inputs
      BY <2>3, <3>1
    <3> QED
      BY <2>2, <3>1, <3>3, <3>4, <3>5
  <2> QED
    BY <2>2, <2>6, <2>7, <2>8
<1> QED
  BY <1>2, <1>3

\* The lists hold contexts of the initial graph when the engine starts.
LEMMA ContextsInit == Init => ContextsOK
<1> SUFFICES ASSUME Init PROVE ContextsOK
  OBVIOUS
<1>1. ec = InitialGraph /\ kids = <<>> /\ Known = DOMAIN InitialGraph
  BY DEF Init, Known
<1>2. Inputs \in Seq(Known) /\ Inputs # <<>>
  BY <1>1, InitialGraphType
<1>3. <<>> \in Seq(Known) /\ << Head(Inputs) >> \in Seq(Known) /\ Tail(Inputs) \in Seq(Known)
  BY <1>2, HeadTailProperties
<1>4. Searched \in Seq(Known) /\ Parked \in Seq(Known)
  BY <1>2, <1>3 DEF Searched, Parked
<1>5. q \in [Queues -> Seq(Known)]
  <2>1. (IF JumpUnits = <<>> THEN <<>> ELSE Searched) \in Seq(Known)
    BY <1>3, <1>4
  <2> QED
    BY <1>3, <1>4, <2>1 DEF Init
<1> QED
  BY <1>1, <1>3, <1>5, InitialGraphType DEF ContextsOK

\* A step that changes only lists keeps the contexts typed when the lists stay typed.
LEMMA QueuesOnly ==
  ASSUME ContextsOK, UNCHANGED <<ec, kids>>, q' \in [Queues -> Seq(Known)]
  PROVE  ContextsOK'
BY DEF ContextsOK, Known

\* A filter that keeps, rejects or parks a context keeps the lists typed.
LEMMA TakeType ==
  ASSUME ContextsOK, ControlOK, NEW b \in Queues, cur <= Len(Ready), Take(b) \/ Keep,
         UNCHANGED kids
  PROVE  ContextsOK'
<1>1. cur \in 1 .. Len(q["ready"]) /\ "ready" \in Queues
  BY LenProperties DEF ControlOK, ContextsOK, Ready, Queues
<1>2. CASE Take(b)
  <2>1. q' = Move(q, "ready", cur, b) /\ UNCHANGED ec
    BY <1>2 DEF Take
  <2>2. q' \in [Queues -> Seq(Known)]
    BY <1>1, <2>1, MoveType DEF ContextsOK
  <2> QED
    BY <2>1, <2>2, QueuesOnly
<1>3. CASE Keep
  BY <1>3, QueuesOnly DEF Keep, queueVars, ContextsOK
<1> QED
  BY <1>2, <1>3

\* The prefilters keep contexts and lists typed.
LEMMA PrefilterContexts == TypeOK /\ Prefilter => ContextsOK'
<1> SUFFICES ASSUME TypeOK, Prefilter PROVE ContextsOK'
  OBVIOUS
<1> USE DEF TypeOK
<1>1. CASE \/ MainPrefilter \/ RedundancyPrefilter \/ FilterPrefilter \/ PassPrefilter
           \/ ReadStopScript
  <2>1. cur <= Len(Ready) /\ (Take("failed") \/ Keep) /\ UNCHANGED kids
    BY <1>1 DEF MainPrefilter, RedundancyPrefilter, FilterPrefilter, PassPrefilter,
       ReadStopScript, Walking, Take, Keep, walkVars
  <2> QED
    BY <2>1, TakeType DEF Queues
<1>2. CASE JumpPrefilter
  <2>1. /\ cur <= Len(Ready) /\ UNCHANGED kids
        /\ \/ Take("leaf") \/ Keep
           \/ q' = Drop(q, "ready", cur) /\ UNCHANGED ec
    BY <1>2 DEF JumpPrefilter, Walking, Take, Keep, walkVars
  <2>2. CASE Take("leaf") \/ Keep
    BY <2>1, <2>2, TakeType DEF Queues
  <2>3. CASE q' = Drop(q, "ready", cur) /\ UNCHANGED ec
    <3>1. cur \in 1 .. Len(q["ready"]) /\ "ready" \in Queues
      BY <2>1, LenProperties DEF ControlOK, ContextsOK, Ready, Queues
    <3>2. q' \in [Queues -> Seq(Known)]
      BY <2>3, <3>1, DropType DEF ContextsOK
    <3> QED
      BY <2>1, <2>3, <3>2, QueuesOnly
  <2> QED
    BY <2>1, <2>2, <2>3
<1>3. CASE \/ EndMainPrefilter \/ EndRedundancyPrefilter \/ CoveragePrefilterStop
           \/ NextPrefilter \/ EndPrefiltering
  <2>1. UNCHANGED <<q, ec, kids>>
    BY <1>3 DEF EndMainPrefilter, EndRedundancyPrefilter, CoveragePrefilterStop,
       NextPrefilter, EndPrefiltering, EndPrefilter, queueVars, walkVars
  <2> QED
    BY <2>1, QueuesOnly DEF ContextsOK
<1> QED
  BY <1>1, <1>2, <1>3 DEF Prefilter

\* Firing a request keeps contexts and lists typed.
LEMMA FireContexts == TypeOK /\ Fire => ContextsOK'
<1> SUFFICES ASSUME TypeOK, Fire PROVE ContextsOK'
  OBVIOUS
<1> USE DEF TypeOK
<1>1. CASE FireStop
  <2>1. q' = Clear(q, {"ready", "waiting"}) /\ UNCHANGED <<ec, kids>>
    BY <1>1 DEF FireStop, walkVars
  <2>2. q' \in [Queues -> Seq(Known)]
    BY <2>1, ClearType DEF ContextsOK
  <2> QED
    BY <2>1, <2>2, QueuesOnly
<1>2. CASE ~FireStop
  <2>1. UNCHANGED <<q, ec, kids>>
    BY <1>2 DEF Fire, FireRequeueWaiting, NothingToFire, FireGoalReady, NoGoalReady,
       EndGoalReady, FireContinue, EndContinue, FireGoalResult, NoGoalResult, EndGoalResult,
       queueVars, walkVars
  <2> QED
    BY <2>1, QueuesOnly DEF ContextsOK
<1> QED
  BY <1>1, <1>2

\* What hit meets, saves and limits are contexts that exist, finitely many.
LEMMA MetType ==
  ASSUME TypeOK
  PROVE  /\ IsFiniteSet(Known) /\ Candidates \in SUBSET Known
         /\ \A saved \in Savings : saved \in Seq(Known)
<1>1. ec \in Seq(Context) /\ q \in [Queues -> Seq(Known)]
  BY DEF TypeOK, ContextsOK
<1>2. Known = 1 .. Len(ec) /\ Len(ec) \in Nat
  BY <1>1, LenProperties DEF Known
<1>3. IsFiniteSet(Known)
  BY <1>2, FS_Interval
<1>4. Met \subseteq Known
  BY DEF Met
<1>5. Held(q, "leaf") \subseteq Known
  <2>1. "leaf" \in Queues
    BY DEF Queues
  <2>2. q["leaf"] \in Seq(Known)
    BY <1>1, <2>1
  <2> QED
    BY <2>2, ElementOfSeq, LenProperties DEF Held
<1>6. ASSUME NEW saved \in Savings PROVE saved \in Seq(Known)
  <2> DEFINE childless == { c \in Met : ec[c].kids = <<>> }
  <2>1. childless \in SUBSET Known
    BY <1>4
  <2>2. saved \in Draws(childless, Cardinality(childless))
    BY <1>6 DEF Savings
  <2> HIDE DEF childless
  <2>3. Cardinality(childless) \in Nat
    BY <1>3, <2>1, FS_Subset, FS_CardinalityType
  <2>4. saved \in Seq(childless)
    BY <2>2, <2>3, DrawsType
  <2> QED
    BY <2>1, <2>4, SeqMonotonic
<1> QED
  BY <1>3, <1>4, <1>5, <1>6 DEF Candidates

\* Giving up the local search leaves its leaves and saved contexts, or all lists as they are.
LEMMA JumpGivesUpType ==
  ASSUME TypeOK, JumpGivesUp
  PROVE  q' \in [Queues -> Seq(Known)]
<1>1. q \in [Queues -> Seq(Known)] /\ {"root", "leaf", "backtrack"} \subseteq Queues
  BY DEF TypeOK, ContextsOK, Queues
<1>2. CASE UNCHANGED q
  BY <1>1, <1>2
<1>3. CASE q["buffer"] # <<>>
  <2>1. PICK S \in SUBSET Candidates, saved \in Savings :
          q' = [q EXCEPT !["root"] = <<>>, !["leaf"] = SetToSeq(S),
                         !["backtrack"] = @ \o saved]
    BY <1>3 DEF JumpGivesUp
  <2>2. SetToSeq(S) \in Seq(Known)
    <3>1. S \in SUBSET Known
      BY MetType
    <3>2. IsFiniteSet(S)
      BY <3>1, MetType, FS_Subset
    <3>3. SetToSeq(S) \in Seq(S)
      BY <3>2, SetToSeqType
    <3> QED
      BY <3>1, <3>3, SeqMonotonic
  <2>3. q["backtrack"] \o saved \in Seq(Known)
    <3>1. q["backtrack"] \in Seq(Known) /\ saved \in Seq(Known)
      BY <1>1, MetType
    <3> QED
      BY <3>1, ConcatProperties
  <2>4. <<>> \in Seq(Known)
    OBVIOUS
  <2> DEFINE lf == SetToSeq(S)
             bt == q["backtrack"] \o saved
  <2>5. q' = [q EXCEPT !["root"] = <<>>, !["leaf"] = lf, !["backtrack"] = bt]
    BY <2>1
  <2>6. lf \in Seq(Known) /\ bt \in Seq(Known)
    BY <2>2, <2>3
  <2> HIDE DEF lf, bt
  <2> QED
    BY <1>1, <2>4, <2>5, <2>6
<1> QED
  BY <1>2, <1>3 DEF JumpGivesUp

\* A backtrack moves the last context saved.
LEMMA JumpBacktracksType ==
  ASSUME TypeOK, JumpBacktracks
  PROVE  q' \in [Queues -> Seq(Known)]
<1>1. q \in [Queues -> Seq(Known)] /\ {"waiting", "root", "leaf", "backtrack"} \subseteq Queues
  BY DEF TypeOK, ContextsOK, Queues
<1>2. PICK saved \in Savings :
        /\ q["backtrack"] \o saved # <<>>
        /\ q' = [q EXCEPT !["waiting"] = Append(@, Last(q["backtrack"] \o saved)),
                          !["root"] = <<Last(q["backtrack"] \o saved)>>, !["leaf"] = <<>>,
                          !["backtrack"] = Front(@ \o saved)]
  BY DEF JumpBacktracks
<1> DEFINE s == q["backtrack"] \o saved
           b == Last(s)
           wt == Append(q["waiting"], b)
           bt == Front(s)
<1>3. s \in Seq(Known) /\ s # <<>>
  <2>1. q["backtrack"] \in Seq(Known) /\ saved \in Seq(Known)
    BY <1>1, MetType
  <2> QED
    BY <1>2, <2>1, ConcatProperties
<1>4. b \in Known /\ bt \in Seq(Known)
  <2> HIDE DEF s
  <2>1. Len(s) \in Nat /\ Len(s) \in 1 .. Len(s) /\ DOMAIN s = 1 .. Len(s)
    BY <1>3, EmptySeq, LenProperties
  <2>2. b \in Known
    BY <1>3, <2>1, ElementOfSeq DEF Last
  <2>3. bt = [i \in 1 .. Len(s) - 1 |-> s[i]]
    BY <1>3, <2>1 DEF Front
  <2>4. \A i \in 1 .. Len(s) - 1 : s[i] \in Known
    BY <1>3, <2>1, ElementOfSeq
  <2> HIDE DEF bt
  <2> QED
    BY <2>1, <2>2, <2>3, <2>4
<1>5. wt \in Seq(Known) /\ <<b>> \in Seq(Known) /\ <<>> \in Seq(Known)
  BY <1>1, <1>4
<1>6. q' = [q EXCEPT !["waiting"] = wt, !["root"] = <<b>>, !["leaf"] = <<>>, !["backtrack"] = bt]
  BY <1>2
<1> HIDE DEF wt, bt, b
<1> QED
  BY <1>1, <1>4, <1>5, <1>6

\* A jump makes leaves the roots, and ready.
LEMMA JumpSelectsType ==
  ASSUME TypeOK, JumpSelects
  PROVE  q' \in [Queues -> Seq(Known)]
<1>1. q \in [Queues -> Seq(Known)] /\ {"ready", "root", "leaf", "backtrack"} \subseteq Queues
  BY DEF TypeOK, ContextsOK, Queues
<1>2. PICK roots \in Draws(Candidates, JumpCount), saved \in Savings :
        \E S : \E left \in Less(q["backtrack"] \o saved, S) :
          q' = [q EXCEPT !["ready"] = @ \o roots, !["root"] = roots, !["leaf"] = <<>>,
                         !["backtrack"] = left]
  BY Zenon DEF JumpSelects
<1>3. PICK S : \E left \in Less(q["backtrack"] \o saved, S) :
          q' = [q EXCEPT !["ready"] = @ \o roots, !["root"] = roots, !["leaf"] = <<>>,
                         !["backtrack"] = left]
  BY <1>2
<1>4. PICK left \in Less(q["backtrack"] \o saved, S) :
          q' = [q EXCEPT !["ready"] = @ \o roots, !["root"] = roots, !["leaf"] = <<>>,
                         !["backtrack"] = left]
  BY <1>3
<1>5. roots \in Seq(Known)
  <2>1. roots \in Seq(Candidates)
    BY LimitsAssumption, DrawsType
  <2> QED
    BY <2>1, MetType, SeqMonotonic
<1>6. left \in Seq(Known)
  <2>1. q["backtrack"] \in Seq(Known) /\ saved \in Seq(Known)
    BY <1>1, MetType
  <2>2. q["backtrack"] \o saved \in Seq(Known)
    BY <2>1, ConcatProperties
  <2> QED
    BY <2>2, LessType
<1> DEFINE rd == q["ready"] \o roots
<1>7. rd \in Seq(Known) /\ <<>> \in Seq(Known)
  BY <1>1, <1>5, ConcatProperties
<1>8. q' = [q EXCEPT !["ready"] = rd, !["root"] = roots, !["leaf"] = <<>>, !["backtrack"] = left]
  BY <1>4
<1> HIDE DEF rd
<1> QED
  BY <1>1, <1>5, <1>6, <1>7, <1>8

\* The next initial context waits alone, and is the root.
LEMMA JumpGoalType ==
  ASSUME TypeOK, JumpGoal
  PROVE  q' \in [Queues -> Seq(Known)]
<1>1. q \in [Queues -> Seq(Known)]
  BY DEF TypeOK, ContextsOK
<1>2. CASE UNCHANGED q
  BY <1>1, <1>2
<1>3. CASE q["buffer"] # <<>>
  <2> DEFINE r == Clear(q, {"ready", "waiting"})
             m == Move(r, "buffer", 1, "waiting")
             h == Head(q["buffer"])
  <2>1. q' = [m EXCEPT !["root"] = <<h>>]
    BY <1>3 DEF JumpGoal
  <2>2. "buffer" \in Queues \ {"ready", "waiting"} /\ {"buffer", "waiting", "root"} \subseteq Queues
    BY DEF Queues
  <2>3. r \in [Queues -> Seq(Known)] /\ r["buffer"] = q["buffer"]
    BY <1>1, <2>2 DEF Clear
  <2>4. 1 \in 1 .. Len(q["buffer"]) /\ h \in Known
    <3>1. q["buffer"] \in Seq(Known)
      BY <1>1, <2>2
    <3>2. 1 \in 1 .. Len(q["buffer"])
      BY <1>3, <3>1, EmptySeq, LenProperties
    <3> QED
      BY <1>3, <3>1, <3>2, HeadTailProperties
  <2> HIDE DEF r
  <2>5. m \in [Queues -> Seq(Known)]
    BY <2>2, <2>3, <2>4, MoveType
  <2>6. <<h>> \in Seq(Known)
    BY <2>4
  <2> HIDE DEF m, h
  <2> QED
    BY <2>1, <2>2, <2>5, <2>6
<1> QED
  BY <1>2, <1>3 DEF JumpGoal

\* The handlers of the requests keep contexts and lists typed.
LEMMA HandleContexts == TypeOK /\ Handle => ContextsOK'
<1> SUFFICES ASSUME TypeOK, Handle PROVE ContextsOK'
  OBVIOUS
<1>1. UNCHANGED <<ec, kids>>
  BY DEF Handle, IgnoreGoal, JumpGoal, JumpGivesUp, JumpBacktracks, JumpSelects,
     queueVars, walkVars
<1>2. q \in [Queues -> Seq(Known)]
  BY DEF TypeOK, ContextsOK
<1>3. CASE IgnoreGoal
  BY <1>1, <1>2, <1>3, QueuesOnly DEF IgnoreGoal, queueVars, TypeOK
<1>4. CASE JumpGoal \/ JumpGivesUp \/ JumpBacktracks \/ JumpSelects
  <2>1. q' \in [Queues -> Seq(Known)]
    BY <1>4, JumpGoalType, JumpGivesUpType, JumpBacktracksType, JumpSelectsType
  <2> QED
    BY <1>1, <2>1, QueuesOnly DEF TypeOK
<1> QED
  BY <1>3, <1>4 DEF Handle

\* The steps of the loop that neither filter nor evaluate keep contexts and lists typed.
LEMMA RestContexts ==
  ASSUME TypeOK,
         \/ AnalyseReady \/ PopWaiting \/ NothingToRefill \/ HandOver
         \/ EndEvaluate \/ AnalyseResult \/ NoResult \/ Loop
  PROVE  ContextsOK'
<1>1. UNCHANGED <<ec, kids>>
  BY DEF AnalyseReady, PopWaiting, NothingToRefill, HandOver, EndEvaluate, AnalyseResult,
     NoResult, Loop, queueVars, walkVars
<1>2. q \in [Queues -> Seq(Known)]
  BY DEF TypeOK, ContextsOK
<1>3. /\ Splice(q, "waiting", "ready") \in [Queues -> Seq(Known)]
      /\ Splice(q, "ready", "working") \in [Queues -> Seq(Known)]
      /\ Splice(q, "analysed", "result") \in [Queues -> Seq(Known)]
  BY <1>2, SpliceType DEF Queues
<1>4. q' \in [Queues -> Seq(Known)]
  <2>1. CASE PopWaiting
    <3>1. CASE q' = Splice(q, "waiting", "ready")
      BY <1>3, <3>1
    <3>2. CASE \E i \in DOMAIN q["waiting"] : q' = Move(q, "waiting", i, "ready")
      <4>1. PICK i \in DOMAIN q["waiting"] : q' = Move(q, "waiting", i, "ready")
        BY <3>2
      <4>2. i \in 1 .. Len(q["waiting"])
        BY <1>2, LenProperties DEF Queues
      <4> QED
        BY <1>2, <4>1, <4>2, MoveType DEF Queues
    <3> QED
      BY <2>1, <3>1, <3>2, Zenon DEF PopWaiting
  <2>2. CASE ~PopWaiting
    <3>1. \/ q' = q \/ q' = Splice(q, "ready", "working") \/ q' = Splice(q, "analysed", "result")
      BY <2>2 DEF AnalyseReady, NothingToRefill, HandOver, EndEvaluate, AnalyseResult,
         NoResult, Loop, queueVars
    <3> QED
      BY <1>2, <1>3, <3>1
  <2> QED
    BY <2>1, <2>2
<1> QED
  BY <1>1, <1>4, QueuesOnly DEF TypeOK

\* the context being evaluated, and what its evaluation into l children does to the graph
Evaluated == Head(q["working"])
Grows(l) ==
  /\ ec' \in Seq(Context) /\ Known' = 1 .. Len(ec) + l
  /\ \A d \in Known : d # Evaluated => ec'[d] = ec[d]
  /\ ec'[Evaluated].parent = ec[Evaluated].parent /\ ec'[Evaluated].eval = evalNumber + 1
  /\ ec'[Evaluated].kids = ec[Evaluated].kids \o [j \in 1 .. l |-> Len(ec) + j]
  /\ ec'[Evaluated].height = ec[Evaluated].height /\ ec'[Evaluated].aees = ec[Evaluated].aees
  /\ ec'[Evaluated].width = InitWidth(Evaluated)
  /\ \A d \in Known' \ Known :
       /\ ec'[d].parent = Evaluated /\ ec'[d].eval = 0 /\ ec'[d].kids = <<>>
       /\ ec'[d].height = ec[Evaluated].height + 1

\* The step that creates contexts: they are the children of the context evaluated.
LEMMA EvaluateGraph ==
  ASSUME TypeOK, Evaluate
  PROVE  /\ 1 \in 1 .. Len(q["working"]) /\ Evaluated \in Known /\ Evaluated = q["working"][1]
         /\ q' = Move(q, "working", 1, "analysed") /\ UNCHANGED kids
         /\ \E l \in Nat : Grows(l)
<1> NumbersOK
  BY Zenon DEF TypeOK, ControlOK, NumbersOK
<1> DEFINE c == Evaluated
           n == Len(ec)
           w == InitWidth(c)
<1>1. /\ ec \in Seq(Context) /\ n \in Nat /\ Known = 1 .. n
      /\ q \in [Queues -> Seq(Known)] /\ kids \in Seq(Known)
      /\ \A d \in Known : ec[d] \in Context /\ ec[d].parent \in {0} \cup Known
                          /\ ec[d].kids \in Seq(Known)
  BY LenProperties DEF TypeOK, ContextsOK, Known
<1>2. 1 \in 1 .. Len(q["working"]) /\ c \in Known /\ c = q["working"][1]
  <2>1. q["working"] \in Seq(Known) /\ q["working"] # <<>>
    BY <1>1 DEF Evaluate, Queues
  <2> QED
    BY <2>1, HeadTailProperties, EmptySeq DEF Evaluated
<1>3. w \in Nat
  <2> HIDE DEF c
  <2>1. ec[c].width \in Nat /\ graphWidth + 1 \in Nat
    BY <1>1, <1>2, ContextFields DEF NumbersOK
  <2>2. ec[c].parent # 0 => ec[ec[c].parent].width \in Nat
    BY <1>1, <1>2, ContextFields
  <2>3. NewWidth(c) \in Nat
    BY <2>1, <2>2 DEF NewWidth, IsFirstChild
  <2> QED
    BY <2>1, <2>3 DEF InitWidth
<1>4. PICK out \in Outcomes \cup {<<>>} :
        ec' = [ec EXCEPT ![c].eval = evalNumber + 1,
                         ![c].width = w,
                         ![c].kids = @ \o [j \in 1 .. Len(out) |-> n + j]]
              \o [j \in 1 .. Len(out) |-> [Child(c, out[j]) EXCEPT !.width = w]]
  BY Zenon DEF Evaluate, Evaluated
<1> DEFINE k == ec[c].kids \o [j \in 1 .. Len(out) |-> n + j]
           r == [ec[c] EXCEPT !.eval = evalNumber + 1, !.width = w, !.kids = k]
           old == [ec EXCEPT ![c].eval = evalNumber + 1,
                             ![c].width = w,
                             ![c].kids = @ \o [j \in 1 .. Len(out) |-> n + j]]
           new == [j \in 1 .. Len(out) |-> [Child(c, out[j]) EXCEPT !.width = w]]
           m == n + Len(out)
<1>5. Len(out) \in Nat /\ \A j \in 1 .. Len(out) : out[j] \in Status
  <2>1. out \in Seq(Status)
    <3>1. out = <<>> \/ out \in Outcomes
      BY Zenon
    <3>2. <<>> \in Seq(Status)
      OBVIOUS
    <3> QED
      BY <3>1, <3>2, OutcomesAssumption, Zenon
  <2> QED
    BY <2>1, LenProperties
<1>6. /\ Seq(Known) \subseteq Seq(1 .. m)
      /\ [j \in 1 .. Len(out) |-> n + j] \in Seq(1 .. m)
  BY <1>1, <1>5, SeqMonotonic
<1>7. /\ old \in Seq(Context) /\ Len(old) = n
      /\ \A d \in 1 .. n : old[d] = IF d = c THEN r ELSE ec[d]
      /\ r.parent = ec[c].parent /\ r.eval = evalNumber + 1 /\ r.kids = k
      /\ r.height = ec[c].height /\ r.aees = ec[c].aees /\ r.width = w
  <2>1. k \in Seq(Nat)
    <3>1. ec[c].kids \in Seq(1 .. m)
      BY <1>1, <1>2, <1>6
    <3>2. k \in Seq(1 .. m)
      BY <1>6, <3>1, ConcatProperties
    <3> QED
      BY <3>2, <1>1, <1>5, SeqMonotonic
  <2>2. old = [ec EXCEPT ![c] = r]
    BY <1>1, <1>2
  <2>3. ec[c] \in Context /\ ec[c].parent \in 0 .. n
    BY <1>1, <1>2
  <2> HIDE DEF k, c, w
  <2>4. /\ r \in Context /\ r.parent = ec[c].parent /\ r.eval = evalNumber + 1 /\ r.kids = k
        /\ r.height = ec[c].height /\ r.aees = ec[c].aees /\ r.width = w
    <3>1. evalNumber + 1 \in Nat
      BY DEF NumbersOK
    <3>2. ASSUME NEW d \in Context, NEW e \in Nat
          PROVE  LET s == [d EXCEPT !.eval = e, !.width = w, !.kids = k]
                 IN  /\ s \in Context /\ s.parent = d.parent /\ s.eval = e /\ s.kids = k
                     /\ s.height = d.height /\ s.aees = d.aees /\ s.width = w
      BY <1>3, <2>1 DEF Context
    <3> QED
      BY <2>3, <3>1, <3>2
  <2> HIDE DEF r, old
  <2>5. old \in Seq(Context) /\ Len(old) = n /\ \A d \in 1 .. n : old[d] = IF d = c THEN r ELSE ec[d]
    BY <1>1, <1>2, <2>2, <2>4, ExceptSeq
  <2> QED
    BY <2>4, <2>5
<1>8. /\ new \in Seq(Context) /\ Len(new) = Len(out)
      /\ \A j \in 1 .. Len(out) : /\ new[j].parent = c /\ new[j].eval = 0 /\ new[j].kids = <<>>
                                  /\ new[j].height = ec[c].height + 1
  <2> HIDE DEF c
  <2>1. ec[c].height \in Nat /\ ec[c].width \in Nat /\ c \in Nat
    BY <1>1, <1>2, ContextFields
  <2>2. \A j \in 1 .. Len(out) : /\ Child(c, out[j]) \in Context
                                 /\ Child(c, out[j]).parent = c /\ Child(c, out[j]).eval = 0
                                 /\ Child(c, out[j]).kids = <<>>
                                 /\ Child(c, out[j]).height = ec[c].height + 1
    <3> TAKE j \in 1 .. Len(out)
    <3>1. out[j] \in Status /\ ec[c].height + 1 \in Nat
      BY <1>5, <2>1
    <3> QED
      BY <2>1, <3>1 DEF Child, EC, Context
  <2> HIDE DEF w
  <2>3. \A j \in 1 .. Len(out) : /\ [Child(c, out[j]) EXCEPT !.width = w] \in Context
                                 /\ [Child(c, out[j]) EXCEPT !.width = w].parent = c
                                 /\ [Child(c, out[j]) EXCEPT !.width = w].eval = 0
                                 /\ [Child(c, out[j]) EXCEPT !.width = w].kids = <<>>
                                 /\ [Child(c, out[j]) EXCEPT !.width = w].height = ec[c].height + 1
    BY <1>3, <2>2 DEF Context
  <2>4. new \in [1 .. Len(out) -> Context]
    BY <2>3
  <2>5. new \in Seq(Context) /\ Len(new) = Len(out)
    BY <1>5, <2>4
  <2> QED
    BY <2>3, <2>5
<1>9. /\ ec' \in Seq(Context) /\ Known' = 1 .. m
      /\ \A d \in 1 .. m : ec'[d] = IF d <= n THEN old[d] ELSE new[d - n]
  <2>1. ec' = old \o new
    BY <1>4
  <2> HIDE DEF old, new
  <2>2. old \in Seq(Context) /\ new \in Seq(Context) /\ Len(old) = n /\ Len(new) = Len(out)
    BY <1>7, <1>8
  <2>3. /\ old \o new \in Seq(Context) /\ Len(old \o new) = Len(old) + Len(new)
        /\ \A d \in 1 .. Len(old) + Len(new) :
             (old \o new)[d] = IF d <= Len(old) THEN old[d] ELSE new[d - Len(old)]
    BY <2>2, ConcatProperties
  <2> QED
    BY <2>1, <2>2, <2>3, LenProperties DEF Known
<1>10. Grows(Len(out))
  <2> HIDE DEF old, new, k, r, c
  <2>1. ASSUME NEW d \in 1 .. n
        PROVE  d \in 1 .. m /\ ec'[d] = IF d = c THEN r ELSE ec[d]
    <3>1. d \in 1 .. m /\ d <= n
      BY <1>1, <1>5
    <3>2. ec'[d] = old[d]
      BY <1>9, <3>1
    <3> QED
      BY <1>7, <3>1, <3>2
  <2>2. ASSUME NEW d \in 1 .. m, d \notin 1 .. n
        PROVE  /\ ec'[d].parent = c /\ ec'[d].eval = 0 /\ ec'[d].kids = <<>>
               /\ ec'[d].height = ec[c].height + 1
    <3>1. ~(d <= n) /\ d - n \in 1 .. Len(out)
      BY <1>1, <1>5, <2>2
    <3>2. ec'[d] = new[d - n]
      BY <1>9, <3>1
    <3> QED
      BY <1>8, <3>1, <3>2
  <2>3. ec'[c] = r
    BY <1>1, <1>2, <2>1
  <2> QED
    BY <1>1, <1>7, <1>9, <2>1, <2>2, <2>3 DEF Grows, c, k
<1> QED
  BY <1>2, <1>5, <1>10 DEF Evaluate, walkVars

\* An evaluation keeps contexts and lists typed.
LEMMA EvaluateContexts == TypeOK /\ Evaluate => ContextsOK'
<1> SUFFICES ASSUME TypeOK, Evaluate PROVE ContextsOK'
  OBVIOUS
<1> DEFINE c == Evaluated
           n == Len(ec)
<1>1. /\ n \in Nat /\ Known = 1 .. n
      /\ q \in [Queues -> Seq(Known)] /\ kids \in Seq(Known)
      /\ \A d \in Known : ec[d].parent \in {0} \cup Known /\ ec[d].kids \in Seq(Known)
  BY LenProperties DEF TypeOK, ContextsOK, Known
<1>2. /\ 1 \in 1 .. Len(q["working"]) /\ c \in Known
      /\ q' = Move(q, "working", 1, "analysed") /\ kids' = kids
  BY EvaluateGraph
<1>3. PICK l \in Nat : Grows(l)
  BY EvaluateGraph
<1> DEFINE m == n + l
<1>4. /\ Seq(Known) \subseteq Seq(1 .. m) /\ Known \subseteq 1 .. m
      /\ [j \in 1 .. l |-> n + j] \in Seq(1 .. m)
  BY <1>1, SeqMonotonic
<1>5. ASSUME NEW d \in 1 .. m
      PROVE  ec'[d].parent \in {0} \cup (1 .. m) /\ ec'[d].kids \in Seq(1 .. m)
  <2>1. CASE d \in Known /\ d # c
    BY <1>1, <1>3, <1>4, <2>1 DEF Grows
  <2>2. CASE d = c
    <3>1. ec'[c].parent = ec[c].parent /\ ec'[c].kids = ec[c].kids \o [j \in 1 .. l |-> n + j]
      BY <1>3 DEF Grows
    <3>2. ec[c].kids \in Seq(1 .. m) /\ ec[c].parent \in {0} \cup (1 .. m)
      BY <1>1, <1>2, <1>4
    <3> HIDE DEF m, c, n
    <3>3. ec[c].kids \o [j \in 1 .. l |-> n + j] \in Seq(1 .. m)
      BY <1>4, <3>2, ConcatProperties
    <3> QED
      BY <2>2, <3>1, <3>2, <3>3
  <2>3. CASE d \notin Known
    <3>1. d \in Known' \ Known
      BY <1>3, <2>3 DEF Grows
    <3>2. ec'[d].parent = c /\ ec'[d].kids = <<>>
      BY <1>3, <3>1 DEF Grows
    <3>3. c \in 1 .. m /\ <<>> \in Seq(1 .. m)
      BY <1>2, <1>4
    <3> HIDE DEF m, c
    <3> QED
      BY <3>2, <3>3
  <2> QED
    BY <2>1, <2>2, <2>3
<1>6. q' \in [Queues -> Seq(Known')] /\ kids' \in Seq(Known')
  <2>1. q' \in [Queues -> Seq(Known)] /\ Known' = 1 .. m
    BY <1>1, <1>2, <1>3, MoveType DEF Queues, Grows
  <2> QED
    BY <1>1, <1>2, <1>4, <2>1
<1> QED
  BY <1>3, <1>5, <1>6 DEF ContextsOK, Grows

\* finalizePostfiltering(aChildEC) changes contexts in place and creates none.
LEMMA FinalizeContext ==
  ASSUME ContextsOK, graphWidth \in Nat, NEW c \in Known, Finalize(c)
  PROVE  /\ ec' \in Seq(Context) /\ Known' = Known
         /\ \A d \in Known : ec'[d].parent \in {0} \cup Known /\ ec'[d].kids \in Seq(Known)
<1> DEFINE n == Len(ec)
           p == ec[c].parent
<1>1. /\ ec \in Seq(Context) /\ n \in Nat /\ Known = 1 .. n /\ Known \subseteq Nat
      /\ \A d \in Known : ec[d] \in Context /\ ec[d].parent \in {0} \cup Known
                          /\ ec[d].kids \in Seq(Known)
  BY LenProperties DEF ContextsOK, Known
<1>2. \/ ec' = [ec EXCEPT ![p].kids = Without(@, c)]
      \/ SetsWidth(c) /\ ec' = [ec EXCEPT ![c].width = NewWidth(c)]
      \/ ec' = ec
  BY Zenon DEF Finalize
<1>3. CASE ec' = ec
  BY <1>1, <1>3 DEF Known
<1>4. ASSUME NEW d \in Known, NEW r \in Context, ec' = [ec EXCEPT ![d] = r],
             r.parent \in {0} \cup Known, r.kids \in Seq(Known)
      PROVE  /\ ec' \in Seq(Context) /\ Known' = Known
             /\ \A e \in Known : ec'[e].parent \in {0} \cup Known /\ ec'[e].kids \in Seq(Known)
  <2>1. /\ ec' \in Seq(Context) /\ Len(ec') = n
        /\ \A e \in Known : ec'[e] = IF e = d THEN r ELSE ec[e]
    BY <1>1, <1>4, ExceptSeq
  <2>2. Known' = Known
    BY <1>1, <2>1, LenProperties DEF Known
  <2> QED
    BY <1>1, <1>4, <2>1, <2>2
<1>5. CASE ec' = [ec EXCEPT ![p].kids = Without(@, c)]
  <2>1. CASE p = 0
    <3>1. ec' = ec
      BY <1>1, <1>5, <2>1 DEF Known
    <3> QED
      BY <1>3, <3>1
  <2>2. CASE p \in Known
    <3> DEFINE k == Without(ec[p].kids, c)
               r == [ec[p] EXCEPT !.kids = k]
    <3>1. k \in Seq(Known) /\ k \in Seq(Nat)
      <4>1. k \in Seq(Known)
        BY <1>1, <2>2, WithoutType
      <4> QED
        BY <1>1, <4>1, SeqMonotonic
    <3>2. ec' = [ec EXCEPT ![p] = r]
      BY <1>1, <1>5, <2>2
    <3> HIDE DEF k
    <3>3. ec[p] \in Context /\ ec[p].parent \in {0} \cup Known
      BY <1>1, <2>2
    <3> HIDE DEF p
    <3>4. r \in Context /\ r.parent \in {0} \cup Known /\ r.kids \in Seq(Known)
      BY <3>1, <3>3 DEF Context
    <3> QED
      BY <1>4, <2>2, <3>2, <3>4
  <2> QED
    BY <1>1, <2>1, <2>2
<1>6. CASE SetsWidth(c) /\ ec' = [ec EXCEPT ![c].width = NewWidth(c)]
  <2> DEFINE w == NewWidth(c)
             r == [ec[c] EXCEPT !.width = w]
  <2>1. w \in Nat
    <3>1. p \in Known
      BY <1>1, <1>6 DEF SetsWidth
    <3>2. ec[p].width \in Nat /\ graphWidth + 1 \in Nat
      BY <1>1, <3>1, ContextFields
    <3> QED
      BY <3>2 DEF NewWidth
  <2>2. ec' = [ec EXCEPT ![c] = r]
    BY <1>1, <1>6
  <2> HIDE DEF w
  <2>3. /\ ec[c] \in Context /\ ec[c].parent \in {0} \cup Known /\ ec[c].kids \in Seq(Known)
    BY <1>1
  <2>4. r \in Context /\ r.parent \in {0} \cup Known /\ r.kids \in Seq(Known)
    BY <2>1, <2>3 DEF Context
  <2> QED
    BY <1>4, <2>2, <2>4
<1> QED
  BY <1>2, <1>3, <1>5, <1>6

\* The postfilters keep contexts and lists typed.
LEMMA PostfilterContexts == TypeOK /\ Postfilter => ContextsOK'
<1> SUFFICES ASSUME TypeOK, Postfilter PROVE ContextsOK'
  OBVIOUS
<1>1. ContextsOK /\ graphWidth \in Nat /\ cur \in Nat \ {0}
  BY Zenon DEF TypeOK, ControlOK
<1>2. q \in [Queues -> Seq(Known)] /\ kids \in Seq(Known) /\ \A d \in Known : ec[d].kids \in Seq(Known)
  BY <1>1 DEF ContextsOK
<1>3. \A a \in Queues : q[a] # <<>> => /\ 1 \in 1 .. Len(q[a]) /\ Head(q[a]) \in Known
  BY <1>2, EmptySeq, HeadTailProperties
<1>4. CASE FilterPostfilter
  <2>1. /\ UNCHANGED <<ec, kids>> /\ cur <= Len(q["result"])
        /\ q' = q \/ q' = Move(q, "result", cur, "failed")
    BY <1>4 DEF FilterPostfilter
  <2>2. cur \in 1 .. Len(q["result"])
    BY <1>1, <1>2, <2>1, LenProperties DEF Queues
  <2>3. Move(q, "result", cur, "failed") \in [Queues -> Seq(Known)]
    BY <1>2, <2>2, MoveType DEF Queues
  <2> QED
    BY <1>1, <1>2, <2>1, <2>3, QueuesOnly
<1>5. CASE SelectorPostfilter
  <2>1. UNCHANGED <<ec, kids>> /\ cur <= Len(q["result"])
    BY <1>5 DEF SelectorPostfilter
  <2>2. PICK s \in SomeOf(ec[q["result"][cur]].kids) : q' = [q EXCEPT !["ante"] = @ \o s]
    BY <1>5 DEF SelectorPostfilter
  <2>3. cur \in 1 .. Len(q["result"])
    BY <1>1, <1>2, <2>1, LenProperties DEF Queues
  <2>4. ec[q["result"][cur]].kids \in Seq(Known)
    BY <1>2, <2>3 DEF Queues
  <2>5. s \in Seq(Known)
    BY <2>4, SomeOfType
  <2>6. q["ante"] \o s \in Seq(Known)
    BY <1>2, <2>5, ConcatProperties DEF Queues
  <2>7. q' \in [Queues -> Seq(Known)]
    BY <1>2, <2>2, <2>6
  <2> QED
    BY <1>1, <2>1, <2>7, QueuesOnly
<1>6. CASE PopResult
  <2>1. UNCHANGED ec /\ q["result"] # <<>> /\ q' = Drop(q, "result", 1)
        /\ kids' = ec[Head(q["result"])].kids
    BY <1>6 DEF PopResult
  <2>2. q' \in [Queues -> Seq(Known)]
    BY <1>2, <1>3, <2>1, DropType DEF Queues
  <2>3. kids' \in Seq(Known)
    BY <1>2, <1>3, <2>1 DEF Queues
  <2> QED
    BY <1>1, <2>1, <2>2, <2>3 DEF ContextsOK, Known
<1>7. CASE FinalizeChild
  <2>1. PICK c : /\ c = Head(kids) /\ Finalize(c) /\ kids # <<>> /\ kids' = Tail(kids)
                 /\ q' = Add(q, "main", c) \/ q' = q
    BY <1>7, Zenon DEF FinalizeChild
  <2>2. c \in Known /\ kids' \in Seq(Known)
    BY <1>2, <2>1, HeadTailProperties
  <2>3. q' \in [Queues -> Seq(Known)]
    <3>1. Add(q, "main", c) \in [Queues -> Seq(Known)]
      BY <1>2, <2>2 DEF Add, Queues
    <3> QED
      BY <1>2, <2>1, <3>1
  <2> QED
    BY <1>1, <2>1, <2>2, <2>3, FinalizeContext DEF ContextsOK
<1>8. CASE FinalizeSelected
  <2>1. PICK c : /\ q["ante"] # <<>> /\ c = Head(q["ante"]) /\ Finalize(c) /\ kids' = kids
                 /\ q' = Move(q, "ante", 1, "main") \/ q' = Drop(q, "ante", 1)
    BY <1>8, Zenon DEF FinalizeSelected, walkVars
  <2>2. c \in Known
    BY <1>3, <2>1 DEF Queues
  <2>3. q' \in [Queues -> Seq(Known)]
    <3>1. 1 \in 1 .. Len(q["ante"])
      BY <1>3, <2>1 DEF Queues
    <3>2. Move(q, "ante", 1, "main") \in [Queues -> Seq(Known)]
      BY <1>2, <3>1, MoveType DEF Queues
    <3>3. Drop(q, "ante", 1) \in [Queues -> Seq(Known)]
      BY <1>2, <3>1, DropType DEF Queues
    <3> QED
      BY <2>1, <3>2, <3>3
  <2> QED
    BY <1>1, <1>2, <2>1, <2>2, <2>3, FinalizeContext DEF ContextsOK
<1>9. CASE PushWaiting
  <2>1. q' = Clear(Splice(q, "main", "waiting"), {"result"}) /\ UNCHANGED <<ec, kids>>
    BY <1>9 DEF PushWaiting, walkVars
  <2> DEFINE r == Splice(q, "main", "waiting")
  <2>2. r \in [Queues -> Seq(Known)]
    BY <1>2, SpliceType DEF Queues
  <2> HIDE DEF r
  <2>3. Clear(r, {"result"}) \in [Queues -> Seq(Known)]
    BY <2>2 DEF Clear
  <2> QED
    BY <1>1, <2>1, <2>3, QueuesOnly DEF r
<1>10. CASE NextPostfilter \/ EndPostfiltering \/ EndFinalize
  <2>1. UNCHANGED <<q, ec, kids>>
    BY <1>10 DEF NextPostfilter, EndPostfiltering, EndFinalize, queueVars, walkVars
  <2> QED
    BY <1>1, <1>2, <2>1, QueuesOnly
<1> QED
  BY <1>4, <1>5, <1>6, <1>7, <1>8, <1>9, <1>10 DEF Postfilter

\* Contexts and lists stay typed in every step.
LEMMA ContextsStep == TypeOK /\ [Next]_vars => ContextsOK'
<1> SUFFICES ASSUME TypeOK, [Next]_vars PROVE ContextsOK'
  OBVIOUS
<1>1. CASE UNCHANGED vars
  BY <1>1 DEF TypeOK, vars, queueVars, walkVars, ContextsOK, Known
<1> QED
  BY <1>1, PrefilterContexts, FireContexts, HandleContexts, PostfilterContexts, EvaluateContexts,
     RestContexts DEF Next, Step, Terminated

-----------------------------------------------------------------------------
\* The invariant the theorems on requests rest on.
LEMMA TypeAndFiring == Spec => [](TypeOK /\ FiringWhere)
<1>1. Init => TypeOK /\ FiringWhere
  BY ContextsInit, InitRequests, ControlInit, FiringWhereInit DEF TypeOK
<1>2. TypeOK /\ FiringWhere /\ [Next]_vars => (TypeOK /\ FiringWhere)'
  BY ContextsStep, RequestsStep, ControlStep, FiringWhereStep DEF TypeOK
<1> QED
  BY <1>1, <1>2, PTL DEF Spec

\* The lists, the request mask and its listener lists, and the control state keep their
\* types whatever the units do, and no list ever holds a context that does not exist.
THEOREM TypeCorrect == Spec => []TypeOK
BY TypeAndFiring, PTL

\* The bits of SymbexControllerRequestStatus and the listener lists never disagree, however
\* many units post the same request, and from whatever filter or handler they post it.
THEOREM RequestsConsistent == Spec => []RequestsHaveListeners
<1>1. Init => RequestsHaveListeners
  BY DEF Init, RequestsHaveListeners, Requests
<1>2. TypeOK /\ FiringWhere /\ RequestsHaveListeners /\ [Next]_vars => RequestsHaveListeners'
  BY RequestsHaveListenersStep
<1> QED
  BY <1>1, <1>2, TypeAndFiring, PTL DEF Spec

\* mFireRequestListener is one list for all requests: it is refilled only once every
\* listener of the previous request has been called.
THEOREM ListenersAllCalled == Spec => NoListenerSkipped
<1>1. TypeOK /\ FiringWhere /\ [Next]_vars
      => [firing # <<>> => firing' \in {firing, Tail(firing)}]_vars
  BY RequestSteps DEF RequestStep, requestVars
<1> QED
  BY <1>1, TypeAndFiring, PTL DEF Spec, NoListenerSkipped

-----------------------------------------------------------------------------
(* Stops: what is handed over is evaluated only while nothing asks to stop. *)

Running == "STOP" \notin requested /\ ~stopMarker /\ static = "STARTED"

\* the places where a context that is ready has passed the main prefilter
Filtered ==
  {"redundancyPrefilter", "unitPrefilter", "afterPrefilter", "goalReady", "refill", "handOver"}

StopInv ==
  /\ q["working"] # <<>> => pc = "evaluate" /\ q["ready"] = <<>> /\ Running
  /\ q["analysed"] # <<>> =>
       pc \in {"evaluate", "analyseResult"} /\ q["ready"] = <<>> /\ Running
  /\ pc \in {"unitPostfilter", "finalizeResult", "finalizeAnte", "push"} =>
       q["ready"] = <<>> /\ static = "STARTED"
  /\ static = "STOPPED" =>
       pc \in {"handOver", "evaluate", "analyseResult", "test", "done"} /\ q["ready"] = <<>>
  /\ stopMarker /\ "STOP" \notin requested =>
       /\ pc = "mainPrefilter" => cur = 1
       /\ pc \in Filtered => q["ready"] = <<>>

\* Which steps touch the lists the evaluation goes through.
Frame ==
  /\ q'["working"] = q["working"]
  /\ q'["analysed"] = q["analysed"]
  /\ q["ready"] = <<>> => q'["ready"] = <<>>

\* What the proofs below need of the types of the lists.
LEMMA QueuesDomain ==
  ASSUME TypeOK
  PROVE  /\ q \in [Queues -> Seq(Known)] /\ DOMAIN q = Queues /\ cur \in Nat \ {0}
         /\ {"ready", "working", "analysed"} \subseteq Queues
         /\ cur <= Len(Ready) => q["ready"] # <<>>
<1>1. q \in [Queues -> Seq(Known)] /\ cur \in Nat \ {0}
  BY Zenon DEF TypeOK, ControlOK, ContextsOK
<1> QED
  BY <1>1 DEF Queues, Ready

\* A filter at one context leaves what StopInv is about where it was.
LEMMA TakeFrame ==
  ASSUME TypeOK, NEW b \in {"failed", "leaf"}, cur <= Len(Ready), Take(b) \/ Keep
  PROVE  Frame
BY QueuesDomain DEF Take, Keep, Frame, queueVars, Move, Add, Drop

\* A prefilter leaves the contexts at work alone and puts none into an empty ready.
LEMMA PrefilterFrame == TypeOK /\ Prefilter => Frame
<1> SUFFICES ASSUME TypeOK, Prefilter PROVE Frame
  OBVIOUS
<1>1. CASE \/ MainPrefilter \/ RedundancyPrefilter \/ FilterPrefilter \/ PassPrefilter
           \/ ReadStopScript
  <2>1. cur <= Len(Ready) /\ (Take("failed") \/ Keep)
    BY <1>1 DEF MainPrefilter, RedundancyPrefilter, FilterPrefilter, PassPrefilter,
       ReadStopScript, Walking
  <2> QED
    BY <2>1, TakeFrame
<1>2. CASE JumpPrefilter
  <2>1. cur <= Len(Ready) /\ (Take("leaf") \/ Keep \/ q' = Drop(q, "ready", cur))
    BY <1>2 DEF JumpPrefilter, Walking
  <2>2. CASE q' = Drop(q, "ready", cur)
    BY <2>1, <2>2, QueuesDomain DEF Frame, Drop
  <2> QED
    BY <2>1, <2>2, TakeFrame
<1>3. CASE \/ EndMainPrefilter \/ EndRedundancyPrefilter \/ CoveragePrefilterStop
           \/ NextPrefilter \/ EndPrefiltering
  BY <1>3 DEF EndMainPrefilter, EndRedundancyPrefilter, CoveragePrefilterStop,
     NextPrefilter, EndPrefiltering, EndPrefilter, queueVars, Frame
<1> QED
  BY <1>1, <1>2, <1>3 DEF Prefilter

\* A handler leaves the contexts at work alone; only a jump fills ready.
LEMMA HandleFrame ==
  ASSUME TypeOK, Handle
  PROVE  /\ q'["working"] = q["working"] /\ q'["analysed"] = q["analysed"]
         /\ JumpSelects \/ (q["ready"] = <<>> => q'["ready"] = <<>>)
<1>1. CASE JumpGoal
  BY <1>1, QueuesDomain DEF JumpGoal, Move, Add, Drop, Clear
<1>2. CASE JumpBacktracks
  <2>1. \E wt, rt, bt : q' = [q EXCEPT !["waiting"] = wt, !["root"] = rt, !["leaf"] = <<>>,
                                       !["backtrack"] = bt]
    BY <1>2, Zenon DEF JumpBacktracks
  <2> QED
    BY <2>1, QueuesDomain
<1>3. CASE JumpGivesUp
  <2>1. UNCHANGED q \/ \E lf, bt : q' = [q EXCEPT !["root"] = <<>>, !["leaf"] = lf,
                                                  !["backtrack"] = bt]
    BY <1>3, Zenon DEF JumpGivesUp
  <2> QED
    BY <2>1, QueuesDomain
<1>4. CASE JumpSelects
  <2>1. \E rd, rt, bt : q' = [q EXCEPT !["ready"] = rd, !["root"] = rt, !["leaf"] = <<>>,
                                       !["backtrack"] = bt]
    BY <1>4, Zenon DEF JumpSelects
  <2> QED
    BY <1>4, <2>1, QueuesDomain
<1>5. CASE IgnoreGoal
  BY <1>5 DEF IgnoreGoal, queueVars
<1> QED
  BY <1>1, <1>2, <1>3, <1>4, <1>5 DEF Handle

\* A postfilter leaves the contexts at work alone and puts none into ready.
LEMMA PostfilterFrame == TypeOK /\ Postfilter => Frame
<1> SUFFICES ASSUME TypeOK, Postfilter PROVE Frame
  OBVIOUS
<1>1. CASE FilterPostfilter \/ SelectorPostfilter \/ PopResult
  BY <1>1, QueuesDomain DEF FilterPostfilter, SelectorPostfilter, PopResult, Frame, Move, Add, Drop
<1>2. CASE FinalizeChild \/ FinalizeSelected
  <2>1. \/ q' = q \/ q' = Move(q, "ante", 1, "main") \/ q' = Drop(q, "ante", 1)
        \/ \E c : q' = Add(q, "main", c)
    BY <1>2, Zenon DEF FinalizeChild, FinalizeSelected
  <2> QED
    BY <2>1, QueuesDomain DEF Frame, Move, Add, Drop
<1>3. CASE PushWaiting
  BY <1>3, QueuesDomain DEF PushWaiting, Frame, Clear, Splice
<1>4. CASE NextPostfilter \/ EndPostfiltering \/ EndFinalize
  BY <1>4 DEF NextPostfilter, EndPostfiltering, EndFinalize, queueVars, Frame
<1> QED
  BY <1>1, <1>2, <1>3, <1>4 DEF Postfilter

\* No stop is known of when the engine starts.
LEMMA StopInvInit == Init => StopInv
BY DEF Init, StopInv, Running, Filtered, Queues

\* Prefilters: once the stop marker is set, the main prefilter rejects all of ready.
LEMMA PrefilterStop == TypeOK /\ StopInv /\ Prefilter => StopInv'
<1> SUFFICES ASSUME TypeOK, StopInv, Prefilter PROVE StopInv'
  OBVIOUS
<1>1. /\ Frame /\ cur \in Nat \ {0} /\ UNCHANGED static
      /\ pc \in {"mainPrefilter", "redundancyPrefilter", "unitPrefilter"}
      /\ pc' \in Filtered \cup {"mainPrefilter"}
  <2>1. Frame /\ cur \in Nat \ {0}
    BY PrefilterFrame, QueuesDomain
  <2> QED
    BY <2>1 DEF Prefilter, MainPrefilter, ReadStopScript, EndMainPrefilter, RedundancyPrefilter,
       EndRedundancyPrefilter, FilterPrefilter, JumpPrefilter, PassPrefilter,
       CoveragePrefilterStop, NextPrefilter, EndPrefiltering, Keep, Take, EndPrefilter,
       Walking, Walked, Goto, Filtered, lifeVars
<1>2. q["working"] = <<>> /\ q["analysed"] = <<>> /\ static # "STOPPED"
  BY <1>1 DEF StopInv
<1>3. (stopMarker /\ "STOP" \notin requested)' =>
        /\ pc' = "mainPrefilter" => cur' = 1
        /\ pc' \in Filtered => q'["ready"] = <<>>
  <2>1. CASE ReadStopScript \/ CoveragePrefilterStop
    BY <2>1 DEF ReadStopScript, CoveragePrefilterStop, Post
  <2>2. CASE ~ReadStopScript /\ ~CoveragePrefilterStop
    <3>1. UNCHANGED <<stopMarker, requested>>
      BY <2>2 DEF Prefilter, MainPrefilter, EndMainPrefilter, RedundancyPrefilter,
         EndRedundancyPrefilter, FilterPrefilter, JumpPrefilter, PassPrefilter,
         NextPrefilter, EndPrefiltering, EndPrefilter, lifeVars, requestVars
    <3>2. CASE MainPrefilter
      BY <1>1, <3>1, <3>2 DEF MainPrefilter, Walking, Take, Keep, StopInv, Filtered, walkVars
    <3>3. CASE EndMainPrefilter
      <4>1. stopMarker /\ "STOP" \notin requested => q["ready"] = <<>>
        <5>1. q["ready"] \in Seq(Known)
          BY QueuesDomain
        <5> QED
          BY <3>3, <5>1, EmptySeq DEF EndMainPrefilter, EndPrefilter, Walked, StopInv, Ready
      <4> QED
        BY <1>1, <3>1, <3>3, <4>1 DEF EndMainPrefilter, EndPrefilter, Frame, Filtered
    <3>4. CASE pc # "mainPrefilter"
      <4>1. pc \in Filtered
        BY <1>1, <3>4 DEF Filtered
      <4>2. pc' # "mainPrefilter"
        BY <3>4, <2>2 DEF Prefilter, MainPrefilter, EndMainPrefilter, RedundancyPrefilter,
           EndRedundancyPrefilter, FilterPrefilter, JumpPrefilter, PassPrefilter,
           NextPrefilter, EndPrefiltering, EndPrefilter, Keep, Take, Walking, Walked
      <4> QED
        BY <1>1, <3>1, <4>1, <4>2 DEF StopInv, Frame
    <3> QED
      BY <2>2, <3>2, <3>3, <3>4 DEF Prefilter, RedundancyPrefilter, EndRedundancyPrefilter,
         FilterPrefilter, JumpPrefilter, PassPrefilter, NextPrefilter, EndPrefiltering,
         EndPrefilter, Walking, Walked
  <2> QED
    BY <2>1, <2>2
<1> QED
  BY <1>1, <1>2, <1>3 DEF StopInv, Frame, Filtered

\* Firing a request: STOP empties ready as it stops the lifecycle.
LEMMA FireStopInv == TypeOK /\ StopInv /\ Fire => StopInv'
<1> SUFFICES ASSUME TypeOK, StopInv, Fire PROVE StopInv'
  OBVIOUS
<1> USE DEF StopInv, Filtered, Goto
<1>1. CASE FireStop
  <2>1. /\ q'["ready"] = <<>> /\ q'["working"] = q["working"] /\ q'["analysed"] = q["analysed"]
    BY <1>1, QueuesDomain DEF FireStop, Clear
  <2> QED
    BY <1>1, <2>1 DEF FireStop
<1>2. CASE FireRequeueWaiting \/ NothingToFire
  BY <1>2 DEF FireRequeueWaiting, NothingToFire, queueVars, lifeVars
<1>3. CASE FireGoalReady \/ NoGoalReady \/ EndGoalReady \/ FireContinue \/ EndContinue
  BY <1>3 DEF FireGoalReady, NoGoalReady, EndGoalReady, FireContinue, EndContinue,
     StartFiring, queueVars, lifeVars, requestVars
<1>4. CASE FireGoalResult \/ NoGoalResult \/ EndGoalResult
  BY <1>4 DEF FireGoalResult, NoGoalResult, EndGoalResult, queueVars, lifeVars, requestVars
<1> QED
  BY <1>1, <1>2, <1>3, <1>4 DEF Fire

\* Handlers never drop a request or a stop, whatever they do to the lists.
LEMMA HandleStop == TypeOK /\ StopInv /\ Handle => StopInv'
<1> SUFFICES ASSUME TypeOK, StopInv, Handle PROVE StopInv'
  OBVIOUS
<1>1. /\ UNCHANGED <<pc, static, stopMarker>> /\ requested \subseteq requested'
      /\ pc \in {"goalReady", "goalResult", "continue"}
  BY DEF Handle, IgnoreGoal, JumpGoal, JumpGivesUp, JumpBacktracks, JumpSelects,
     Listener, Post, lifeVars
<1>2. JumpSelects => pc = "continue"
  BY DEF JumpSelects, Listener
<1> QED
  BY <1>1, <1>2, HandleFrame DEF StopInv, Filtered

\* Postfilters may stop, or set the stop marker, when no context is at work or ready.
LEMMA PostfilterStop == TypeOK /\ StopInv /\ Postfilter => StopInv'
<1> SUFFICES ASSUME TypeOK, StopInv, Postfilter PROVE StopInv'
  OBVIOUS
<1>1. /\ Frame /\ UNCHANGED static
      /\ pc \in {"unitPostfilter", "finalizeResult", "finalizeAnte", "push"}
      /\ pc' \in {"unitPostfilter", "finalizeResult", "finalizeAnte", "push", "afterResult", "crashed"}
  <2>1. Frame
    BY PostfilterFrame
  <2> QED
    BY <2>1 DEF Postfilter, FilterPostfilter, SelectorPostfilter, NextPostfilter, EndPostfiltering,
       PopResult, FinalizeChild, FinalizeSelected, EndFinalize, PushWaiting, Postfiltering, Goto,
       lifeVars
<1> QED
  BY <1>1 DEF StopInv, Frame, Filtered

\* The steps of the loop itself: contexts are handed over only while no stop is known of.
LEMMA RestStop ==
  ASSUME TypeOK, StopInv,
         \/ AnalyseReady \/ PopWaiting \/ NothingToRefill \/ HandOver \/ Evaluate
         \/ EndEvaluate \/ AnalyseResult \/ NoResult \/ Loop
  PROVE  StopInv'
<1> USE DEF StopInv, Filtered, Goto
<1>1. CASE AnalyseReady \/ NothingToRefill \/ EndEvaluate \/ NoResult \/ Loop
  BY <1>1 DEF AnalyseReady, NothingToRefill, EndEvaluate, NoResult, Loop, NoWork,
     IsLifecycleRunnable, queueVars, lifeVars, requestVars, Running
<1>2. CASE PopWaiting
  <2>1. q'["working"] = q["working"] /\ q'["analysed"] = q["analysed"]
    BY <1>2, QueuesDomain DEF PopWaiting, Move, Add, Drop, Splice
  <2> QED
    BY <1>2, <2>1 DEF PopWaiting, lifeVars, requestVars
<1>3. CASE HandOver
  <2>1. /\ pc = "handOver" /\ pc' = "evaluate" /\ UNCHANGED <<requested, static, stopMarker>>
    BY <1>3 DEF HandOver, NoWork, lifeVars, requestVars
  <2>2. q'["analysed"] = q["analysed"]
    BY <1>3, QueuesDomain DEF HandOver, Splice
  <2>3. CASE HasReadyWork
    <3>1. Running
      BY <2>1, <2>3, TypeOK DEF HasReadyWork, Running, Ready, TypeOK, ControlOK
    <3>2. q'["ready"] = <<>>
      BY <1>3, <2>3, QueuesDomain DEF HandOver, Splice
    <3> QED
      BY <2>1, <2>2, <3>1, <3>2 DEF Running
  <2>4. CASE ~HasReadyWork
    BY <1>3, <2>1, <2>4 DEF HandOver
  <2> QED
    BY <2>3, <2>4
<1>4. CASE Evaluate
  <2>1. q'["ready"] = q["ready"]
    BY <1>4, QueuesDomain DEF Evaluate, Move, Add, Drop
  <2>2. /\ pc = "evaluate" /\ UNCHANGED <<pc, requested, static, stopMarker>>
        /\ q["working"] # <<>>
    BY <1>4 DEF Evaluate, lifeVars, requestVars
  <2> QED
    BY <2>1, <2>2 DEF Running
<1>5. CASE AnalyseResult
  <2>1. /\ q'["ready"] = q["ready"] /\ q'["working"] = q["working"] /\ q'["analysed"] = <<>>
    BY <1>5, QueuesDomain DEF AnalyseResult, Splice
  <2> QED
    BY <1>5, <2>1 DEF AnalyseResult, requestVars, Running
<1> QED
  BY <1>1, <1>2, <1>3, <1>4, <1>5

\* StopInv is inductive.
LEMMA StopInvStep == TypeOK /\ StopInv /\ [Next]_vars => StopInv'
<1>1. UNCHANGED vars /\ StopInv => StopInv'
  BY DEF vars, queueVars, requestVars, lifeVars, walkVars, StopInv, Running
<1> QED
  BY <1>1, PrefilterStop, FireStopInv, HandleStop, PostfilterStop, RestStop
     DEF Next, Step, Terminated

\* Evaluate alone counts an evaluation, and StopInv excludes it once a stop is known of.
LEMMA EvaluatesOnlyRunning ==
  TypeOK /\ StopInv /\ [Next]_vars =>
    [("STOP" \in requested \/ static = "STOPPED" \/ stopMarker) => evalNumber' = evalNumber]_vars
<1> SUFFICES ASSUME TypeOK, StopInv, [Next]_vars, "STOP" \in requested \/ static = "STOPPED" \/ stopMarker
             PROVE  evalNumber' = evalNumber
  OBVIOUS
<1>1. ~Evaluate
  BY DEF Evaluate, StopInv, Running
<1>2. Prefilter \/ Fire => UNCHANGED evalNumber
  BY DEF Prefilter, MainPrefilter, ReadStopScript, EndMainPrefilter, RedundancyPrefilter,
     EndRedundancyPrefilter, FilterPrefilter, JumpPrefilter, PassPrefilter, CoveragePrefilterStop,
     NextPrefilter, EndPrefiltering, EndPrefilter, countVars,
     Fire, FireStop, FireRequeueWaiting, NothingToFire, FireGoalReady, NoGoalReady,
     EndGoalReady, FireContinue, EndContinue, FireGoalResult, NoGoalResult, EndGoalResult
<1>3. Handle \/ Postfilter => UNCHANGED evalNumber
  BY DEF Handle, IgnoreGoal, JumpGoal, JumpGivesUp, JumpBacktracks, JumpSelects, Postfilter, FilterPostfilter, SelectorPostfilter, NextPostfilter, EndPostfiltering,
     PopResult, FinalizeChild, FinalizeSelected, EndFinalize, PushWaiting, countVars
<1> QED
  BY <1>1, <1>2, <1>3 DEF Next, Step, Terminated, AnalyseReady, PopWaiting, NothingToRefill,
     HandOver, EndEvaluate, AnalyseResult, NoResult, Loop, vars, countVars

\* Once a stop is requested or fired, or the stop marker is set by EXIT ALL or by the user's
\* file, no context is evaluated: a prefilter that posts the stop while other contexts are
\* ready never lets the controller hand them over.
THEOREM NothingEvaluatedAfterStop == Spec => StopIsFinal
<1>1. Init => StopInv
  BY StopInvInit
<1>2. TypeOK /\ StopInv /\ [Next]_vars => StopInv'
  BY StopInvStep
<1>3. TypeOK /\ StopInv /\ [Next]_vars =>
        [("STOP" \in requested \/ static = "STOPPED" \/ stopMarker) => evalNumber' = evalNumber]_vars
  BY EvaluatesOnlyRunning
<1> QED
  BY <1>1, <1>2, <1>3, TypeAndFiring, PTL DEF Spec, StopIsFinal

-----------------------------------------------------------------------------
(* The evaluation limit, where contexts are popped one at a time. *)

OneAtATime == ~PopsAll /\ JumpUnits = <<>>
Prefilters == {"mainPrefilter", "redundancyPrefilter", "unitPrefilter"}

\* One context at most is ready or at work, unless a stop is requested, and what has passed
\* the main prefilter since the last evaluation leaves room for one more.
CountInv ==
  OneAtATime =>
    /\ evalNumber <= EvalLimit
    /\ Len(q["working"]) <= 1
    /\ q["working"] # <<>> => evalNumber < EvalLimit
    /\ "STOP" \notin requested =>
         /\ Len(q["ready"]) <= 1
         /\ q["ready"] # <<>> =>
              /\ pc \in Prefilters \cup {"requests", "handOver"}
              /\ (pc = "mainPrefilter" /\ cur = 1) \/ pc = "requests" \/ evalNumber < EvalLimit

LEMMA CountTypes ==
  ASSUME TypeOK
  PROVE  /\ Len(q["ready"]) \in Nat /\ Len(q["working"]) \in Nat /\ Len(q["waiting"]) \in Nat
         /\ q["ready"] \in Seq(Known) /\ q["working"] \in Seq(Known)
         /\ evalNumber \in Nat /\ EvalLimit \in Nat /\ cur \in Nat \ {0}
         /\ (q["ready"] = <<>> <=> Len(q["ready"]) = 0)
         /\ (q["working"] = <<>> <=> Len(q["working"]) = 0)
<1>1. q["ready"] \in Seq(Known) /\ q["working"] \in Seq(Known) /\ q["waiting"] \in Seq(Known)
  BY QueuesDomain DEF Queues
<1>2. evalNumber \in Nat /\ EvalLimit \in Nat /\ cur \in Nat \ {0}
  BY LimitsAssumption, Zenon DEF TypeOK, ControlOK
<1> QED
  BY <1>1, <1>2, EmptySeq

\* A context taken from ready makes it one shorter.
LEMMA ReadyTaken ==
  ASSUME TypeOK, cur <= Len(Ready), NEW b \in Queues \ {"ready"}
  PROVE  /\ Len(Drop(q, "ready", cur)["ready"]) = Len(q["ready"]) - 1
         /\ Len(Move(q, "ready", cur, b)["ready"]) = Len(q["ready"]) - 1
<1>1. /\ q \in [Queues -> Seq(Known)] /\ "ready" \in Queues /\ cur \in 1 .. Len(q["ready"])
  BY QueuesDomain, CountTypes DEF Ready
<1>2. /\ Drop(q, "ready", cur) \in [Queues -> Seq(Known)]
      /\ Len(Drop(q, "ready", cur)["ready"]) = Len(q["ready"]) - 1
  BY <1>1, DropType
<1>3. Move(q, "ready", cur, b)["ready"] = Drop(q, "ready", cur)["ready"]
  BY <1>1, <1>2 DEF Move, Add
<1> QED
  BY <1>2, <1>3

\* Prefilters: ready never grows, and the main prefilter keeps a context only within the limit.
LEMMA PrefilterCount == TypeOK /\ StopInv /\ CountInv /\ Prefilter => CountInv'
<1> SUFFICES ASSUME TypeOK, StopInv, CountInv, Prefilter, OneAtATime PROVE CountInv'
  BY DEF CountInv
<1>1. /\ pc \in Prefilters /\ pc' \in Filtered \cup {"mainPrefilter"} /\ evalNumber' = evalNumber
      /\ requested \subseteq requested'
  BY DEF Prefilter, MainPrefilter, ReadStopScript, EndMainPrefilter, RedundancyPrefilter,
     EndRedundancyPrefilter, FilterPrefilter, JumpPrefilter, PassPrefilter,
     CoveragePrefilterStop, NextPrefilter, EndPrefiltering, Keep, Take, EndPrefilter,
     Walking, Walked, Goto, Filtered, Prefilters, countVars, requestVars, Post
<1>2. q'["working"] = q["working"] /\ q["working"] = <<>>
  BY <1>1, PrefilterFrame DEF Frame, StopInv, Prefilters
<1>3. CASE \/ MainPrefilter \/ RedundancyPrefilter \/ FilterPrefilter \/ PassPrefilter \/ JumpPrefilter
  <2>1. cur <= Len(Ready) /\ pc' = pc
    BY <1>3 DEF MainPrefilter, RedundancyPrefilter, FilterPrefilter, PassPrefilter, JumpPrefilter,
       Walking, Keep, Take
  <2>2. CASE Keep
    <3>1. pc = "mainPrefilter" => evalNumber < EvalLimit \/ q'["ready"] = <<>>
      <4>1. pc = "mainPrefilter" => MainPrefilter
        BY <1>3 DEF RedundancyPrefilter, FilterPrefilter, PassPrefilter, JumpPrefilter, Walking
      <4>2. MainPrefilter => WithinLimits(Ready[cur]) \/ Take("failed")
        BY DEF MainPrefilter
      <4>3. Take("failed") => FALSE
        BY <2>2, CountTypes DEF Take, Keep, walkVars
      <4> QED
        BY <4>1, <4>2, <4>3, CountTypes DEF WithinLimits
    <3> QED
      BY <1>1, <1>2, <2>1, <2>2, <3>1, CountTypes DEF CountInv, Keep, queueVars, Filtered, Prefilters
  <2>3. CASE Len(q'["ready"]) = Len(q["ready"]) - 1 /\ q'["ready"] \in Seq(Known)
    <3>1. "STOP" \notin requested' => q'["ready"] = <<>>
      BY <1>1, <2>3, CountTypes, EmptySeq DEF CountInv
    <3> QED
      BY <1>1, <1>2, <2>1, <3>1 DEF CountInv, Prefilters
  <2>4. Keep \/ (Len(q'["ready"]) = Len(q["ready"]) - 1 /\ q'["ready"] \in Seq(Known))
    <3>1. Keep \/ q' = Move(q, "ready", cur, "failed") \/ q' = Move(q, "ready", cur, "leaf")
          \/ q' = Drop(q, "ready", cur)
      BY <1>3 DEF MainPrefilter, RedundancyPrefilter, FilterPrefilter, PassPrefilter, JumpPrefilter, Take
    <3>2. {"failed", "leaf", "ready"} \subseteq Queues
      BY DEF Queues
    <3>3. q \in [Queues -> Seq(Known)] /\ cur \in 1 .. Len(q["ready"])
      BY <2>1, QueuesDomain, CountTypes DEF Ready
    <3>4. /\ Drop(q, "ready", cur) \in [Queues -> Seq(Known)]
          /\ Move(q, "ready", cur, "failed") \in [Queues -> Seq(Known)]
          /\ Move(q, "ready", cur, "leaf") \in [Queues -> Seq(Known)]
      BY <3>2, <3>3, DropType, MoveType
    <3>5. /\ Drop(q, "ready", cur)["ready"] \in Seq(Known)
          /\ Move(q, "ready", cur, "failed")["ready"] \in Seq(Known)
          /\ Move(q, "ready", cur, "leaf")["ready"] \in Seq(Known)
      BY <3>2, <3>4
    <3>6. {"failed", "leaf"} \subseteq Queues \ {"ready"}
      BY <3>2
    <3>7. /\ Len(Drop(q, "ready", cur)["ready"]) = Len(q["ready"]) - 1
          /\ Len(Move(q, "ready", cur, "failed")["ready"]) = Len(q["ready"]) - 1
          /\ Len(Move(q, "ready", cur, "leaf")["ready"]) = Len(q["ready"]) - 1
      BY <2>1, <3>6, ReadyTaken
    <3> QED
      BY <3>1, <3>5, <3>7
  <2> QED
    BY <2>2, <2>3, <2>4
<1>4. CASE ReadStopScript \/ CoveragePrefilterStop
  <2>1. "STOP" \in requested'
    BY <1>4 DEF ReadStopScript, CoveragePrefilterStop, Post
  <2> QED
    BY <1>1, <1>2, <2>1 DEF CountInv, Filtered
<1>5. CASE EndMainPrefilter \/ EndRedundancyPrefilter \/ NextPrefilter \/ EndPrefiltering
  <2>1. /\ q' = q /\ requested' = requested /\ pc' # "mainPrefilter"
        /\ q["ready"] # <<>> => pc' \in Prefilters \cup {"handOver"}
    BY <1>5 DEF EndMainPrefilter, EndRedundancyPrefilter, NextPrefilter, EndPrefiltering,
       EndPrefilter, queueVars, requestVars, Ready, Prefilters, Walked
  <2>2. pc = "mainPrefilter" /\ q["ready"] # <<>> => cur > 1
    BY <1>5, CountTypes DEF EndMainPrefilter, EndRedundancyPrefilter, NextPrefilter, EndPrefiltering,
       EndPrefilter, Walked, Ready
  <2> QED
    BY <1>1, <1>2, <2>1, <2>2, CountTypes DEF CountInv, Prefilters, Filtered
<1> QED
  BY <1>3, <1>4, <1>5 DEF Prefilter

\* Firing a request: a stop empties ready.
LEMMA FireCount == TypeOK /\ StopInv /\ CountInv /\ Fire => CountInv'
<1> SUFFICES ASSUME TypeOK, StopInv, CountInv, Fire, OneAtATime PROVE CountInv'
  BY DEF CountInv
<1>1. CASE FireStop
  <2>1. q'["ready"] = <<>> /\ q'["working"] = q["working"]
    BY <1>1, QueuesDomain DEF FireStop, Clear, Queues
  <2>2. Len(<<>>) = 0
    OBVIOUS
  <2> QED
    BY <1>1, <2>1, <2>2 DEF FireStop, CountInv, Goto, countVars
<1>2. CASE FireRequeueWaiting \/ NothingToFire
  <2>1. /\ pc' = "mainPrefilter" /\ cur' = 1 /\ q' = q /\ evalNumber' = evalNumber
        /\ "STOP" \notin requested
    BY <1>2 DEF FireRequeueWaiting, NothingToFire, Goto, queueVars, countVars
  <2> QED
    BY <2>1 DEF CountInv, Prefilters
<1>3. CASE \/ FireGoalReady \/ NoGoalReady \/ EndGoalReady \/ FireContinue \/ EndContinue
           \/ FireGoalResult \/ NoGoalResult \/ EndGoalResult
  <2>1. /\ q' = q /\ evalNumber' = evalNumber
        /\ "STOP" \in requested <=> "STOP" \in requested'
        /\ pc \notin Prefilters \cup {"requests", "handOver"}
    BY <1>3 DEF FireGoalReady, NoGoalReady, EndGoalReady, FireContinue, EndContinue,
       FireGoalResult, NoGoalResult, EndGoalResult, StartFiring, queueVars, countVars, requestVars,
       Goto, Prefilters
  <2> QED
    BY <2>1 DEF CountInv
<1> QED
  BY <1>1, <1>2, <1>3 DEF Fire

\* Without a hit-or-jump unit the handlers change no list.
LEMMA HandleCount == TypeOK /\ StopInv /\ CountInv /\ Handle => CountInv'
<1> SUFFICES ASSUME TypeOK, StopInv, CountInv, Handle, OneAtATime PROVE CountInv'
  BY DEF CountInv
<1>1. Jumps = {}
  BY DEF OneAtATime, Jumps, Range
<1>2. IgnoreGoal
  BY <1>1 DEF Handle, JumpGoal, JumpGivesUp, JumpBacktracks, JumpSelects, Listener
<1> QED
  BY <1>2 DEF IgnoreGoal, CountInv, queueVars, countVars, walkVars

\* Postfilters leave the contexts at work and the ready ones alone.
LEMMA PostfilterCount == TypeOK /\ StopInv /\ CountInv /\ Postfilter => CountInv'
<1> SUFFICES ASSUME TypeOK, StopInv, CountInv, Postfilter, OneAtATime PROVE CountInv'
  BY DEF CountInv
<1>1. /\ pc \in {"unitPostfilter", "finalizeResult", "finalizeAnte", "push"}
      /\ evalNumber' = evalNumber
  BY DEF Postfilter, FilterPostfilter, SelectorPostfilter, NextPostfilter, EndPostfiltering,
     PopResult, FinalizeChild, FinalizeSelected, EndFinalize, PushWaiting, Postfiltering, Goto,
     countVars, Finalize
<1>2. q'["working"] = q["working"] /\ q'["ready"] = <<>>
  BY <1>1, PostfilterFrame DEF Frame, StopInv
<1>3. Len(<<>>) = 0
  OBVIOUS
<1> QED
  BY <1>1, <1>2, <1>3 DEF CountInv

\* The steps of the loop itself.
LEMMA RestCount ==
  ASSUME TypeOK, StopInv, CountInv,
         \/ AnalyseReady \/ PopWaiting \/ NothingToRefill \/ HandOver \/ Evaluate
         \/ EndEvaluate \/ AnalyseResult \/ NoResult \/ Loop
  PROVE  CountInv'
<1> SUFFICES ASSUME OneAtATime PROVE CountInv'
  BY DEF CountInv
<1>1. CASE AnalyseReady \/ NothingToRefill \/ EndEvaluate \/ NoResult \/ Loop
  <2>1. /\ q' = q /\ requested' = requested /\ evalNumber' = evalNumber
        /\ pc \notin Prefilters \cup {"requests", "handOver"}
    BY <1>1 DEF AnalyseReady, NothingToRefill, EndEvaluate, NoResult, Loop, Goto,
       queueVars, requestVars, countVars, Prefilters
  <2> QED
    BY <2>1 DEF CountInv
<1>2. CASE PopWaiting
  <2>1. /\ pc = "refill" /\ pc' = "requests" /\ requested' = requested /\ evalNumber' = evalNumber
        /\ \E i \in DOMAIN q["waiting"] : q' = Move(q, "waiting", i, "ready")
    BY <1>2 DEF PopWaiting, Goto, requestVars, countVars, OneAtATime
  <2>2. PICK i \in DOMAIN q["waiting"] : q' = Move(q, "waiting", i, "ready")
    BY <2>1
  <2>3. q'["working"] = q["working"] /\ q'["ready"] = Append(q["ready"], q["waiting"][i])
    BY <2>2, QueuesDomain DEF Move, Add, Drop, Queues
  <2>4. "STOP" \notin requested => q["ready"] = <<>>
    BY <2>1 DEF CountInv, Prefilters
  <2>5. Len(Append(<<>>, q["waiting"][i])) = 1
    OBVIOUS
  <2> QED
    BY <2>1, <2>3, <2>4, <2>5 DEF CountInv
<1>3. CASE HandOver
  <2>1. /\ pc = "handOver" /\ pc' = "evaluate" /\ requested' = requested /\ evalNumber' = evalNumber
    BY <1>3 DEF HandOver, Goto, requestVars
  <2>2. q["working"] = <<>>
    BY <2>1 DEF StopInv
  <2>3. CASE HasReadyWork
    <3>1. q'["ready"] = <<>> /\ q'["working"] = q["working"] \o q["ready"]
      BY <1>3, <2>3, QueuesDomain DEF HandOver, Splice, Queues
    <3>2. q'["working"] = q["ready"] /\ Len(<<>>) = 0
      BY <2>2, <3>1, CountTypes
    <3>3. Len(q["ready"]) <= 1 /\ evalNumber < EvalLimit
      BY <2>1, <2>3 DEF CountInv, HasReadyWork, Ready
    <3> QED
      BY <2>1, <3>1, <3>2, <3>3 DEF CountInv
  <2>4. CASE ~HasReadyWork
    <3>1. q' = q /\ ("STOP" \notin requested => q["ready"] = <<>>)
      BY <1>3, <2>4 DEF HandOver, HasReadyWork, Ready
    <3> QED
      BY <2>1, <3>1 DEF CountInv
  <2> QED
    BY <2>3, <2>4
<1>4. CASE Evaluate
  <2>1. /\ q["working"] # <<>> /\ q' = Move(q, "working", 1, "analysed")
        /\ pc = "evaluate" /\ pc' = pc /\ evalNumber' = evalNumber + 1 /\ requested' = requested
    BY <1>4 DEF Evaluate, requestVars
  <2>2. q["ready"] = <<>> /\ Len(q["working"]) = 1 /\ evalNumber < EvalLimit
    <3>1. q["ready"] = <<>>
      BY <2>1 DEF StopInv
    <3>2. Len(q["working"]) <= 1 /\ evalNumber < EvalLimit
      BY <2>1 DEF CountInv
    <3>3. Len(q["working"]) \in Nat
      BY CountTypes
    <3>4. Len(q["working"]) # 0
      BY <2>1, CountTypes
    <3>5. \A n \in Nat : n <= 1 /\ n # 0 => n = 1
      OBVIOUS
    <3>6. Len(q["working"]) = 1
      BY <3>2, <3>3, <3>4, <3>5
    <3> QED
      BY <3>1, <3>2, <3>6
  <2>3. q'["ready"] = <<>> /\ q'["working"] = Drop(q, "working", 1)["working"]
    BY <2>1, <2>2, QueuesDomain DEF Move, Add, Drop, Queues
  <2>4. q \in [Queues -> Seq(Known)] /\ "working" \in Queues /\ 1 \in 1 .. Len(q["working"])
    BY <2>2, QueuesDomain
  <2>5. Len(q'["working"]) = 0 /\ q'["working"] \in Seq(Known)
    <3>1. /\ Drop(q, "working", 1) \in [Queues -> Seq(Known)]
          /\ Len(Drop(q, "working", 1)["working"]) = Len(q["working"]) - 1
      BY <2>4, DropType
    <3> QED
      BY <2>2, <2>3, <2>4, <3>1
  <2>6. q'["working"] = <<>> /\ Len(<<>>) = 0
    BY <2>5, EmptySeq
  <2> QED
    BY <2>1, <2>2, <2>3, <2>6, CountTypes DEF CountInv
<1>5. CASE AnalyseResult
  <2>1. q'["ready"] = q["ready"] /\ q'["working"] = q["working"]
    BY <1>5, QueuesDomain DEF AnalyseResult, Splice, Queues
  <2>2. /\ pc = "analyseResult" /\ pc' = "unitPostfilter" /\ requested' = requested
        /\ evalNumber' = evalNumber
    BY <1>5 DEF AnalyseResult, Goto, requestVars, countVars
  <2> QED
    BY <2>1, <2>2 DEF CountInv, Prefilters
<1> QED
  BY <1>1, <1>2, <1>3, <1>4, <1>5

\* CountInv is inductive.
LEMMA CountInvStep == TypeOK /\ StopInv /\ CountInv /\ [Next]_vars => CountInv'
<1>1. UNCHANGED vars /\ CountInv => CountInv'
  BY DEF vars, queueVars, requestVars, countVars, walkVars, CountInv
<1> QED
  BY <1>1, PrefilterCount, FireCount, HandleCount, PostfilterCount, RestCount
     DEF Next, Step, Terminated

LEMMA CountInvInit == Init => CountInv
<1> SUFFICES ASSUME Init PROVE CountInv
  OBVIOUS
<1>1. q["ready"] = <<>> /\ q["working"] = <<>> /\ pc = "analyseReady" /\ evalNumber = 0
  BY DEF Init, Queues
<1>2. Len(<<>>) = 0 /\ EvalLimit \in Nat
  BY LimitsAssumption
<1> QED
  BY <1>1, <1>2 DEF CountInv

\* A strategy that gives one context at a time, with no unit that puts contexts back in ready,
\* never evaluates more contexts than the limit, though the limit is tested when a context is
\* filtered and the counter moves when it is evaluated.
THEOREM EvaluationsLimited == Spec => []EvalCountWithinLimit
<1>1. Init => StopInv /\ CountInv
  BY StopInvInit, CountInvInit
<1>2. TypeOK /\ StopInv /\ CountInv /\ [Next]_vars => StopInv' /\ CountInv'
  BY StopInvStep, CountInvStep
<1>3. CountInv => EvalCountWithinLimit
  BY DEF CountInv, EvalCountWithinLimit, OneAtATime
<1> QED
  BY <1>1, <1>2, <1>3, TypeAndFiring, PTL DEF Spec

=============================================================================
