-------------------------- MODULE HitOrJumpProofs --------------------------
(* What hit-or-jump claims and what it evaluates, for every graph and every *)
(* configuration of the unit.                                               *)
EXTENDS HitOrJump, ListLemmas, FiniteSetTheorems

(* The configuration and its graph. *)

Good(c) ==
  /\ c \in Config
  /\ \A d \in DOMAIN c.parent : c.parent[d] < d
  /\ Len(c.path) = Len(c.parent) /\ Len(c.sat) = Len(c.parent)
  /\ \A d \in DOMAIN c.parent :
       c.path[d] = {d} \cup IF c.parent[d] = 0 THEN {} ELSE c.path[c.parent[d]]
  /\ c.initial # <<>> /\ c.initial \in Seq(DOMAIN c.parent)
  /\ \A i, j \in DOMAIN c.initial : c.initial[i] \in c.path[c.initial[j]] => i = j

LEMMA GoodConfig ==
  ASSUME config \in Configs
  PROVE  /\ Good(config)
         /\ config.parent \in Seq(Nat) /\ config.path \in Seq(SUBSET Nat)
         /\ config.sat \in Seq(SUBSET Nat) /\ config.beyond \in SUBSET Nat
         /\ config.points \in Nat \ {0} /\ config.delta \in Nat \ {0} /\ config.trialsLimit \in Nat
         /\ config.hitCount \in Nat \ {0} /\ config.jumpCount \in Nat
         /\ config.initial # <<>> /\ config.initial \in Seq(Contexts)
<1>1. Good(config)
  BY ConfigsAssumption, Zenon DEF Good
<1>2. config \in Config
  BY <1>1 DEF Good
<1> QED
  BY <1>1, <1>2 DEF Config, Good, Contexts

LEMMA GraphFacts ==
  ASSUME config \in Configs
  PROVE  /\ Contexts = 1 .. Len(config.parent) /\ Len(config.parent) \in Nat
         /\ \A d \in Contexts :
              /\ config.parent[d] \in Nat /\ config.parent[d] < d
              /\ config.parent[d] \in Contexts \cup {0}
              /\ config.sat[d] \in SUBSET Nat
              /\ Above(d) = Above(config.parent[d]) \cup {d}
              /\ Above(d) \in SUBSET Nat
         /\ Above(0) = {} /\ 0 \notin Contexts
<1>1. Good(config) /\ config.parent \in Seq(Nat) /\ config.path \in Seq(SUBSET Nat) /\ config.sat \in Seq(SUBSET Nat)
  BY GoodConfig
<1>2. Contexts = 1 .. Len(config.parent) /\ Len(config.parent) \in Nat
  BY <1>1, LenProperties DEF Contexts
<1>3. ASSUME NEW d \in Contexts
      PROVE  /\ config.parent[d] \in Nat /\ config.parent[d] < d
             /\ config.parent[d] \in Contexts \cup {0}
             /\ config.sat[d] \in SUBSET Nat
             /\ Above(d) = Above(config.parent[d]) \cup {d}
             /\ Above(d) \in SUBSET Nat
  <2>1. d \in Nat /\ d # 0 /\ d \in 1 .. Len(config.path) /\ d \in 1 .. Len(config.sat)
    BY <1>1, <1>2 DEF Good
  <2>2. config.parent[d] \in Nat /\ config.parent[d] < d /\ config.parent[d] \in Contexts \cup {0}
    BY <1>1, <1>2 DEF Good, Contexts
  <2>3. config.path[d] \in SUBSET Nat /\ config.sat[d] \in SUBSET Nat
    BY <1>1, <2>1
  <2>4. config.path[d] = {d} \cup IF config.parent[d] = 0 THEN {} ELSE config.path[config.parent[d]]
    BY <1>1 DEF Good, Contexts
  <2> QED
    BY <2>1, <2>2, <2>3, <2>4 DEF Above
<1> QED
  BY <1>2, <1>3 DEF Above

\* The contexts on a path were created in its order, and each has the path down to it.
LEMMA PathFacts ==
  ASSUME config \in Configs
  PROVE  \A d \in Contexts : \A e \in Above(d) :
           e \in Contexts /\ e <= d /\ Above(e) \subseteq Above(d) /\ e \in Above(e)
<1> DEFINE Fine(d) == \A e \in Above(d) :
             e \in Contexts /\ e <= d /\ Above(e) \subseteq Above(d) /\ e \in Above(e)
           T == { d \in Contexts : ~ Fine(d) }
<1>1. T \subseteq Nat
  BY GraphFacts
<1>2. ASSUME T # {} PROVE FALSE
  <2>1. PICK d \in T : \A y \in T : d <= y
    BY <1>1, <1>2, LeastNatural
  <2> DEFINE u == config.parent[d]
  <2>2. /\ d \in Contexts /\ d \in Nat /\ u \in Nat /\ u < d /\ u \in Contexts \cup {0}
        /\ Above(d) = Above(u) \cup {d}
    BY GraphFacts
  <2> HIDE DEF u
  <2>3. u = 0 \/ Fine(u)
    <3>1. u \notin T
      BY <2>1, <2>2
    <3> QED
      BY <2>2, <3>1
  <2>4. ASSUME NEW e \in Above(u) PROVE e \in Contexts /\ e <= d /\ Above(e) \subseteq Above(d) /\ e \in Above(e)
    <3>1. u # 0
      BY <2>4, GraphFacts
    <3>2. e \in Contexts /\ e <= u /\ Above(e) \subseteq Above(u) /\ e \in Above(e) /\ e \in Nat
      BY <2>3, <2>4, <3>1, GraphFacts
    <3> QED
      BY <2>2, <3>2
  <2>5. Fine(d)
    BY <2>2, <2>4
  <2> QED
    BY <2>1, <2>5
<1> QED
  BY <1>2

LEMMA HeightFacts ==
  ASSUME config \in Configs
  PROVE  /\ \A c \in Contexts \cup {0} : IsFiniteSet(Above(c)) /\ Height(c) \in Int
         /\ \A c \in Contexts : Height(c) = Height(config.parent[c]) + 1 /\ Height(c) \in Nat
<1>1. ASSUME NEW c \in Contexts PROVE IsFiniteSet(Above(c))
  <2>1. Above(c) \subseteq 1 .. c
    BY PathFacts, GraphFacts
  <2>2. IsFiniteSet(1 .. c)
    BY GraphFacts, FS_Interval
  <2> QED
    BY <2>1, <2>2, FS_Subset
<1>2. IsFiniteSet(Above(0)) /\ Cardinality(Above(0)) = 0
  BY FS_EmptySet, GraphFacts
<1>3. \A c \in Contexts \cup {0} : IsFiniteSet(Above(c)) /\ Cardinality(Above(c)) \in Nat
  BY <1>1, <1>2, FS_CardinalityType
<1>4. ASSUME NEW c \in Contexts PROVE Cardinality(Above(c)) = Cardinality(Above(config.parent[c])) + 1
  <2> DEFINE u == config.parent[c]
  <2>1. u \in Contexts \cup {0} /\ Above(c) = Above(u) \cup {c} /\ u < c /\ c \in Nat /\ u \in Nat
    BY GraphFacts
  <2>2. c \notin Above(u)
    BY <2>1, PathFacts, GraphFacts
  <2> QED
    BY <1>3, <2>1, <2>2, FS_AddElement
<1>5. ASSUME NEW c \in Contexts PROVE config.parent[c] \in Contexts \cup {0}
  BY GraphFacts
<1> QED
  BY <1>3, <1>4, <1>5 DEF Height

-----------------------------------------------------------------------------
(* The elements of a list that are in a set. *)

\* What is counted along a list numbers the places that count.
LEMMA Numbered ==
  ASSUME NEW n \in Nat, NEW s, NEW S, NEW a \in [Nat -> Nat], a[0] = 0,
         \A k \in 1 .. n : a[k] = IF s[k] \in S THEN a[k - 1] + 1 ELSE a[k - 1],
         \A k, m \in Nat : k <= m => a[k] <= a[m]
  PROVE  /\ \A i \in 1 .. a[n] : \E k \in 1 .. n : s[k] \in S /\ a[k] = i
         /\ \A k, m \in 1 .. n : s[k] \in S /\ s[m] \in S /\ a[k] = a[m] => k = m
         /\ \A k \in 1 .. n : s[k] \in S => a[k] \in 1 .. a[n]
<1>1. ASSUME NEW i \in 1 .. a[n] PROVE \E k \in 1 .. n : s[k] \in S /\ a[k] = i
  <2> DEFINE U == { k \in 0 .. n : a[k] >= i }
  <2>1. n \in U /\ U \subseteq Nat
    OBVIOUS
  <2>2. PICK k \in U : \A m \in U : k <= m
    BY <2>1, LeastNatural
  <2>3. k # 0
    BY <2>2
  <2>4. k - 1 \notin U /\ k - 1 \in 0 .. n /\ k \in 1 .. n
    BY <2>2, <2>3
  <2>5. a[k - 1] < i /\ a[k] >= i /\ a[k] \in Nat /\ a[k - 1] \in Nat
    BY <2>2, <2>4
  <2>6. s[k] \in S /\ a[k] = a[k - 1] + 1
    BY <2>4, <2>5
  <2> QED
    BY <2>4, <2>5, <2>6
<1>2. ASSUME NEW k \in 1 .. n, NEW m \in 1 .. n, s[k] \in S, s[m] \in S, k < m PROVE a[k] < a[m]
  <2>1. k <= m - 1 /\ m - 1 \in Nat /\ a[m] = a[m - 1] + 1 /\ a[k] \in Nat /\ a[m - 1] \in Nat
    BY <1>2
  <2> QED
    BY <2>1
<1>3. ASSUME NEW k \in 1 .. n, NEW m \in 1 .. n, s[k] \in S, s[m] \in S, a[k] = a[m] PROVE k = m
  <2>1. ~ (k < m) /\ ~ (m < k)
    BY <1>2, <1>3
  <2> QED
    BY <2>1
<1>4. ASSUME NEW k \in 1 .. n, s[k] \in S PROVE a[k] \in 1 .. a[n]
  <2>1. k - 1 \in Nat /\ a[k] = a[k - 1] + 1 /\ a[k - 1] \in Nat /\ a[k] \in Nat /\ a[n] \in Nat /\ a[k] <= a[n]
    BY <1>4
  <2> QED
    BY <2>1
<1> QED
  BY <1>1, <1>3, <1>4

\* t has the elements of s that are in S, each at one place.
PartOf(t, s, S) ==
  \E f \in [1 .. Len(t) -> 1 .. Len(s)] :
    /\ \A i \in 1 .. Len(t) : t[i] = s[f[i]] /\ s[f[i]] \in S
    /\ \A i, j \in 1 .. Len(t) : f[i] = f[j] => i = j
    /\ \A k \in 1 .. Len(s) : s[k] \in S => \E i \in 1 .. Len(t) : f[i] = k

LEMMA ThoseAre ==
  ASSUME NEW T, NEW s \in Seq(T), NEW S
  PROVE  /\ Those(s, S) \in Seq(T \cap S)
         /\ PartOf(Those(s, S), s, S)
<1> DEFINE n == Len(s)
           P(k) == { j \in 1 .. k : s[j] \in S }
           C(k) == Cardinality(P(k))
           g(i) == CHOOSE k \in DOMAIN s : s[k] \in S /\ C(k) = i
<1>1. n \in Nat /\ DOMAIN s = 1 .. n /\ \A k \in 1 .. n : s[k] \in T
  BY LenProperties
<1>2. ASSUME NEW k \in Nat PROVE IsFiniteSet(P(k)) /\ C(k) \in Nat
  <2>1. IsFiniteSet(1 .. k) /\ P(k) \subseteq 1 .. k
    BY FS_Interval
  <2> HIDE DEF P
  <2>2. IsFiniteSet(P(k))
    BY <2>1, FS_Subset
  <2> QED
    BY <2>2, FS_CardinalityType
<1>3. C(0) = 0
  <2>1. P(0) = {}
    OBVIOUS
  <2> HIDE DEF P
  <2> QED
    BY <2>1, FS_EmptySet
<1>4. ASSUME NEW k \in 1 .. n PROVE C(k) = IF s[k] \in S THEN C(k - 1) + 1 ELSE C(k - 1)
  <2>1. k - 1 \in Nat /\ k \notin P(k - 1)
    BY <1>1
  <2>2. P(k) = IF s[k] \in S THEN P(k - 1) \cup {k} ELSE P(k - 1)
    BY <1>1
  <2>3. IsFiniteSet(P(k - 1))
    BY <1>2, <2>1
  <2> HIDE DEF P
  <2> QED
    BY <2>1, <2>2, <2>3, FS_AddElement
<1>5. ASSUME NEW k \in Nat, NEW m \in Nat, k <= m PROVE C(k) <= C(m)
  <2>1. P(k) \subseteq P(m)
    BY <1>5
  <2>2. IsFiniteSet(P(m)) /\ IsFiniteSet(P(k))
    BY <1>2
  <2> HIDE DEF P
  <2> QED
    BY <2>1, <2>2, FS_Subset
<1>6. Those(s, S) = [ i \in 1 .. C(n) |-> s[g(i)] ]
  BY DEF Those
<1> HIDE DEF n, P, C
<1> DEFINE a == [ k \in Nat |-> C(k) ]
<1>7. /\ a \in [Nat -> Nat] /\ a[0] = 0
      /\ \A k \in 1 .. n : a[k] = IF s[k] \in S THEN a[k - 1] + 1 ELSE a[k - 1]
      /\ \A k, m \in Nat : k <= m => a[k] <= a[m]
  <2>1. \A k \in Nat : a[k] = C(k)
    OBVIOUS
  <2>2. \A k \in 1 .. n : k \in Nat /\ k - 1 \in Nat
    BY <1>1
  <2>3. a \in [Nat -> Nat]
    BY <1>2
  <2> HIDE DEF a
  <2> QED
    BY <1>3, <1>4, <1>5, <2>1, <2>2, <2>3
<1>8. \A k \in 1 .. n : a[k] = C(k)
  BY <1>1
<1>9. a[n] = C(n)
  BY <1>1
<1> HIDE DEF a
<1>10. /\ \A i \in 1 .. a[n] : \E k \in 1 .. n : s[k] \in S /\ a[k] = i
       /\ \A k, m \in 1 .. n : s[k] \in S /\ s[m] \in S /\ a[k] = a[m] => k = m
       /\ \A k \in 1 .. n : s[k] \in S => a[k] \in 1 .. a[n]
  BY <1>1, <1>7, Numbered
<1>11. ASSUME NEW i \in 1 .. C(n) PROVE g(i) \in 1 .. n /\ s[g(i)] \in S /\ a[g(i)] = i
  <2>1. \E k \in DOMAIN s : s[k] \in S /\ C(k) = i
    BY <1>1, <1>8, <1>9, <1>10
  <2>2. g(i) \in DOMAIN s /\ s[g(i)] \in S /\ C(g(i)) = i
    BY <2>1
  <2> HIDE DEF g
  <2> QED
    BY <1>1, <1>8, <2>2
<1> HIDE DEF g
<1> DEFINE f == [ i \in 1 .. C(n) |-> g(i) ]
           t == Those(s, S)
<1>12. f \in [1 .. C(n) -> 1 .. n]
  BY <1>11
<1>13. \A i \in 1 .. C(n) : s[g(i)] \in T \cap S
  BY <1>1, <1>11
<1>14. C(n) \in Nat
  BY <1>1, <1>2
<1>15. t \in Seq(T \cap S) /\ Len(t) = C(n) /\ \A i \in 1 .. C(n) : t[i] = s[g(i)]
  BY <1>6, <1>13, <1>14
<1>16. \A i \in 1 .. C(n) : f[i] = g(i)
  OBVIOUS
<1> HIDE DEF f, t
<1>17. \A i \in 1 .. C(n) : t[i] = s[f[i]] /\ s[f[i]] \in S
  BY <1>11, <1>15, <1>16
<1>18. \A i, j \in 1 .. C(n) : f[i] = f[j] => i = j
  BY <1>11, <1>16
<1>19. ASSUME NEW k \in 1 .. n, s[k] \in S PROVE \E i \in 1 .. C(n) : f[i] = k
  <2>1. a[k] \in 1 .. C(n)
    BY <1>9, <1>10, <1>19
  <2>2. g(a[k]) \in 1 .. n /\ s[g(a[k])] \in S /\ a[g(a[k])] = a[k]
    BY <1>11, <2>1
  <2>3. g(a[k]) = k
    BY <1>10, <1>19, <2>2
  <2> QED
    BY <1>16, <2>1, <2>3
<1>20. Len(s) = n
  BY DEF n
<1>21. t \in Seq(T \cap S)
  BY <1>15
<1>22. Len(t) = C(n)
  BY <1>15
<1>23. PartOf(t, s, S)
  <2>1. /\ \A i \in 1 .. Len(t) : t[i] = s[f[i]] /\ s[f[i]] \in S
        /\ \A i, j \in 1 .. Len(t) : f[i] = f[j] => i = j
        /\ \A k \in 1 .. Len(s) : s[k] \in S => \E i \in 1 .. Len(t) : f[i] = k
    BY <1>17, <1>18, <1>19, <1>20, <1>22
  <2>2. f \in [1 .. Len(t) -> 1 .. Len(s)]
    BY <1>12, <1>20, <1>22
  <2> QED
    BY <2>1, <2>2 DEF PartOf
<1> QED
  BY <1>21, <1>23, Zenon DEF t

\* A list of elements of a set has its elements in it.
LEMMA RangeOf ==
  ASSUME NEW T, NEW s \in Seq(T)
  PROVE  /\ Range(s) \subseteq T /\ Len(s) \in Nat /\ DOMAIN s = 1 .. Len(s)
         /\ \A x : x \in Range(s) <=> \E i \in 1 .. Len(s) : s[i] = x
         /\ \A x \in T : Range(Append(s, x)) = Range(s) \cup {x}
         /\ \A t \in Seq(T) : Range(s \o t) = Range(s) \cup Range(t)
<1>1. Len(s) \in Nat /\ DOMAIN s = 1 .. Len(s)
  BY LenProperties
<1>2. ASSUME NEW x \in T PROVE Range(Append(s, x)) = Range(s) \cup {x}
  <2>1. /\ DOMAIN Append(s, x) = 1 .. Len(s) + 1
        /\ \A i \in 1 .. Len(s) : Append(s, x)[i] = s[i]
        /\ Append(s, x)[Len(s) + 1] = x
    BY <1>1
  <2>2. \A i \in 1 .. Len(s) + 1 : i \in 1 .. Len(s) \/ i = Len(s) + 1
    BY <1>1
  <2>3. \A i \in 1 .. Len(s) : i \in 1 .. Len(s) + 1
    BY <1>1
  <2>4. Len(s) + 1 \in 1 .. Len(s) + 1
    BY <1>1
  <2> QED
    BY <1>1, <2>1, <2>2, <2>3, <2>4 DEF Range
<1>3. ASSUME NEW t \in Seq(T) PROVE Range(s \o t) = Range(s) \cup Range(t)
  <2>1. Len(t) \in Nat /\ DOMAIN t = 1 .. Len(t)
    BY LenProperties
  <2>2. /\ DOMAIN (s \o t) = 1 .. Len(s) + Len(t)
        /\ \A i \in 1 .. Len(s) : (s \o t)[i] = s[i] /\ i \in 1 .. Len(s) + Len(t)
        /\ \A i \in 1 .. Len(t) : (s \o t)[Len(s) + i] = t[i] /\ Len(s) + i \in 1 .. Len(s) + Len(t)
    BY <1>1, <2>1
  <2>3. \A i \in 1 .. Len(s) + Len(t) : i \in 1 .. Len(s) \/ \E j \in 1 .. Len(t) : i = Len(s) + j
    <3> SUFFICES ASSUME NEW i \in 1 .. Len(s) + Len(t), i \notin 1 .. Len(s)
                 PROVE  \E j \in 1 .. Len(t) : i = Len(s) + j
      OBVIOUS
    <3>1. i - Len(s) \in 1 .. Len(t) /\ i = Len(s) + (i - Len(s))
      BY <1>1, <2>1
    <3> QED
      BY <3>1
  <2>4. ASSUME NEW x \in Range(s \o t) PROVE x \in Range(s) \cup Range(t)
    <3>1. PICK i \in 1 .. Len(s) + Len(t) : (s \o t)[i] = x
      BY <2>2 DEF Range
    <3> QED
      BY <1>1, <2>1, <2>2, <2>3, <3>1 DEF Range
  <2>5. ASSUME NEW x \in Range(s) PROVE x \in Range(s \o t)
    <3>1. PICK i \in 1 .. Len(s) : s[i] = x
      BY <1>1 DEF Range
    <3> QED
      BY <2>2, <3>1 DEF Range
  <2>6. ASSUME NEW x \in Range(t) PROVE x \in Range(s \o t)
    <3>1. PICK i \in 1 .. Len(t) : t[i] = x
      BY <2>1 DEF Range
    <3> QED
      BY <2>2, <3>1 DEF Range
  <2> QED
    BY <2>4, <2>5, <2>6
<1>4. \A x : x \in Range(s) <=> \E i \in 1 .. Len(s) : s[i] = x
  BY <1>1 DEF Range
<1>5. Range(s) \subseteq T
  BY <1>1 DEF Range
<1> QED
  BY <1>1, <1>2, <1>3, <1>4, <1>5

LEMMA UpTo ==
  ASSUME NEW n \in Nat
  PROVE  IsFiniteSet(1 .. n) /\ Cardinality(1 .. n) = n
<1>1. IsFiniteSet(1 .. n) /\ Cardinality(1 .. n) = IF 1 > n THEN 0 ELSE n - 1 + 1
  BY FS_Interval
<1> QED
  BY <1>1

\* A list holds what is in its range, and part of it holds part of that.
LEMMA OwnRange ==
  ASSUME NEW T, NEW s \in Seq(T)
  PROVE  s \in Seq(Range(s)) /\ \A U : Range(s) \subseteq U => s \in Seq(U)
<1>1. Len(s) \in Nat /\ DOMAIN s = 1 .. Len(s) /\ s = [ i \in 1 .. Len(s) |-> s[i] ]
  BY LenProperties
<1>2. ASSUME NEW U, Range(s) \subseteq U PROVE s \in Seq(U)
  <2>1. \A i \in 1 .. Len(s) : s[i] \in U
    BY <1>1, <1>2 DEF Range
  <2> QED
    BY <1>1, <2>1
<1> QED
  BY <1>2

LEMMA ThoseOwn ==
  ASSUME NEW T, NEW s \in Seq(T), NEW S
  PROVE  /\ Those(s, S) \in Seq(T) /\ Those(s, S) \in Seq(S)
         /\ Those(s, S) \in Seq(Range(s))
         /\ Range(Those(s, S)) = Range(s) \cap S
         /\ Len(Those(s, S)) <= Len(s)
         /\ IsInjective(s) => IsInjective(Those(s, S))
<1> DEFINE t == Those(s, S)
<1>1. t \in Seq(T \cap S) /\ PartOf(t, s, S)
  BY ThoseAre
<1> HIDE DEF t
<1>2. PICK f \in [1 .. Len(t) -> 1 .. Len(s)] :
         /\ \A i \in 1 .. Len(t) : t[i] = s[f[i]] /\ s[f[i]] \in S
         /\ \A i, j \in 1 .. Len(t) : f[i] = f[j] => i = j
         /\ \A k \in 1 .. Len(s) : s[k] \in S => \E i \in 1 .. Len(t) : f[i] = k
  BY <1>1 DEF PartOf
<1>3. /\ Len(t) \in Nat /\ DOMAIN t = 1 .. Len(t) /\ Len(s) \in Nat /\ DOMAIN s = 1 .. Len(s)
  BY <1>1, LenProperties
<1>4. Range(t) = Range(s) \cap S
  <2>1. ASSUME NEW x \in Range(t) PROVE x \in Range(s) \cap S
    BY <1>2, <1>3 DEF Range
  <2>2. ASSUME NEW x \in Range(s), x \in S PROVE x \in Range(t)
    <3>1. PICK k \in 1 .. Len(s) : s[k] = x
      BY <1>3 DEF Range
    <3>2. PICK i \in 1 .. Len(t) : f[i] = k
      BY <1>2, <2>2, <3>1
    <3> QED
      BY <1>2, <1>3, <3>1, <3>2 DEF Range
  <2> QED
    BY <2>1, <2>2
<1>5. t \in Seq(T) /\ t \in Seq(S) /\ t \in Seq(Range(s))
  <2>1. t \in Seq(T) /\ t \in Seq(S)
    BY <1>1
  <2>2. Range(t) \subseteq Range(s)
    BY <1>4
  <2> QED
    BY <2>1, <2>2, OwnRange
<1>6. Len(t) <= Len(s)
  <2>1. f \in Injection(1 .. Len(t), 1 .. Len(s))
    BY <1>2 DEF Injection, IsInjective
  <2>2. IsFiniteSet(1 .. Len(s)) /\ Cardinality(1 .. Len(s)) = Len(s)
        /\ IsFiniteSet(1 .. Len(t)) /\ Cardinality(1 .. Len(t)) = Len(t)
    BY <1>3, UpTo
  <2>3. Cardinality(1 .. Len(t)) <= Cardinality(1 .. Len(s))
    BY <2>1, <2>2, FS_Injection
  <2> QED
    BY <2>2, <2>3
<1>7. IsInjective(s) => IsInjective(t)
  BY <1>2, <1>3 DEF IsInjective
<1> QED
  BY <1>4, <1>5, <1>6, <1>7 DEF t

\* What is drawn is drawn once.
LEMMA PicksAre ==
  ASSUME NEW count \in Nat, NEW n \in Nat, NEW pick \in Picks(count, n)
  PROVE  /\ pick \in Seq(1 .. n) /\ IsInjective(pick)
         /\ count > 0 /\ n > 0 => Len(pick) > 0
<1>1. CASE count = 1 \/ n = 1
  <2>1. PICK i \in 1 .. n : pick = <<i>>
    BY <1>1 DEF Picks
  <2> QED
    BY <2>1 DEF IsInjective
<1>2. CASE ~ (count = 1 \/ n = 1) /\ count < n
  <2>1. pick \in [1 .. count -> 1 .. n] /\ IsInjective(pick)
    BY <1>2 DEF Picks
  <2> QED
    BY <2>1
<1>3. CASE ~ (count = 1 \/ n = 1) /\ ~ count < n
  <2>1. pick = [ i \in 1 .. n |-> i ]
    BY <1>3 DEF Picks
  <2> QED
    BY <2>1 DEF IsInjective
<1> QED
  BY <1>1, <1>2, <1>3

LEMMA Picked ==
  ASSUME NEW T, NEW s \in Seq(T), NEW pick \in Seq(1 .. Len(s)), IsInjective(pick)
  PROVE  LET r == [ i \in DOMAIN pick |-> s[pick[i]] ]
         IN /\ r \in Seq(T) /\ r \in Seq(Range(s)) /\ Len(r) = Len(pick)
            /\ Range(r) = { s[i] : i \in Range(pick) }
            /\ IsInjective(s) => IsInjective(r)
<1> DEFINE r == [ i \in DOMAIN pick |-> s[pick[i]] ]
<1>1. /\ Len(pick) \in Nat /\ DOMAIN pick = 1 .. Len(pick) /\ Len(s) \in Nat /\ DOMAIN s = 1 .. Len(s)
      /\ \A i \in 1 .. Len(pick) : pick[i] \in 1 .. Len(s)
  BY LenProperties
<1>2. r \in Seq(T)
  BY <1>1
<1>3. r \in Seq(Range(s)) /\ Len(r) = Len(pick) /\ DOMAIN r = 1 .. Len(pick)
  <2>1. \A i \in 1 .. Len(pick) : s[pick[i]] \in Range(s)
    BY <1>1 DEF Range
  <2> QED
    BY <1>1, <2>1
<1>4. Range(r) = { s[i] : i \in Range(pick) }
  BY <1>1 DEF Range
<1>5. IsInjective(s) => IsInjective(r)
  BY <1>1 DEF IsInjective
<1> QED
  BY <1>2, <1>3, <1>4, <1>5

-----------------------------------------------------------------------------
(* What the members hold. *)

Entries == [ ec : Contexts, covered : Nat, bits : SUBSET Nat ]
Members ==
  [ roots : Seq(Contexts), leaves : Seq(Contexts), absolute : Seq(Contexts), black : Seq(Contexts),
    buffer : Seq(Contexts), positive : Seq(Contexts),
    backtrack : Seq(Entries), best : Seq(Entries), selected : Seq(Entries),
    covered : Nat, bits : SUBSET Nat, most : Nat, height : Int, trials : Nat,
    stopped : BOOLEAN, goal : BOOLEAN ]
TaskSet == [ left : SUBSET Contexts, done : SUBSET Nat, count : Nat ]

TypeInv ==
  /\ config \in Configs
  /\ hoj \in Members /\ todo \in Seq(TaskSet) /\ saves \in Seq(Entries)
  /\ open \in SUBSET Contexts /\ gone \in SUBSET Contexts /\ limited \in SUBSET config.beyond
  /\ waiting \in SUBSET Contexts /\ ready \in Seq(Contexts)
  /\ requested \in SUBSET {"CONTINUE", "GOAL", "STOP"} /\ requested # {}
  /\ pc \in {"run", "hit", "crashed", "again"}
  /\ pc = "hit" => requested = {"CONTINUE"} /\ ready = <<>> /\ waiting = {}

\* A search that goes on has roots, and an unordered one has not achieved its trace: what a jump
\* selects was found by hit.
Unachieved ==
  /\ "CONTINUE" \in requested => hoj.roots # <<>>
  /\ ~ config.ordered =>
       /\ \A b \in Range(hoj.backtrack) : b.covered # config.points
       /\ requested = {"CONTINUE"} => ~ Achieved(hoj)

\* The least of some points.
LEMMA MinIs ==
  ASSUME NEW S, S \subseteq Nat, S # {}
  PROVE  Min(S) \in S /\ \A x \in S : Min(S) <= x
<1>1. \E x \in S : \A y \in S : x <= y
  BY LeastNatural
<1> QED
  BY <1>1 DEF Min

LEMMA HitsAre ==
  ASSUME config \in Configs, NEW c, NEW done
  PROVE  /\ Hits(c, done) \subseteq Points \ done
         /\ IsFiniteSet(Hits(c, done)) /\ Cardinality(Hits(c, done)) \in Nat
<1>1. config.points \in Nat
  BY GoodConfig
<1>2. IsFiniteSet(Points) /\ Points \subseteq Nat
  BY <1>1, UpTo DEF Points
<1> DEFINE rest == Points \ done
           hits == IF config.ordered THEN { p \in rest : \A r \in rest : r <= p => r \in config.sat[c] }
                   ELSE rest \cap config.sat[c]
<1>3. Hits(c, done) = IF config.folding \/ hits = {} THEN hits ELSE {Min(hits)}
  BY DEF Hits
<1>4. hits \subseteq Points \ done
  OBVIOUS
<1> HIDE DEF hits
<1>5. hits # {} => Min(hits) \in hits
  BY <1>2, <1>4, MinIs
<1>6. Hits(c, done) \subseteq Points \ done
  BY <1>3, <1>4, <1>5
<1>7. IsFiniteSet(Hits(c, done))
  BY <1>2, <1>6, FS_Subset
<1> QED
  BY <1>6, <1>7, FS_CardinalityType

\* A member that is given a value of its kind.
LEMMA MembersWith ==
  ASSUME NEW h \in Members
  PROVE  /\ \A s \in Seq(Contexts) :
              /\ [h EXCEPT !.roots = s] \in Members /\ [h EXCEPT !.leaves = s] \in Members
              /\ [h EXCEPT !.absolute = s] \in Members /\ [h EXCEPT !.black = s] \in Members
              /\ [h EXCEPT !.buffer = s] \in Members /\ [h EXCEPT !.positive = s] \in Members
         /\ \A s \in Seq(Entries) :
              /\ [h EXCEPT !.backtrack = s] \in Members /\ [h EXCEPT !.best = s] \in Members
              /\ [h EXCEPT !.selected = s] \in Members
         /\ \A n \in Nat :
              /\ [h EXCEPT !.covered = n] \in Members /\ [h EXCEPT !.most = n] \in Members
              /\ [h EXCEPT !.trials = n] \in Members
         /\ \A b \in SUBSET Nat : [h EXCEPT !.bits = b] \in Members
         /\ \A n \in Int : [h EXCEPT !.height = n] \in Members
         /\ \A b \in BOOLEAN : [h EXCEPT !.stopped = b] \in Members /\ [h EXCEPT !.goal = b] \in Members
  BY DEF Members

LEMMA Appended ==
  ASSUME NEW h \in Members, NEW c \in Contexts, NEW e \in Entries
  PROVE  /\ Append(h.absolute, c) \in Seq(Contexts) /\ Append(h.black, c) \in Seq(Contexts)
         /\ Append(h.leaves, c) \in Seq(Contexts)
         /\ Append(h.backtrack, e) \in Seq(Entries) /\ Append(h.best, e) \in Seq(Entries)
<1>1. /\ h.absolute \in Seq(Contexts) /\ h.black \in Seq(Contexts) /\ h.leaves \in Seq(Contexts)
      /\ h.backtrack \in Seq(Entries) /\ h.best \in Seq(Entries)
  BY DEF Members
<1> QED
  BY <1>1, AppendProperties

\* Looking at a context notes it as absolute, as a black hole, or as a leaf that reached a limit.
Noted(h, g, c) ==
  /\ g \in Members
  /\ g = [h EXCEPT !.absolute = g.absolute, !.black = g.black, !.leaves = g.leaves]
  /\ \/ g.leaves = h.leaves
     \/ c \in limited /\ Childless(c) /\ c \notin Range(h.leaves) /\ g.leaves = Append(h.leaves, c)

LEMMA AsLeafNotes ==
  ASSUME NEW h \in Members, NEW c \in Contexts
  PROVE  Noted(h, AsLeaf(h, c), c) /\ (IsAbsolute(AsLeaf(h, c), c) <=> IsAbsolute(h, c))
<1> DEFINE l == AsLeaf(h, c)
           a == Append(h.absolute, c)
           s == Append(h.leaves, c)
<1>0. a \in Seq(Contexts) /\ s \in Seq(Contexts)
  <2>1. h.absolute \in Seq(Contexts) /\ h.leaves \in Seq(Contexts)
    BY DEF Members
  <2> QED
    BY <2>1, AppendProperties
<1>1. CASE IsAbsolute(h, c)
  <2>1. l = [h EXCEPT !.absolute = a]
    BY <1>1 DEF AsLeaf
  <2> HIDE DEF l, a
  <2>2. l \in Members
    BY <1>0, <2>1, MembersWith
  <2>3. l = [h EXCEPT !.absolute = l.absolute, !.black = l.black, !.leaves = l.leaves] /\ l.leaves = h.leaves
    BY <2>1 DEF Members
  <2>4. l.height = h.height
    BY <2>1 DEF Members
  <2> QED
    BY <2>2, <2>3, <2>4 DEF Noted, IsAbsolute, l
<1>2. CASE ~ IsAbsolute(h, c) /\ Childless(c) /\ c \in limited \ Range(h.leaves)
  <2>1. l = [h EXCEPT !.leaves = s]
    BY <1>2 DEF AsLeaf
  <2>2. ~ IsAbsolute(l, c)
    BY <1>2 DEF IsAbsolute
  <2> HIDE DEF l, s
  <2>3. l \in Members
    BY <1>0, <2>1, MembersWith
  <2>4. l = [h EXCEPT !.absolute = l.absolute, !.black = l.black, !.leaves = l.leaves] /\ l.leaves = s
    BY <2>1 DEF Members
  <2> QED
    BY <1>2, <2>2, <2>3, <2>4 DEF Noted, l, s
<1>3. CASE ~ IsAbsolute(h, c) /\ ~ (Childless(c) /\ c \in limited \ Range(h.leaves))
  <2>1. AsLeaf(h, c) = h
    BY <1>3 DEF AsLeaf
  <2> QED
    BY <2>1 DEF Noted, Members
<1> QED
  BY <1>1, <1>2, <1>3

LEMMA AsLostNotes ==
  ASSUME NEW h \in Members, NEW c \in Contexts, NEW P
  PROVE  Noted(h, AsLost(h, c, P), c) /\ (IsAbsolute(AsLost(h, c, P), c) <=> IsAbsolute(h, c))
<1> DEFINE g == AsLeaf(h, c)
           l == AsLost(h, c, P)
           s == Append(g.black, c)
<1>1. Noted(h, g, c) /\ (IsAbsolute(g, c) <=> IsAbsolute(h, c))
  BY AsLeafNotes
<1>2. l = g \/ l = [g EXCEPT !.black = s]
  BY DEF AsLost
<1> HIDE DEF g, l
<1>3. CASE l = g
  BY <1>1, <1>3 DEF l
<1>4. CASE l = [g EXCEPT !.black = s]
  <2>1. g \in Members /\ g.black \in Seq(Contexts)
    BY <1>1 DEF Noted, Members
  <2>2. s \in Seq(Contexts)
    BY <2>1, AppendProperties
  <2> HIDE DEF s
  <2>3. l \in Members
    BY <1>4, <2>1, <2>2, MembersWith
  <2>4. /\ l = [h EXCEPT !.absolute = l.absolute, !.black = l.black, !.leaves = l.leaves]
        /\ l.leaves = g.leaves /\ l.height = g.height
    BY <1>1, <1>4, <2>1 DEF Noted, Members
  <2>5. IsAbsolute(l, c) <=> IsAbsolute(g, c)
    BY <2>4 DEF IsAbsolute
  <2>6. Noted(h, l, c)
    BY <1>1, <2>3, <2>4 DEF Noted
  <2> QED
    BY <1>1, <2>5, <2>6 DEF l
<1> QED
  BY <1>2, <1>3, <1>4

\* A context that is looked at twice is noted once.
LEMMA NotedTwice ==
  ASSUME NEW h \in Members, NEW g, NEW k, NEW c \in Contexts, Noted(h, g, c), Noted(g, k, c)
  PROVE  Noted(h, k, c)
<1>1. h.leaves \in Seq(Contexts)
  BY DEF Members
<1>2. \A s \in Seq(Contexts) : Range(Append(s, c)) = Range(s) \cup {c}
  BY RangeOf
<1> QED
  BY <1>1, <1>2 DEF Noted, Members

\* What saveBacktrackable leaves.
Saved(c, done, count, h) ==
  IF config.ordered THEN Entry(c, h.covered + count, h.bits) ELSE Entry(c, h.covered, done)
LEMMA SavedIs ==
  ASSUME NEW h \in Members, NEW c \in Contexts, NEW done \in SUBSET Nat, NEW count \in Nat
  PROVE  /\ Saved(c, done, count, h) \in Entries /\ Saved(c, done, count, h).ec = c
         /\ Saved(c, done, count, h).covered = IF config.ordered THEN h.covered + count ELSE h.covered
         /\ Saved(c, done, count, h).bits = IF config.ordered THEN h.bits ELSE done
<1>1. \A n \in Nat, b \in SUBSET Nat :
        Entry(c, n, b) \in Entries /\ Entry(c, n, b).ec = c /\ Entry(c, n, b).covered = n /\ Entry(c, n, b).bits = b
  BY DEF Entry, Entries
<1>2. h.covered \in Nat /\ h.bits \in SUBSET Nat
  BY DEF Members
<1>3. h.covered + count \in Nat
  BY <1>2
<1> QED
  BY <1>1, <1>2, <1>3 DEF Saved

KeptOrNoted(h, k, c, e) ==
  \E g : /\ Noted(h, g, c)
         /\ k = g \/ (k = [g EXCEPT !.backtrack = Append(@, e)] /\ Childless(c) /\ ~ IsAbsolute(h, c))
LEMMA SaveNotes ==
  ASSUME NEW h \in Members, NEW c \in Contexts, NEW done \in SUBSET Nat, NEW count \in Nat
  PROVE  KeptOrNoted(h, Save(h, c, done, count), c, Saved(c, done, count, h))
         /\ Save(h, c, done, count) \in Members
<1>1. Noted(h, h, c)
  BY DEF Noted, Members
<1> DEFINE P == Wanted(Points \ done)
           g == AsLost(h, c, P)
<1>2. Noted(h, g, c)
  BY AsLostNotes
<1>3. CASE ~ Childless(c)
  BY <1>1, <1>3 DEF Save, Noted, KeptOrNoted
<1>4. CASE Childless(c) /\ IsLost(h, c, P)
  <2>1. Save(h, c, done, count) = g
    BY <1>4 DEF Save
  <2> QED
    BY <1>2, <2>1 DEF Noted, KeptOrNoted
<1>5. CASE Childless(c) /\ ~ IsLost(h, c, P)
  <2>1. Save(h, c, done, count) = [g EXCEPT !.backtrack = Append(@, Saved(c, done, count, h))]
    BY <1>5 DEF Save, Saved
  <2>2. Saved(c, done, count, h) \in Entries
    BY SavedIs
  <2>3. ~ IsAbsolute(h, c)
    BY <1>5 DEF IsLost
  <2> HIDE DEF g
  <2>5. g \in Members
    BY <1>2 DEF Noted
  <2>6. Append(g.backtrack, Saved(c, done, count, h)) \in Seq(Entries)
    BY <2>2, <2>5, Appended
  <2>4. Save(h, c, done, count) \in Members
    BY <2>1, <2>5, <2>6, MembersWith
  <2> QED
    BY <1>2, <1>5, <2>1, <2>3, <2>4 DEF KeptOrNoted
<1> QED
  BY <1>3, <1>4, <1>5

\* What a step of the traversal looks at: the points hit down to the context, and their number
\* since the roots.
Now == Head(todo).done \cup Hits(Turn, Head(todo).done)
Total == Head(todo).count + Cardinality(Hits(Turn, Head(todo).done))

LEMMA TurnIs ==
  ASSUME TypeInv, Looks, Head(todo).left # {}
  PROVE  /\ Turn \in Contexts /\ Turn \in Head(todo).left /\ Now \in SUBSET Nat /\ Total \in Nat
         /\ Others \in Seq(TaskSet) /\ Children(Turn) \in SUBSET Contexts
         /\ Len(todo) \in Nat \ {0} /\ Len(Others) = Len(todo)
         /\ Others[1] = [Head(todo) EXCEPT !.left = @ \ {Turn}]
         /\ \A i \in 2 .. Len(todo) : Others[i] = todo[i]
<1>1. /\ todo \in Seq(TaskSet) /\ Len(todo) \in Nat /\ todo # <<>> /\ DOMAIN todo = 1 .. Len(todo)
  BY LenProperties DEF TypeInv, Looks
<1>2. Len(todo) # 0 /\ 1 \in 1 .. Len(todo) /\ Head(todo) = todo[1] /\ Head(todo) \in TaskSet
  BY <1>1
<1>3. Head(todo).left \subseteq Contexts /\ Head(todo).done \in SUBSET Nat /\ Head(todo).count \in Nat
  BY <1>2 DEF TaskSet
<1>4. Contexts \subseteq Nat
  BY GraphFacts DEF TypeInv
<1>5. Turn \in Head(todo).left
  BY <1>3, <1>4, MinIs DEF Turn
<1>6. /\ Hits(Turn, Head(todo).done) \subseteq Points /\ Cardinality(Hits(Turn, Head(todo).done)) \in Nat
  BY HitsAre DEF TypeInv
<1>7. Points \subseteq Nat
  BY GoodConfig DEF Points, TypeInv
<1>8. Now \in SUBSET Nat /\ Total \in Nat
  <2>1. Now \subseteq Nat
    BY <1>3, <1>6, <1>7 DEF Now
  <2>2. \A m, n \in Nat : m + n \in Nat
    OBVIOUS
  <2>3. Total \in Nat
    BY <1>3, <1>6, <2>2, Zenon DEF Total
  <2> QED
    BY <2>1, <2>3
<1> DEFINE o == [todo[1] EXCEPT !.left = @ \ {Turn}]
<1>9. o \in TaskSet
  BY <1>2 DEF TaskSet
<1>10. Others = [todo EXCEPT ![1] = o]
  BY DEF Others
<1> HIDE DEF o
<1>11. Others \in Seq(TaskSet) /\ Len(Others) = Len(todo) /\ Others[1] = o /\ \A i \in 2 .. Len(todo) : Others[i] = todo[i]
  BY <1>1, <1>2, <1>9, <1>10
<1>12. Children(Turn) \in SUBSET Contexts
  BY DEF Children
<1> QED
  BY <1>1, <1>2, <1>3, <1>5, <1>8, <1>11, <1>12 DEF o

\* The kinds of steps of the traversal, g being the members with what was noted: the context is
\* passed over, or what is below it comes next, or it is the best so far or one of them, or it is
\* kept for backtracking.
Passed(g) == hoj' = g /\ saves' = <<>> /\ todo' = Others
Descended(g) ==
  /\ hoj' = g /\ saves' = <<>> /\ todo' = <<Task(Children(Turn), Now, Total)>> \o Others
  /\ ~ Childless(Turn) /\ Total # config.points - hoj.covered
Chose(g) ==
  /\ hoj' = Candidate(g, Turn, Now, Total) /\ saves' = Replaced(g, Total) /\ todo' = Others
  /\ \/ Total = config.points - hoj.covered
     \/ Total >= hoj.most /\ Total > 0 /\ Childless(Turn) /\ ~ IsAbsolute(hoj, Turn)
Kept(g) ==
  /\ hoj' = [g EXCEPT !.backtrack = Append(@, Saved(Turn, Now, Total, hoj))]
  /\ saves' = <<>> /\ todo' = Others /\ Backtracks
  /\ Childless(Turn) /\ ~ IsAbsolute(hoj, Turn) /\ Total # config.points - hoj.covered

LEMMA VisitIs ==
  ASSUME TypeInv, Visit
  PROVE  \E g : Noted(hoj, g, Turn) /\ (Passed(g) \/ Descended(g) \/ Chose(g) \/ Kept(g))
<1>1. Looks /\ Head(todo).left # {} /\ hoj \in Members
  BY DEF Visit, TypeInv
<1>2. Turn \in Contexts /\ Now \in SUBSET Nat /\ Total \in Nat
  BY <1>1, TurnIs
<1>3. Noted(hoj, hoj, Turn)
  BY <1>1 DEF Noted, Members
<1> DEFINE hits == Hits(Turn, Head(todo).done)
           P == Wanted(Points \ Now)
           asks == hits = {} \/ (config.ordered /\ config.folding /\ P # {})
           asked == IF asks THEN AsLost(hoj, Turn, P) ELSE hoj
           known == AsLeaf(asked, Turn)
<1>4. Noted(hoj, asked, Turn) /\ (IsAbsolute(asked, Turn) <=> IsAbsolute(hoj, Turn))
  BY <1>1, <1>2, <1>3, AsLostNotes
<1>5. asked \in Members
  BY <1>4 DEF Noted
<1>6. Noted(asked, known, Turn) /\ (IsAbsolute(known, Turn) <=> IsAbsolute(asked, Turn))
  BY <1>2, <1>5, AsLeafNotes
<1>7. Noted(hoj, known, Turn)
  BY <1>1, <1>2, <1>4, <1>6, NotedTwice
<1> HIDE DEF P, asks, asked, known, hits
<1>8. asked.most = hoj.most /\ known.most = hoj.most /\ known.covered = hoj.covered /\ known.bits = hoj.bits
  BY <1>1, <1>4, <1>7 DEF Noted, Members
<1> USE DEF P, asks, asked, known, hits
<1>9. \/ hoj' = hoj /\ saves' = <<>> /\ todo' = Others
      \/ hoj' = asked /\ saves' = <<>> /\ todo' = Others
      \/ /\ Total = config.points - hoj.covered
         /\ hoj' = Candidate(asked, Turn, Now, Total) /\ saves' = Replaced(asked, Total) /\ todo' = Others
      \/ /\ Total # config.points - hoj.covered /\ ~ Childless(Turn)
         /\ hoj' = asked /\ saves' = <<>> /\ todo' = <<Task(Children(Turn), Now, Total)>> \o Others
      \/ hoj' = known /\ saves' = <<>> /\ todo' = Others
      \/ /\ Total # config.points - hoj.covered /\ Childless(Turn) /\ ~ IsAbsolute(asked, Turn)
         /\ hoj' = Leaf(known, Turn, Now, Total) /\ saves' = Replaced(known, Total) /\ todo' = Others
  BY DEF Visit, Now, Total
<1> HIDE DEF P, asks, asked, known, hits
<1>10. CASE hoj' = hoj /\ saves' = <<>> /\ todo' = Others
  BY <1>3, <1>10 DEF Passed
<1>11. CASE hoj' = asked /\ saves' = <<>> /\ todo' = Others
  BY <1>4, <1>11 DEF Passed
<1>12. CASE /\ Total = config.points - hoj.covered
            /\ hoj' = Candidate(asked, Turn, Now, Total) /\ saves' = Replaced(asked, Total) /\ todo' = Others
  BY <1>4, <1>12 DEF Chose
<1>13. CASE /\ Total # config.points - hoj.covered /\ ~ Childless(Turn)
            /\ hoj' = asked /\ saves' = <<>> /\ todo' = <<Task(Children(Turn), Now, Total)>> \o Others
  BY <1>4, <1>13 DEF Descended
<1>14. CASE hoj' = known /\ saves' = <<>> /\ todo' = Others
  BY <1>7, <1>14 DEF Passed
<1>15. CASE /\ Total # config.points - hoj.covered /\ Childless(Turn) /\ ~ IsAbsolute(asked, Turn)
            /\ hoj' = Leaf(known, Turn, Now, Total) /\ saves' = Replaced(known, Total) /\ todo' = Others
  <2>1. CASE Total >= known.most /\ Total > 0
    <3>1. hoj' = Candidate(known, Turn, Now, Total)
      BY <1>15, <2>1 DEF Leaf
    <3>2. Chose(known)
      BY <1>4, <1>8, <1>15, <2>1, <3>1 DEF Chose
    <3> QED
      BY <1>7, <3>2
  <2>2. CASE ~ (Total >= known.most /\ Total > 0)
    <3>0. hoj.most \in Nat
      BY <1>1 DEF Members
    <3>1. saves' = <<>>
      BY <1>2, <1>8, <1>15, <2>2, <3>0 DEF Replaced
    <3>2. CASE ~ Backtracks
      <4>1. hoj' = known
        BY <1>15, <2>2, <3>2 DEF Leaf
      <4> QED
        BY <1>7, <1>15, <3>1, <4>1 DEF Passed
    <3>3. CASE Backtracks
      <4>1. hoj' = Save(known, Turn, Now, Total)
        BY <1>15, <2>2, <3>3 DEF Leaf
      <4>2. known \in Members
        BY <1>7 DEF Noted
      <4>7. KeptOrNoted(known, Save(known, Turn, Now, Total), Turn, Saved(Turn, Now, Total, known))
        BY <1>2, <4>2, SaveNotes
      <4>3. PICK g : /\ Noted(known, g, Turn)
                     /\ \/ Save(known, Turn, Now, Total) = g
                        \/ /\ Save(known, Turn, Now, Total)
                                = [g EXCEPT !.backtrack = Append(@, Saved(Turn, Now, Total, known))]
                           /\ Childless(Turn) /\ ~ IsAbsolute(known, Turn)
        BY <4>7 DEF KeptOrNoted
      <4>4. Noted(hoj, g, Turn)
        BY <1>1, <1>2, <1>7, <4>3, NotedTwice
      <4>5. Saved(Turn, Now, Total, known) = Saved(Turn, Now, Total, hoj)
        BY <1>8 DEF Saved
      <4>6. Passed(g) \/ Kept(g)
        BY <1>4, <1>6, <1>15, <3>1, <3>3, <4>1, <4>3, <4>5 DEF Passed, Kept
      <4> QED
        BY <4>4, <4>6
    <3> QED
      BY <3>2, <3>3
  <2> QED
    BY <2>1, <2>2
<1> QED
  BY <1>9, <1>10, <1>11, <1>12, <1>13, <1>14, <1>15

-----------------------------------------------------------------------------
(* What an answer of hit leads to. *)

\* No two of the entries kept are of the same context.
DistinctEntries(s) == \A i, j \in DOMAIN s : s[i].ec = s[j].ec => i = j

\* w is what v becomes when some of its leaves are selected, or none.
Follows(v, w, goal) ==
  /\ w \in Members
  /\ w.covered = v.covered /\ w.most = v.most /\ w.best = v.best /\ w.height = v.height
  /\ w.buffer = v.buffer /\ w.selected \in Seq(Range(v.selected) \cup Range(v.best))
  /\ w.leaves \in {<<>>, v.leaves}
  /\ w.positive \in Seq(Range(v.positive) \cup Range(v.leaves))
  /\ goal \/ w.positive = v.positive
  /\ w.backtrack \in Seq(Range(v.backtrack))
  /\ DistinctEntries(v.backtrack) => DistinctEntries(w.backtrack)

GivenUp(w) == hoj' = w /\ requested' = {"GOAL"} /\ ready' = ready /\ waiting' = waiting
Backtracked(w, posted) == w.backtrack # <<>> /\ w.leaves = <<>> /\ Backtrack(w, posted)
Jumped(v, w, posted, hit) ==
  /\ w.roots # <<>> /\ w.roots \in Seq(Range(v.leaves)) /\ w.leaves = <<>>
  /\ IsInjective(v.leaves) => IsInjective(w.roots)
  /\ ~ hit /\ Backtracks /\ config.jumpCount = 1 =>
       \A b \in Range(w.backtrack) : b.ec \notin Range(w.roots)
  /\ hit /\ ~ config.ordered => \E b \in Range(v.best) : w.bits = b.bits
  /\ ~ hit => w.bits = v.bits /\ w.selected = v.selected
  /\ hoj' = [w EXCEPT !.height = @ + config.delta, !.stopped = TRUE]
  /\ ready' = w.roots /\ requested' = posted \cup {"CONTINUE"} /\ waiting' = waiting

Outcome(v, hit) ==
  \E posted \in {{}, {"GOAL"}} : \E w :
    /\ Follows(v, w, hit /\ Achieved(v))
    /\ GivenUp(w) \/ Backtracked(w, posted) \/ Jumped(v, w, posted, hit)
    /\ hit /\ Achieved(v) /\ ~ Backtracked(w, posted) =>
         requested' = {"GOAL"} \/ (posted = {"GOAL"} /\ ~ config.final /\ ~ config.max /\ ~ config.stop)
    /\ posted = {"GOAL"} => hit /\ Achieved(v)
    /\ hit /\ Achieved(v) /\ (config.final \/ config.max) => w.leaves = <<>>
    /\ Backtracked(w, posted) /\ posted = {"GOAL"} => ~ config.final /\ ~ config.max /\ ~ config.stop

LEMMA Follow ==
  ASSUME NEW v \in Members, NEW goal \in BOOLEAN
  PROVE  Follows(v, v, goal)
<1>1. /\ v.positive \in Seq(Contexts) /\ v.backtrack \in Seq(Entries) /\ v.leaves \in Seq(Contexts)
  BY DEF Members
<1>2. v.positive \in Seq(Range(v.positive) \cup Range(v.leaves)) /\ v.backtrack \in Seq(Range(v.backtrack))
  BY <1>1, OwnRange
<1>3. v.selected \in Seq(Range(v.selected) \cup Range(v.best))
  <2>1. v.selected \in Seq(Entries)
    BY DEF Members
  <2> QED
    BY <2>1, OwnRange
<1> QED
  BY <1>2, <1>3 DEF Follows

\* What selecting leaves does not depend on.
Chosen(v, w, hit) ==
  /\ Follows(v, w, FALSE)
  /\ w.leaves = <<>> /\ w.positive = v.positive /\ w.black = v.black /\ w.absolute = v.absolute
  /\ w.roots \in Seq(Range(v.leaves)) /\ (IsInjective(v.leaves) => IsInjective(w.roots))
  /\ w.trials = v.trials
  /\ w.roots # <<>> /\ hit /\ ~ config.ordered => \E b \in Range(v.best) : w.bits = b.bits
  /\ ~ hit => w.bits = v.bits /\ w.selected = v.selected
  /\ ~ hit /\ Backtracks /\ config.jumpCount = 1 =>
       \A b \in Range(w.backtrack) : b.ec \notin Range(w.roots)

LEMMA DistinctThose ==
  ASSUME NEW s \in Seq(Entries), NEW S
  PROVE  DistinctEntries(s) => DistinctEntries(Those(s, S))
<1> DEFINE t == Those(s, S)
<1>1. t \in Seq(Entries \cap S) /\ PartOf(t, s, S)
  BY ThoseAre
<1> HIDE DEF t
<1>2. PICK f \in [1 .. Len(t) -> 1 .. Len(s)] :
         /\ \A i \in 1 .. Len(t) : t[i] = s[f[i]]
         /\ \A i, j \in 1 .. Len(t) : f[i] = f[j] => i = j
  BY <1>1 DEF PartOf
<1>3. DOMAIN t = 1 .. Len(t) /\ DOMAIN s = 1 .. Len(s)
  BY <1>1, LenProperties
<1>4. DistinctEntries(s) => DistinctEntries(t)
  BY <1>2, <1>3 DEF DistinctEntries
<1> QED
  BY <1>4 DEF t

LEMMA UnselectedAre ==
  ASSUME config \in Configs, NEW v \in Members, NEW leaves, NEW pick, NEW left \in Unselected(v, leaves, pick)
  PROVE  /\ left \in Seq(Entries) /\ left \in Seq(Range(v.backtrack))
         /\ DistinctEntries(v.backtrack) => DistinctEntries(left)
         /\ config.jumpCount = 1 => \A b \in Range(left) : b.ec \notin { leaves[i] : i \in Range(pick) }
<1> DEFINE Without(S) == Those(v.backtrack, { b \in Range(v.backtrack) : b.ec \notin S })
<1>1. v.backtrack \in Seq(Entries)
  BY DEF Members
<1>2. ASSUME NEW S
      PROVE  /\ Without(S) \in Seq(Entries) /\ Without(S) \in Seq(Range(v.backtrack))
             /\ DistinctEntries(v.backtrack) => DistinctEntries(Without(S))
             /\ \A b \in Range(Without(S)) : b.ec \notin S
  <2> DEFINE U == { b \in Range(v.backtrack) : b.ec \notin S }
             t == Those(v.backtrack, U)
  <2>1. \A b \in U : b.ec \notin S
    OBVIOUS
  <2>2. t = Without(S)
    OBVIOUS
  <2> HIDE DEF U, Without
  <2>3. /\ t \in Seq(Entries) /\ t \in Seq(Range(v.backtrack)) /\ Range(t) = Range(v.backtrack) \cap U
    BY <1>1, ThoseOwn
  <2>4. DistinctEntries(v.backtrack) => DistinctEntries(t)
    BY <1>1, DistinctThose
  <2> HIDE DEF t
  <2> QED
    BY <2>1, <2>2, <2>3, <2>4
<1>3. \/ left = Without({ leaves[i] : i \in Range(pick) })
      \/ config.jumpCount # 1 /\ \E S : left = Without(S)
  BY DEF Unselected
<1> HIDE DEF Without
<1> QED
  BY <1>2, <1>3

LEMMA SelectionsAre ==
  ASSUME config \in Configs, NEW v \in Members, NEW hit \in BOOLEAN, NEW w \in Selections(v, hit),
         hit /\ ~ config.ordered => Len(v.leaves) <= Len(v.best)
  PROVE  Chosen(v, w, hit)
<1> DEFINE leaves == Those(v.leaves, { l \in Contexts : ~ Dropped(v, l) })
           none == [v EXCEPT !.leaves = <<>>, !.roots = <<>>]
           count == IF hit THEN HitCount ELSE config.jumpCount
           Roots(pick) == [ i \in DOMAIN pick |-> leaves[pick[i]] ]
           Bests(pick) == [ i \in DOMAIN pick |-> v.best[pick[i]] ]
<1>1. /\ v.leaves \in Seq(Contexts) /\ v.positive \in Seq(Contexts)
      /\ v.backtrack \in Seq(Entries) /\ v.best \in Seq(Entries) /\ v.selected \in Seq(Entries)
  BY DEF Members
<1>2. /\ leaves \in Seq(Contexts) /\ leaves \in Seq(Range(v.leaves)) /\ Len(leaves) <= Len(v.leaves)
      /\ IsInjective(v.leaves) => IsInjective(leaves)
  BY <1>1, ThoseOwn
<1>3. /\ Len(leaves) \in Nat /\ Len(v.leaves) \in Nat /\ Len(v.best) \in Nat
  BY <1>1, <1>2, LenProperties
<1>4. <<>> \in Seq(Contexts) /\ <<>> \in Seq(Range(v.leaves)) /\ IsInjective(<<>>) /\ Range(<<>>) = {}
  BY DEF IsInjective, Range
<1>5. none \in Members
  <2>1. [v EXCEPT !.leaves = <<>>] \in Members
    BY <1>4, MembersWith
  <2> QED
    BY <1>4, <2>1, MembersWith
<1>6. Follows(v, v, FALSE)
  BY Follow
<1>7. Chosen(v, none, hit)
  BY <1>4, <1>5, <1>6 DEF Chosen, Follows, Members
<1>8. count \in Nat
  <2>1. IsFiniteSet(Contexts) /\ Cardinality(Contexts) \in Nat
    BY GraphFacts, UpTo
  <2>2. config.hitCount \in Nat /\ config.jumpCount \in Nat
    BY GoodConfig
  <2>3. HitCount \in Nat
    BY <2>1, <2>2 DEF HitCount
  <2> QED
    BY <2>2, <2>3
<1>15. hit => count > 0
  <2>1. IsFiniteSet(Contexts) /\ Cardinality(Contexts) \in Nat /\ config.hitCount \in Nat \ {0}
    BY GraphFacts, GoodConfig, UpTo
  <2> QED
    BY <2>1 DEF HitCount
<1>9. \/ w = none
      \/ leaves # <<>> /\ \E pick \in Picks(count, Len(leaves)) :
           \/ hit /\ w = [HitSelect(none, Bests(pick)) EXCEPT !.roots = Roots(pick)]
           \/ ~ hit /\ Backtracks /\ \E left \in Unselected(v, leaves, pick) :
                w = [none EXCEPT !.roots = Roots(pick), !.backtrack = left]
           \/ ~ hit /\ ~ Backtracks /\ w = [none EXCEPT !.roots = Roots(pick)]
  <2> DEFINE Of(pick) ==
        CASE hit -> { [HitSelect(none, Bests(pick)) EXCEPT !.roots = Roots(pick)] }
          [] ~ hit /\ Backtracks -> { [none EXCEPT !.roots = Roots(pick), !.backtrack = left] :
                                         left \in Unselected(v, leaves, pick) }
          [] ~ hit /\ ~ Backtracks -> { [none EXCEPT !.roots = Roots(pick)] }
  <2>1. Selections(v, hit) = IF leaves = <<>> \/ count = 0 THEN {none}
                             ELSE UNION { Of(pick) : pick \in Picks(count, Len(leaves)) }
    BY Zenon DEF Selections
  <2> HIDE DEF leaves, none, count, Of
  <2>2. w = none \/ (leaves # <<>> /\ \E pick \in Picks(count, Len(leaves)) : w \in Of(pick))
    BY <2>1
  <2> HIDE DEF Roots, Bests
  <2>3. ASSUME NEW pick, w \in Of(pick)
        PROVE  \/ hit /\ w = [HitSelect(none, Bests(pick)) EXCEPT !.roots = Roots(pick)]
               \/ ~ hit /\ Backtracks /\ \E left \in Unselected(v, leaves, pick) :
                    w = [none EXCEPT !.roots = Roots(pick), !.backtrack = left]
               \/ ~ hit /\ ~ Backtracks /\ w = [none EXCEPT !.roots = Roots(pick)]
    <3>1. CASE hit
      BY <2>3, <3>1 DEF Of
    <3>2. CASE ~ hit /\ Backtracks
      BY <2>3, <3>2 DEF Of
    <3>3. CASE ~ hit /\ ~ Backtracks
      BY <2>3, <3>3 DEF Of
    <3> QED
      BY <3>1, <3>2, <3>3
  <2> QED
    BY <2>2, <2>3
<1> HIDE DEF leaves, count, none
<1>10. ASSUME NEW pick \in Picks(count, Len(leaves)), leaves # <<>>
       PROVE  /\ Roots(pick) \in Seq(Contexts) /\ Roots(pick) \in Seq(Range(v.leaves))
              /\ Range(Roots(pick)) = { leaves[i] : i \in Range(pick) }
              /\ IsInjective(v.leaves) => IsInjective(Roots(pick))
              /\ hit /\ ~ config.ordered =>
                   Bests(pick) \in Seq(Entries) /\ Bests(pick) \in Seq(Range(v.best)) /\ Len(Bests(pick)) > 0
  <2>1. pick \in Seq(1 .. Len(leaves)) /\ IsInjective(pick)
    BY <1>3, <1>8, PicksAre
  <2>2. /\ Roots(pick) \in Seq(Contexts) /\ Range(Roots(pick)) = { leaves[i] : i \in Range(pick) }
        /\ IsInjective(leaves) => IsInjective(Roots(pick))
    BY <1>2, <2>1, Picked
  <2>3. Roots(pick) \in Seq(Range(v.leaves))
    BY <1>2, <2>1, Picked
  <2>4. ASSUME hit, ~ config.ordered
        PROVE  Bests(pick) \in Seq(Entries) /\ Bests(pick) \in Seq(Range(v.best)) /\ Len(Bests(pick)) > 0
    <3>1. Len(leaves) <= Len(v.best)
      BY <1>2, <1>3, <2>4
    <3>2. pick \in Seq(1 .. Len(v.best))
      <4>1. Range(pick) \subseteq 1 .. Len(v.best)
        BY <1>3, <2>1, <3>1, RangeOf
      <4> QED
        BY <2>1, <4>1, OwnRange
    <3>3. Len(leaves) > 0
      BY <1>2, <1>10
    <3>4. Len(pick) > 0
      BY <1>3, <1>8, <1>15, <2>4, <3>3, PicksAre
    <3> QED
      BY <1>1, <2>1, <3>2, <3>4, Picked
  <2> QED
    BY <1>2, <2>2, <2>3, <2>4
<1> HIDE DEF Roots, Bests
<1>11. ASSUME NEW g \in Members, Chosen(v, g, hit), NEW pick \in Picks(count, Len(leaves)), leaves # <<>>,
              hit /\ ~ config.ordered => \E b \in Range(v.best) : g.bits = b.bits,
              ~ hit /\ Backtracks /\ config.jumpCount = 1 =>
                \A b \in Range(g.backtrack) : b.ec \notin { leaves[i] : i \in Range(pick) }
       PROVE  Chosen(v, [g EXCEPT !.roots = Roots(pick)], hit)
  <2> DEFINE k == [g EXCEPT !.roots = Roots(pick)]
  <2>1. k \in Members
    BY <1>10, <1>11, MembersWith
  <2>2. k.roots = Roots(pick) /\ k.backtrack = g.backtrack /\ k.trials = g.trials
        /\ k.black = g.black /\ k.absolute = g.absolute
        /\ k.covered = g.covered /\ k.most = g.most /\ k.best = g.best /\ k.height = g.height
        /\ k.selected = g.selected /\ k.bits = g.bits
        /\ k.buffer = g.buffer /\ k.leaves = g.leaves /\ k.positive = g.positive
    BY DEF Members
  <2> HIDE DEF k
  <2>3. Follows(v, k, FALSE)
    BY <1>11, <2>1, <2>2 DEF Chosen, Follows
  <2>4. Chosen(v, k, hit)
    BY <1>10, <1>11, <2>2, <2>3 DEF Chosen
  <2> QED
    BY <2>4 DEF k
<1>12. ASSUME NEW pick \in Picks(count, Len(leaves)), leaves # <<>>, hit,
              w = [HitSelect(none, Bests(pick)) EXCEPT !.roots = Roots(pick)]
       PROVE  Chosen(v, w, hit)
  <2> DEFINE g == HitSelect(none, Bests(pick))
  <2>1. CASE config.ordered
    <3>1. g = none
      BY <2>1 DEF HitSelect
    <3> QED
      BY <1>5, <1>7, <1>11, <1>12, <2>1, <3>1
  <2>2. CASE ~ config.ordered
    <3> DEFINE s == none.selected \o Bests(pick)
               b == Last(Bests(pick)).bits
               k == [none EXCEPT !.selected = s]
    <3>1. g = [k EXCEPT !.bits = b]
      BY <2>2 DEF HitSelect
    <3>2. Bests(pick) \in Seq(Entries) /\ Bests(pick) \in Seq(Range(v.best)) /\ Len(Bests(pick)) > 0
      BY <1>10, <1>12, <2>2
    <3>3. b \in SUBSET Nat /\ \E e \in Range(v.best) : b = e.bits
      <4>1. Last(Bests(pick)) \in Entries /\ Last(Bests(pick)) \in Range(v.best)
        BY <3>2 DEF Last
      <4> QED
        BY <4>1 DEF Entries
    <3>4. s \in Seq(Entries) /\ s \in Seq(Range(v.selected) \cup Range(v.best))
      <4>1. none.selected \in Seq(Entries) /\ none.selected = v.selected
        BY <1>5 DEF Members, none
      <4>2. s \in Seq(Entries) /\ Range(s) = Range(none.selected) \cup Range(Bests(pick))
        BY <3>2, <4>1, ConcatProperties, RangeOf
      <4>3. Range(s) \subseteq Range(v.selected) \cup Range(v.best)
        BY <3>2, <4>1, <4>2, RangeOf
      <4> QED
        BY <4>2, <4>3, OwnRange
    <3> HIDE DEF s, b
    <3>5. k \in Members
      BY <1>5, <3>4, MembersWith
    <3>6. /\ g.roots = none.roots /\ g.backtrack = none.backtrack /\ g.trials = none.trials
          /\ g.black = none.black /\ g.absolute = none.absolute
          /\ g.covered = none.covered /\ g.most = none.most /\ g.best = none.best /\ g.height = none.height
          /\ g.buffer = none.buffer /\ g.leaves = none.leaves /\ g.positive = none.positive
          /\ g.selected = s /\ g.bits = b
      BY <1>5, <3>1 DEF Members
    <3> HIDE DEF k
    <3>7. g \in Members
      BY <3>1, <3>3, <3>5, MembersWith
    <3> HIDE DEF g
    <3>8. Follows(v, g, FALSE)
      BY <1>7, <3>4, <3>6, <3>7 DEF Chosen, Follows
    <3>10. none.roots = <<>>
      BY <1>5 DEF Members, none
    <3>9. Chosen(v, g, hit)
      BY <1>7, <1>12, <3>6, <3>8, <3>10 DEF Chosen
    <3> QED
      BY <1>11, <1>12, <3>3, <3>6, <3>7, <3>9 DEF g
  <2> QED
    BY <2>1, <2>2
<1>13. ASSUME NEW pick \in Picks(count, Len(leaves)), leaves # <<>>, ~ hit, Backtracks,
              NEW left \in Unselected(v, leaves, pick),
              w = [none EXCEPT !.roots = Roots(pick), !.backtrack = left]
       PROVE  Chosen(v, w, hit)
  <2> DEFINE g == [none EXCEPT !.backtrack = left]
  <2>1. /\ left \in Seq(Entries) /\ left \in Seq(Range(v.backtrack))
        /\ DistinctEntries(v.backtrack) => DistinctEntries(left)
        /\ config.jumpCount = 1 => \A b \in Range(left) : b.ec \notin { leaves[i] : i \in Range(pick) }
    BY UnselectedAre
  <2>2. g \in Members
    BY <1>5, <2>1, MembersWith
  <2>3. /\ g.roots = none.roots /\ g.backtrack = left /\ g.trials = none.trials
        /\ g.black = none.black /\ g.absolute = none.absolute
        /\ g.covered = none.covered /\ g.most = none.most /\ g.best = none.best /\ g.height = none.height
        /\ g.selected = none.selected /\ g.bits = none.bits
        /\ g.buffer = none.buffer /\ g.leaves = none.leaves /\ g.positive = none.positive
        /\ none.roots = <<>>
    BY <1>5 DEF Members, none
  <2>4. w = [g EXCEPT !.roots = Roots(pick)]
    BY <1>5, <1>13 DEF Members
  <2> HIDE DEF g
  <2>5. Follows(v, g, FALSE)
    BY <1>7, <2>1, <2>2, <2>3 DEF Chosen, Follows
  <2>6. Chosen(v, g, hit)
    BY <1>4, <1>7, <2>3, <2>5 DEF Chosen
  <2>7. ~ hit /\ Backtracks /\ config.jumpCount = 1 =>
          \A b \in Range(g.backtrack) : b.ec \notin { leaves[i] : i \in Range(pick) }
    BY <2>1, <2>3
  <2>8. Chosen(v, [g EXCEPT !.roots = Roots(pick)], hit)
    BY <1>11, <1>13, <2>2, <2>6, <2>7
  <2> QED
    BY <2>4, <2>8
<1>14. ASSUME NEW pick \in Picks(count, Len(leaves)), leaves # <<>>, ~ hit, ~ Backtracks,
              w = [none EXCEPT !.roots = Roots(pick)]
       PROVE  Chosen(v, w, hit)
  BY <1>5, <1>7, <1>11, <1>14
<1> QED
  BY <1>7, <1>9, <1>12, <1>13, <1>14

\* What Try and BacktrackOrGiveUp need to know of the roots they are given.
Rooted(v, g, hit) ==
  g.roots # <<>> =>
    /\ g.roots \in Seq(Range(v.leaves)) /\ g.leaves = <<>>
    /\ IsInjective(v.leaves) => IsInjective(g.roots)
    /\ hit /\ ~ config.ordered => \E b \in Range(v.best) : g.bits = b.bits
    /\ ~ hit => g.bits = v.bits /\ g.selected = v.selected
    /\ ~ hit /\ Backtracks /\ config.jumpCount = 1 =>
         \A b \in Range(g.backtrack) : b.ec \notin Range(g.roots)

\* One of the ends of the handler.
Ends(v, w, posted, hit, goal) ==
  Follows(v, w, goal) /\ (GivenUp(w) \/ Backtracked(w, posted) \/ Jumped(v, w, posted, hit))

LEMMA BacktrackOrGiveUpIs ==
  ASSUME NEW v, NEW g, NEW hit, NEW goal, NEW posted \in {{}, {"GOAL"}},
         Follows(v, g, goal), g.leaves = <<>>, BacktrackOrGiveUp(g, posted)
  PROVE  Ends(v, g, posted, hit, goal)
<1>1. CASE g.backtrack = <<>>
  BY <1>1 DEF BacktrackOrGiveUp, GiveUp, GivenUp, Ends
<1>2. CASE g.backtrack # <<>>
  BY <1>2 DEF BacktrackOrGiveUp, Backtracked, Ends
<1> QED
  BY <1>1, <1>2

LEMMA TryIs ==
  ASSUME NEW v, NEW g, NEW hit, NEW goal, NEW posted \in {{}, {"GOAL"}},
         Follows(v, g, goal), Rooted(v, g, hit), g.leaves = <<>>, Try(g, posted)
  PROVE  \E w : Ends(v, w, posted, hit, goal)
<1> DEFINE t == [g EXCEPT !.trials = @ + 1]
<1>1. g \in Members
  BY DEF Follows
<1>2. g.trials + 1 \in Nat
  BY <1>1 DEF Members
<1>3. t \in Members
  BY <1>1, <1>2, MembersWith
<1>4. /\ t.roots = g.roots /\ t.backtrack = g.backtrack /\ t.covered = g.covered /\ t.most = g.most
      /\ t.best = g.best /\ t.height = g.height
      /\ t.selected = g.selected /\ t.bits = g.bits
      /\ t.buffer = g.buffer /\ t.leaves = g.leaves /\ t.positive = g.positive
  BY <1>1 DEF Members
<1>5. \/ GiveUp(t, posted)
      \/ BacktrackOrGiveUp(t, posted)
      \/ /\ t.roots # <<>>
         /\ hoj' = [t EXCEPT !.height = @ + config.delta, !.stopped = TRUE]
         /\ ready' = t.roots /\ requested' = posted \cup {"CONTINUE"} /\ waiting' = waiting
  BY DEF Try
<1> HIDE DEF t
<1>6. Follows(v, t, goal)
  BY <1>3, <1>4 DEF Follows
<1>7. CASE GiveUp(t, posted)
  BY <1>6, <1>7 DEF GiveUp, GivenUp, Ends
<1>8. CASE BacktrackOrGiveUp(t, posted)
  BY <1>4, <1>6, <1>8, BacktrackOrGiveUpIs
<1>9. CASE /\ t.roots # <<>>
           /\ hoj' = [t EXCEPT !.height = @ + config.delta, !.stopped = TRUE]
           /\ ready' = t.roots /\ requested' = posted \cup {"CONTINUE"} /\ waiting' = waiting
  <2>1. Jumped(v, t, posted, hit)
    BY <1>4, <1>9 DEF Jumped, Rooted
  <2> QED
    BY <1>6, <2>1 DEF Ends
<1> QED
  BY <1>5, <1>7, <1>8, <1>9

LEMMA ClearedIs ==
  ASSUME NEW g \in Members
  PROVE  /\ Cleared(g) \in Members
         /\ Cleared(g) = [g EXCEPT !.black = Cleared(g).black, !.absolute = Cleared(g).absolute]
<1> DEFINE f == [g EXCEPT !.black = <<>>]
           k == [f EXCEPT !.absolute = <<>>]
           c == Cleared(g)
<1>1. <<>> \in Seq(Contexts)
  OBVIOUS
<1>2. f \in Members /\ k \in Members
  BY <1>1, MembersWith
<1>3. c = k \/ c = g
  BY DEF Cleared
<1>4. k = [g EXCEPT !.black = k.black, !.absolute = k.absolute]
  BY DEF Members
<1>5. g = [g EXCEPT !.black = g.black, !.absolute = g.absolute]
  BY DEF Members
<1> HIDE DEF c, k
<1>6. c \in Members /\ c = [g EXCEPT !.black = c.black, !.absolute = c.absolute]
  BY <1>2, <1>3, <1>4, <1>5
<1> QED
  BY <1>6 DEF c

LEMMA SliceAroundIs ==
  ASSUME TypeInv, NEW roots, SliceAround(roots)
  PROVE  gone' \in SUBSET Contexts /\ pc' \in {"run", "crashed"}
  BY DEF SliceAround, Sliced, Children, Below, TypeInv

LEMMA JumpIs ==
  ASSUME TypeInv, NEW v \in Members, NEW hit \in BOOLEAN, NEW posted \in {{}, {"GOAL"}},
         hit /\ ~ config.ordered => Len(v.leaves) <= Len(v.best), Jump(v, hit, posted)
  PROVE  /\ \E w : Ends(v, w, posted, hit, FALSE)
         /\ gone' \in SUBSET Contexts /\ pc' \in {"run", "crashed"}
<1>1. \/ \E s \in Selections(v, hit) : SliceAround(s.roots) /\ Try(Cleared(s), posted)
      \/ /\ v.leaves = <<>> /\ v.backtrack # <<>>
         /\ SliceAround(v.roots) /\ Backtrack(Cleared(v), posted)
      \/ /\ v.leaves = <<>>
         /\ SliceAround(v.roots) /\ Try([Cleared(v) EXCEPT !.stopped = TRUE, !.roots = <<>>], posted)
  BY DEF Jump
<1>2. CASE \E s \in Selections(v, hit) : SliceAround(s.roots) /\ Try(Cleared(s), posted)
  <2>1. PICK s \in Selections(v, hit) : SliceAround(s.roots) /\ Try(Cleared(s), posted)
    BY <1>2
  <2>2. Chosen(v, s, hit)
    BY SelectionsAre DEF TypeInv
  <2>3. s \in Members
    BY <2>2 DEF Chosen, Follows
  <2> DEFINE g == Cleared(s)
  <2>4. g \in Members /\ g = [s EXCEPT !.black = g.black, !.absolute = g.absolute]
    BY <2>3, ClearedIs
  <2> HIDE DEF g
  <2>5. /\ g.roots = s.roots /\ g.backtrack = s.backtrack /\ g.covered = s.covered /\ g.most = s.most
        /\ g.best = s.best /\ g.height = s.height
        /\ g.selected = s.selected /\ g.bits = s.bits
        /\ g.buffer = s.buffer /\ g.leaves = s.leaves /\ g.positive = s.positive
    BY <2>3, <2>4 DEF Members
  <2>6. Follows(v, g, FALSE)
    BY <2>2, <2>4, <2>5 DEF Chosen, Follows
  <2>7. Rooted(v, g, hit)
    BY <2>2, <2>5 DEF Chosen, Rooted
  <2>9. g.leaves = <<>>
    BY <2>2, <2>5 DEF Chosen
  <2>10. Try(g, posted)
    BY <2>1 DEF g
  <2>8. \E w : Ends(v, w, posted, hit, FALSE)
    BY <2>6, <2>7, <2>9, <2>10, TryIs
  <2> QED
    BY <2>1, <2>8, SliceAroundIs
<1> DEFINE g == Cleared(v)
<1>3. g \in Members /\ g = [v EXCEPT !.black = g.black, !.absolute = g.absolute]
  BY ClearedIs
<1>4. Follows(v, v, FALSE)
  BY Follow
<1> HIDE DEF g
<1>5. /\ g.roots = v.roots /\ g.backtrack = v.backtrack /\ g.covered = v.covered /\ g.most = v.most
      /\ g.best = v.best /\ g.height = v.height
      /\ g.selected = v.selected /\ g.bits = v.bits
      /\ g.buffer = v.buffer /\ g.leaves = v.leaves /\ g.positive = v.positive
  BY <1>3 DEF Members
<1>6. Follows(v, g, FALSE)
  BY <1>3, <1>4, <1>5 DEF Follows
<1>7. CASE /\ v.leaves = <<>> /\ v.backtrack # <<>>
           /\ SliceAround(v.roots) /\ Backtrack(Cleared(v), posted)
  <2>1. Backtracked(g, posted)
    BY <1>5, <1>7 DEF Backtracked, g
  <2>2. Ends(v, g, posted, hit, FALSE)
    BY <1>6, <2>1 DEF Ends
  <2> QED
    BY <1>7, <2>2, SliceAroundIs
<1>8. CASE /\ v.leaves = <<>>
           /\ SliceAround(v.roots) /\ Try([Cleared(v) EXCEPT !.stopped = TRUE, !.roots = <<>>], posted)
  <2> DEFINE f == [g EXCEPT !.stopped = TRUE]
             k == [f EXCEPT !.roots = <<>>]
  <2>1. f \in Members
    BY <1>3, MembersWith
  <2>9. <<>> \in Seq(Contexts)
    OBVIOUS
  <2> HIDE DEF f
  <2>2. k \in Members
    BY <2>1, <2>9, MembersWith
  <2>3. /\ k.roots = <<>> /\ k.backtrack = g.backtrack /\ k.covered = g.covered /\ k.most = g.most
        /\ k.best = g.best /\ k.height = g.height
        /\ k.selected = g.selected /\ k.bits = g.bits
        /\ k.buffer = g.buffer /\ k.leaves = g.leaves /\ k.positive = g.positive
    BY <1>3 DEF Members, f
  <2>4. k = [Cleared(v) EXCEPT !.stopped = TRUE, !.roots = <<>>]
    BY DEF f, g
  <2> HIDE DEF k
  <2>5. Follows(v, k, FALSE)
    BY <1>6, <2>2, <2>3 DEF Follows
  <2>6. Rooted(v, k, hit)
    BY <2>3 DEF Rooted
  <2>10. k.leaves = <<>>
    BY <1>5, <1>8, <2>3
  <2>11. Try(k, posted)
    BY <1>8, <2>4
  <2>7. \E w : Ends(v, w, posted, hit, FALSE)
    BY <2>5, <2>6, <2>10, <2>11, TryIs
  <2> QED
    BY <1>8, <2>7, SliceAroundIs
<1> QED
  BY <1>1, <1>2, <1>7, <1>8 DEF g

\* What follows, follows what came before.
LEMMA FollowsOn ==
  ASSUME NEW v \in Members, NEW f, NEW w, NEW goal, Follows(v, f, goal), Follows(f, w, FALSE)
  PROVE  Follows(v, w, goal)
<1>1. /\ v.positive \in Seq(Contexts) /\ v.leaves \in Seq(Contexts) /\ v.backtrack \in Seq(Entries)
      /\ f \in Members /\ w \in Members
  BY DEF Members, Follows
<1>2. f.positive \in Seq(Range(v.positive) \cup Range(v.leaves)) /\ f.backtrack \in Seq(Range(v.backtrack))
      /\ w.backtrack \in Seq(Range(f.backtrack)) /\ w.positive = f.positive
  BY DEF Follows
<1>3. Range(f.backtrack) \subseteq Range(v.backtrack)
  BY <1>2, RangeOf
<1>4. Range(w.backtrack) \subseteq Range(v.backtrack)
  BY <1>2, <1>3, RangeOf
<1>5. w.backtrack \in Seq(Range(v.backtrack))
  BY <1>2, <1>4, OwnRange
<1>6. /\ f.selected \in Seq(Range(v.selected) \cup Range(v.best)) /\ f.best = v.best
      /\ w.selected \in Seq(Range(f.selected) \cup Range(f.best))
  BY DEF Follows
<1>7. Range(f.selected) \subseteq Range(v.selected) \cup Range(v.best)
  BY <1>6, RangeOf
<1>8. Range(w.selected) \subseteq Range(v.selected) \cup Range(v.best)
  BY <1>6, <1>7, RangeOf
<1>9. w.selected \in Seq(Range(v.selected) \cup Range(v.best))
  BY <1>6, <1>8, OwnRange
<1> QED
  BY <1>1, <1>2, <1>5, <1>9 DEF Follows

LEMMA SeqOfNothing ==
  /\ Seq({}) = {<<>>} /\ Range(<<>>) = {}
  /\ \A T : \A s \in Seq(T) : Range(s) = {} => s = <<>>
<1>1. \A s \in Seq({}) : s = <<>>
  <2> SUFFICES ASSUME NEW s \in Seq({}) PROVE s = <<>>
    OBVIOUS
  <2>1. Len(s) \in Nat /\ \A i \in 1 .. Len(s) : s[i] \in {}
    BY LenProperties
  <2>2. Len(s) = 0
    BY <2>1
  <2> QED
    BY <2>2
<1>2. Range(<<>>) = {}
  BY DEF Range
<1>3. \A T : \A s \in Seq(T) : Range(s) = {} => s = <<>>
  <2> TAKE T
  <2> TAKE s \in Seq(T)
  <2> HAVE Range(s) = {}
  <2>1. s \in Seq({})
    BY OwnRange
  <2> QED
    BY <1>1, <2>1
<1>4. Seq({}) = {<<>>}
  <2>1. <<>> \in Seq({})
    OBVIOUS
  <2> QED
    BY <1>1, <2>1
<1> QED
  BY <1>2, <1>3, <1>4

LEMMA FinalSelectionsAre ==
  ASSUME config \in Configs, NEW v \in Members, NEW f \in FinalSelections(v)
  PROVE  Follows(v, f, TRUE) /\ f.leaves = <<>> /\ f.roots = <<>>
<1> DEFINE chosen(pick) == [ i \in DOMAIN pick |-> v.leaves[pick[i]] ]
           e == [v EXCEPT !.leaves = <<>>]
           r == [e EXCEPT !.roots = <<>>]
<1>1. PICK pick \in Picks(HitCount, Len(v.leaves)) : f = [r EXCEPT !.positive = @ \o chosen(pick)]
  BY DEF FinalSelections
<1>2. v.leaves \in Seq(Contexts) /\ v.positive \in Seq(Contexts) /\ Len(v.leaves) \in Nat
  <2>1. v.leaves \in Seq(Contexts) /\ v.positive \in Seq(Contexts)
    BY DEF Members
  <2> QED
    BY <2>1, LenProperties
<1>3. HitCount \in Nat
  <2>1. IsFiniteSet(Contexts) /\ Cardinality(Contexts) \in Nat /\ config.hitCount \in Nat
    BY GraphFacts, GoodConfig, UpTo
  <2> QED
    BY <2>1 DEF HitCount
<1>4. pick \in Seq(1 .. Len(v.leaves)) /\ IsInjective(pick)
  BY <1>2, <1>3, PicksAre
<1>5. chosen(pick) \in Seq(Contexts) /\ chosen(pick) \in Seq(Range(v.leaves))
  BY <1>2, <1>4, Picked
<1> HIDE DEF chosen
<1>6. <<>> \in Seq(Contexts)
  OBVIOUS
<1>7. r \in Members
  BY <1>6, MembersWith
<1>8. /\ r.positive = v.positive /\ r.roots = <<>> /\ r.leaves = <<>> /\ r.backtrack = v.backtrack
      /\ r.covered = v.covered /\ r.most = v.most /\ r.best = v.best /\ r.height = v.height
      /\ r.selected = v.selected /\ r.bits = v.bits
      /\ r.buffer = v.buffer
  BY DEF Members
<1> HIDE DEF r
<1> DEFINE p == v.positive \o chosen(pick)
<1>9. p \in Seq(Contexts) /\ Range(p) = Range(v.positive) \cup Range(chosen(pick))
  BY <1>2, <1>5, ConcatProperties, RangeOf
<1>10. Range(chosen(pick)) \subseteq Range(v.leaves)
  BY <1>5, RangeOf
<1>11. p \in Seq(Range(v.positive) \cup Range(v.leaves))
  BY <1>9, <1>10, OwnRange
<1>12. f = [r EXCEPT !.positive = p]
  BY <1>1, <1>8
<1> HIDE DEF p
<1>13. f \in Members
  BY <1>7, <1>9, <1>12, MembersWith
<1>14. /\ f.positive = p /\ f.roots = <<>> /\ f.leaves = <<>> /\ f.backtrack = v.backtrack
       /\ f.covered = v.covered /\ f.most = v.most /\ f.best = v.best /\ f.height = v.height
       /\ f.selected = v.selected /\ f.bits = v.bits
       /\ f.buffer = v.buffer
  BY <1>7, <1>8, <1>12 DEF Members
<1>15. Follows(v, v, FALSE)
  BY Follow
<1> QED
  BY <1>11, <1>13, <1>14, <1>15 DEF Follows

LEMMA EndsOn ==
  ASSUME NEW v \in Members, NEW f, NEW w, NEW goal, NEW hit, hit, NEW posted,
         Follows(v, f, goal), Ends(f, w, posted, hit, FALSE)
  PROVE  /\ Follows(v, w, goal)
         /\ GivenUp(w) \/ Backtracked(w, posted) \/ (f.leaves = v.leaves /\ Jumped(v, w, posted, hit))
<1>1. Follows(v, w, goal)
  BY FollowsOn DEF Ends
<1>2. ASSUME Jumped(f, w, posted, hit) PROVE f.leaves = v.leaves /\ Jumped(v, w, posted, hit)
  <2>1. w.roots # <<>> /\ w.roots \in Seq(Range(f.leaves))
    BY <1>2 DEF Jumped
  <2>2. f.leaves # <<>>
    <3>1. Range(<<>>) = {} /\ Seq({}) = {<<>>}
      BY SeqOfNothing
    <3> QED
      BY <2>1, <3>1
  <2>3. f.leaves = v.leaves /\ f.best = v.best
    BY <2>2 DEF Follows
  <2> QED
    BY <1>2, <2>3 DEF Jumped
<1> QED
  BY <1>1, <1>2 DEF Ends

\* Once the goal is achieved, a search without leaves is given up.
LEMMA GoalGivesUp ==
  ASSUME NEW f \in Members, f.goal, f.leaves = <<>>, Jump(f, TRUE, {"GOAL"})
  PROVE  requested' = {"GOAL"}
<1> DEFINE c == Cleared(f)
           k1 == [c EXCEPT !.stopped = TRUE]
           k == [k1 EXCEPT !.roots = <<>>]
           t == [k EXCEPT !.trials = @ + 1]
<1>1. Try(k, {"GOAL"})
  BY DEF Jump
<1>2. c \in Members
  BY ClearedIs
<1> HIDE DEF c
<1>3. k1 \in Members /\ k1.stopped = TRUE
  <2>1. k1 \in Members
    BY <1>2, MembersWith
  <2>2. k1.stopped = TRUE
    BY <1>2 DEF Members
  <2> QED
    BY <2>1, <2>2
<1> HIDE DEF k1
<1>4. <<>> \in Seq(Contexts)
  OBVIOUS
<1>5. k \in Members /\ k.stopped = TRUE
  <2>1. k \in Members
    BY <1>3, <1>4, MembersWith
  <2>2. k.stopped = k1.stopped
    BY <1>3 DEF Members
  <2> QED
    BY <1>3, <2>1, <2>2
<1> HIDE DEF k
<1>6. t.stopped = TRUE
  BY <1>5 DEF Members
<1>7. requested' = {"GOAL"} \cup {"GOAL"}
  BY <1>1, <1>6 DEF Try, GiveUp
<1> QED
  BY <1>7

LEMMA FoundIs ==
  ASSUME TypeInv, NEW v \in Members, ~ config.ordered => Len(v.leaves) <= Len(v.best),
         Achieved(v), v.goal, Found(v, {})
  PROVE  Outcome(v, TRUE) /\ gone' \in SUBSET Contexts /\ pc' \in {"run", "crashed"}
<1>1. PICK f \in IF config.final \/ config.max
                 THEN { Cleared(s) : s \in FinalSelections(v) } ELSE {v} :
        \/ config.max /\ f.backtrack # <<>> /\ Backtrack(f, {}) /\ Stays
        \/ config.stop /\ GiveUp(f, {}) /\ Stays
        \/ ~ config.stop /\ Jump(f, TRUE, {"GOAL"})
  BY DEF Found
<1>2. /\ Follows(v, f, TRUE) /\ (config.final \/ config.max => f.leaves = <<>>)
      /\ f.leaves = <<>> \/ f = v
  <2>1. CASE ~ (config.final \/ config.max)
    <3>1. f = v
      BY <1>1, <2>1
    <3> QED
      BY <2>1, <3>1, Follow
  <2>2. CASE config.final \/ config.max
    <3>1. PICK s \in FinalSelections(v) : f = Cleared(s)
      BY <1>1, <2>2
    <3>2. Follows(v, s, TRUE) /\ s.leaves = <<>> /\ s.roots = <<>>
      BY FinalSelectionsAre DEF TypeInv
    <3>3. s \in Members
      BY <3>2 DEF Follows
    <3>4. f \in Members /\ f = [s EXCEPT !.black = f.black, !.absolute = f.absolute]
      BY <3>1, <3>3, ClearedIs
    <3>5. /\ f.roots = s.roots /\ f.backtrack = s.backtrack /\ f.covered = s.covered /\ f.most = s.most
          /\ f.best = s.best /\ f.height = s.height
          /\ f.selected = s.selected /\ f.bits = s.bits
          /\ f.buffer = s.buffer /\ f.leaves = s.leaves /\ f.positive = s.positive
      BY <3>3, <3>4 DEF Members
    <3> QED
      BY <3>2, <3>4, <3>5 DEF Follows
  <2> QED
    BY <2>1, <2>2
<1>3. f \in Members /\ f.best = v.best
  BY <1>2 DEF Follows
<1>7. f.goal
  <2>1. CASE ~ (config.final \/ config.max)
    BY <1>1, <2>1
  <2>2. CASE config.final \/ config.max
    <3>1. PICK s \in FinalSelections(v) : f = Cleared(s)
      BY <1>1, <2>2
    <3>2. s.goal = v.goal
      BY DEF FinalSelections, Members
    <3>3. s \in Members
      BY FinalSelectionsAre DEF TypeInv, Follows
    <3>4. f = [s EXCEPT !.black = f.black, !.absolute = f.absolute]
      BY <3>1, <3>3, ClearedIs
    <3>5. f.goal = s.goal
      BY <3>3, <3>4 DEF Members
    <3> QED
      BY <3>2, <3>5
  <2> QED
    BY <2>1, <2>2
<1>4. CASE config.max /\ f.backtrack # <<>> /\ Backtrack(f, {}) /\ Stays
  <2>1. Backtracked(f, {})
    BY <1>2, <1>4 DEF Backtracked
  <2>2. Outcome(v, TRUE)
    BY <1>2, <2>1 DEF Outcome
  <2> QED
    BY <1>4, <2>2 DEF Stays, TypeInv
<1>5. CASE config.stop /\ GiveUp(f, {}) /\ Stays
  <2>1. GivenUp(f)
    BY <1>5 DEF GivenUp, GiveUp
  <2>2. requested' = {"GOAL"}
    BY <2>1 DEF GivenUp
  <2>3. Outcome(v, TRUE)
    BY <1>2, <2>1, <2>2 DEF Outcome
  <2> QED
    BY <1>5, <2>3 DEF Stays, TypeInv
<1>6. CASE ~ config.stop /\ Jump(f, TRUE, {"GOAL"})
  <2>1. ~ config.ordered => Len(f.leaves) <= Len(f.best)
    <3>1. Len(<<>>) = 0 /\ Len(v.best) \in Nat
      <4>1. v.best \in Seq(Entries)
        BY DEF Members
      <4> QED
        BY <4>1, LenProperties
    <3> QED
      BY <1>2, <1>3, <3>1
  <2>2. PICK w : Ends(f, w, {"GOAL"}, TRUE, FALSE)
    BY <1>3, <1>6, <2>1, JumpIs
  <2>3. gone' \in SUBSET Contexts /\ pc' \in {"run", "crashed"}
    BY <1>3, <1>6, <2>1, JumpIs
  <2>4. /\ Follows(v, w, TRUE)
        /\ \/ GivenUp(w) \/ Backtracked(w, {"GOAL"})
           \/ f.leaves = v.leaves /\ Jumped(v, w, {"GOAL"}, TRUE)
    BY <1>2, <2>2, EndsOn
  <2>5. ASSUME Jumped(v, w, {"GOAL"}, TRUE), f.leaves = v.leaves PROVE ~ config.final /\ ~ config.max
    <3>1. Range(<<>>) = {} /\ Seq({}) = {<<>>}
      BY SeqOfNothing
    <3> QED
      BY <1>2, <2>5, <3>1 DEF Jumped
  <2>6. GivenUp(w) => requested' = {"GOAL"}
    BY DEF GivenUp
  <2>8. config.final \/ config.max => w.leaves = <<>>
    BY <1>2, <2>2 DEF Ends, Follows
  <2>9. ASSUME Backtracked(w, {"GOAL"}) PROVE ~ config.final /\ ~ config.max
    <3>1. requested' # {"GOAL"}
      BY <2>9 DEF Backtracked, Backtrack
    <3>2. f.leaves # <<>>
      BY <1>3, <1>6, <1>7, <3>1, GoalGivesUp
    <3> QED
      BY <1>2, <3>2
  <2>7. Outcome(v, TRUE)
    BY <1>6, <2>4, <2>5, <2>6, <2>8, <2>9 DEF Outcome
  <2> QED
    BY <2>3, <2>7
<1> QED
  BY <1>1, <1>4, <1>5, <1>6

LEMMA AnsweredIs ==
  ASSUME TypeInv, NEW v \in Members, NEW hit \in BOOLEAN,
         hit /\ ~ config.ordered => Len(v.leaves) <= Len(v.best), Answered(v, hit)
  PROVE  Outcome(v, hit) /\ gone' \in SUBSET Contexts /\ pc' \in {"run", "crashed"}
<1>1. CASE hit /\ Achieved(v) /\ Found([v EXCEPT !.goal = TRUE], {})
  <2> DEFINE g == [v EXCEPT !.goal = TRUE]
  <2>1. g \in Members
    BY MembersWith
  <2>2. /\ g.roots = v.roots /\ g.backtrack = v.backtrack /\ g.covered = v.covered /\ g.most = v.most
        /\ g.best = v.best /\ g.height = v.height
        /\ g.selected = v.selected /\ g.bits = v.bits
        /\ g.buffer = v.buffer /\ g.leaves = v.leaves /\ g.positive = v.positive /\ g.goal
    BY DEF Members
  <2>3. Found(g, {})
    BY <1>1
  <2> HIDE DEF g
  <2>4. Outcome(g, TRUE) /\ gone' \in SUBSET Contexts /\ pc' \in {"run", "crashed"}
    BY <1>1, <2>1, <2>2, <2>3, FoundIs DEF Achieved
  <2>5. ASSUME NEW w, NEW posted
        PROVE  /\ Follows(g, w, TRUE) <=> Follows(v, w, TRUE)
               /\ Jumped(g, w, posted, TRUE) <=> Jumped(v, w, posted, TRUE)
    BY <2>2 DEF Follows, Jumped
  <2>6. Outcome(v, TRUE)
    BY <1>1, <2>2, <2>4, <2>5 DEF Outcome, Achieved
  <2> QED
    BY <1>1, <2>4, <2>6
<1>2. ASSUME Jump(v, hit, {}), ~ (hit /\ Achieved(v))
      PROVE  Outcome(v, hit) /\ gone' \in SUBSET Contexts /\ pc' \in {"run", "crashed"}
  <2>1. PICK w : Ends(v, w, {}, hit, FALSE)
    BY <1>2, JumpIs
  <2>2. gone' \in SUBSET Contexts /\ pc' \in {"run", "crashed"}
    BY <1>2, JumpIs
  <2>3. Follows(v, w, hit /\ Achieved(v))
    BY <1>2, <2>1 DEF Ends, Follows
  <2>4. Outcome(v, hit)
    BY <1>2, <2>1, <2>3 DEF Ends, Outcome
  <2> QED
    BY <2>2, <2>4
<1>3. CASE ~ hit /\ GiveUp(v, {}) /\ Stays
  <2>1. GivenUp(v)
    BY <1>3 DEF GivenUp, GiveUp
  <2>2. Follows(v, v, hit /\ Achieved(v))
    BY Follow, <1>3 DEF Follows
  <2>3. Outcome(v, hit)
    BY <1>3, <2>1, <2>2 DEF Outcome
  <2> QED
    BY <1>3, <2>3 DEF Stays, TypeInv
<1>4. \/ hit /\ Achieved(v) /\ Found([v EXCEPT !.goal = TRUE], {})
      \/ Jump(v, hit, {}) /\ ~ (hit /\ Achieved(v))
      \/ ~ hit /\ GiveUp(v, {}) /\ Stays
  <2>1. (hit /\ ~ Achieved(v)) => hit = TRUE
    OBVIOUS
  <2>2. ~ hit => hit = FALSE
    OBVIOUS
  <2> QED
    BY <2>1, <2>2 DEF Answered
<1> QED
  BY <1>1, <1>2, <1>3, <1>4

-----------------------------------------------------------------------------
(* Every step keeps what the members hold. *)

\* Neither a jump nor a step of the traversal changes the configuration.
LEMMA SameConfig ==
  ASSUME UNCHANGED config
  PROVE  /\ Contexts' = Contexts /\ Points' = Points /\ Members' = Members /\ Entries' = Entries
         /\ TaskSet' = TaskSet
  BY DEF Contexts, Points, Members, Entries, TaskSet

LEMMA LastFront ==
  ASSUME NEW T, NEW s \in Seq(T), s # <<>>
  PROVE  /\ Last(s) \in T /\ Last(s) \in Range(s) /\ Front(s) \in Seq(T)
         /\ Range(Front(s)) \subseteq Range(s)
         /\ Len(s) \in Nat /\ Len(s) > 0 /\ Len(Front(s)) = Len(s) - 1
         /\ \A i \in 1 .. Len(s) - 1 : Front(s)[i] = s[i]
         /\ Last(s) = s[Len(s)] /\ DOMAIN s = 1 .. Len(s)
<1>1. Len(s) \in Nat /\ Len(s) > 0 /\ DOMAIN s = 1 .. Len(s)
  BY LenProperties
<1>2. Last(s) = s[Len(s)] /\ Front(s) = SubSeq(s, 1, Len(s) - 1)
  BY DEF Last, Front
<1>3. Last(s) \in T /\ Last(s) \in Range(s)
  BY <1>1, <1>2 DEF Range
<1>4. Front(s) \in Seq(T) /\ Len(Front(s)) = Len(s) - 1 /\ \A i \in 1 .. Len(s) - 1 : Front(s)[i] = s[i]
  BY <1>1, <1>2
<1>5. Range(Front(s)) \subseteq Range(s)
  <2>1. DOMAIN Front(s) = 1 .. Len(s) - 1
    BY <1>4, LenProperties
  <2> QED
    BY <1>1, <1>4, <2>1 DEF Range
<1> QED
  BY <1>1, <1>2, <1>3, <1>4, <1>5

\* What hojBacktrack leaves.
LEMMA BacktrackedIs ==
  ASSUME TypeInv, NEW w \in Members, NEW posted, Backtracked(w, posted)
  PROVE  LET b == Last(w.backtrack)
         IN /\ b \in Entries /\ b \in Range(w.backtrack)
            /\ hoj' \in Members
            /\ hoj'.backtrack = Front(w.backtrack) /\ hoj'.roots = <<b.ec>>
            /\ hoj'.covered = b.covered /\ hoj'.height = Height(b.ec) + config.delta
            /\ hoj'.leaves = w.leaves /\ hoj'.best = w.best /\ hoj'.most = w.most
            /\ hoj'.selected = w.selected /\ hoj'.bits = b.bits
            /\ hoj'.buffer = w.buffer /\ hoj'.positive = w.positive
            /\ waiting' = {b.ec} /\ requested' = posted \cup {"CONTINUE"} /\ ready' = ready
<1> DEFINE b == Last(w.backtrack)
<1>1. w.backtrack \in Seq(Entries) /\ w.backtrack # <<>>
  BY DEF Members, Backtracked
<1>2. b \in Entries /\ b \in Range(w.backtrack) /\ Front(w.backtrack) \in Seq(Entries)
  BY <1>1, LastFront
<1> HIDE DEF b
<1>3. b.ec \in Contexts /\ b.covered \in Nat /\ b.bits \in SUBSET Nat
  BY <1>2 DEF Entries
<1>4. Height(b.ec) + config.delta \in Int
  <2>1. Height(b.ec) \in Nat /\ config.delta \in Nat
    BY <1>3, HeightFacts, GoodConfig DEF TypeInv
  <2> QED
    BY <2>1
<1>5. <<b.ec>> \in Seq(Contexts)
  BY <1>3
<1> DEFINE f1 == [w EXCEPT !.backtrack = Front(w.backtrack)]
           f2 == [f1 EXCEPT !.roots = <<b.ec>>]
           f3 == [f2 EXCEPT !.covered = b.covered]
           f4 == [f3 EXCEPT !.bits = b.bits]
           f5 == [f4 EXCEPT !.height = Height(b.ec) + config.delta]
           f6 == [f5 EXCEPT !.stopped = TRUE]
<1>6. hoj' = f6
  BY DEF Backtracked, Backtrack, b
<1>7. f1 \in Members
  BY <1>2, MembersWith
<1>8. f2 \in Members
  BY <1>5, <1>7, MembersWith
<1>9. f3 \in Members
  BY <1>3, <1>8, MembersWith
<1>10. f4 \in Members
  BY <1>3, <1>9, MembersWith
<1>11. f5 \in Members
  BY <1>4, <1>10, MembersWith
<1>12. f6 \in Members
  BY <1>11, MembersWith
<1>13. /\ f6.backtrack = Front(w.backtrack) /\ f6.roots = <<b.ec>>
       /\ f6.covered = b.covered /\ f6.height = Height(b.ec) + config.delta
       /\ f6.leaves = w.leaves /\ f6.best = w.best /\ f6.most = w.most
       /\ f6.selected = w.selected /\ f6.bits = b.bits
       /\ f6.buffer = w.buffer /\ f6.positive = w.positive
  BY DEF Members
<1>14. waiting' = {b.ec} /\ requested' = posted \cup {"CONTINUE"} /\ ready' = ready
  BY DEF Backtracked, Backtrack, b
<1> HIDE DEF f6
<1> QED
  BY <1>2, <1>6, <1>12, <1>13, <1>14 DEF b

LEMMA JumpedIs ==
  ASSUME TypeInv, NEW v \in Members, NEW w \in Members, NEW posted, NEW hit, Jumped(v, w, posted, hit)
  PROVE  /\ hoj' \in Members
         /\ hoj'.roots = w.roots /\ hoj'.backtrack = w.backtrack /\ hoj'.covered = w.covered
         /\ hoj'.height = w.height + config.delta /\ hoj'.leaves = w.leaves /\ hoj'.best = w.best
         /\ hoj'.selected = w.selected /\ hoj'.bits = w.bits
         /\ hoj'.most = w.most /\ hoj'.buffer = w.buffer /\ hoj'.positive = w.positive
<1> DEFINE f == [w EXCEPT !.height = @ + config.delta]
           g == [f EXCEPT !.stopped = TRUE]
<1>1. hoj' = g
  BY DEF Jumped
<1>2. config.delta \in Nat /\ w.height \in Int
  BY GoodConfig DEF TypeInv, Members
<1>3. f \in Members
  BY <1>2, MembersWith
<1>4. g \in Members
  BY <1>3, MembersWith
<1>5. /\ g.roots = w.roots /\ g.backtrack = w.backtrack /\ g.covered = w.covered
      /\ g.height = w.height + config.delta /\ g.leaves = w.leaves /\ g.best = w.best
      /\ g.selected = w.selected /\ g.bits = w.bits
      /\ g.most = w.most /\ g.buffer = w.buffer /\ g.positive = w.positive
  BY DEF Members
<1> QED
  BY <1>1, <1>4, <1>5

LEMMA OutcomeTyped ==
  ASSUME TypeInv, NEW v \in Members, NEW hit \in BOOLEAN, Outcome(v, hit),
         gone' \in SUBSET Contexts, pc' \in {"run", "crashed"},
         UNCHANGED <<config, open, limited, todo, saves>>
  PROVE  TypeInv'
<1>0. PICK posted \in {{}, {"GOAL"}} : \E w :
       /\ Follows(v, w, hit /\ Achieved(v))
       /\ GivenUp(w) \/ Backtracked(w, posted) \/ Jumped(v, w, posted, hit)
  BY DEF Outcome
<1>1. PICK w :
       /\ Follows(v, w, hit /\ Achieved(v))
       /\ GivenUp(w) \/ Backtracked(w, posted) \/ Jumped(v, w, posted, hit)
  BY <1>0
<1>2. w \in Members
  BY <1>1 DEF Follows
<1>3. ready \in Seq(Contexts) /\ waiting \in SUBSET Contexts
  BY DEF TypeInv
<1>4. hoj' \in Members /\ waiting' \in SUBSET Contexts /\ ready' \in Seq(Contexts)
      /\ requested' \in SUBSET {"CONTINUE", "GOAL", "STOP"} /\ requested' # {}
  <2>1. CASE GivenUp(w)
    BY <1>2, <1>3, <2>1 DEF GivenUp
  <2>2. CASE Backtracked(w, posted)
    <3> DEFINE b == Last(w.backtrack)
    <3>1. b \in Entries /\ hoj' \in Members /\ waiting' = {b.ec} /\ requested' = posted \cup {"CONTINUE"} /\ ready' = ready
      BY <1>2, <2>2, BacktrackedIs
    <3> HIDE DEF b
    <3>2. b.ec \in Contexts
      BY <3>1 DEF Entries
    <3> QED
      BY <1>1, <1>3, <3>1, <3>2
  <2>3. CASE Jumped(v, w, posted, hit)
    <3>1. hoj' \in Members
      BY <1>2, <2>3, JumpedIs
    <3>2. w.roots \in Seq(Contexts)
      BY <1>2 DEF Members
    <3> QED
      BY <1>1, <1>3, <2>3, <3>1, <3>2 DEF Jumped
  <2> QED
    BY <1>1, <2>1, <2>2, <2>3
<1> QED
  BY <1>4, SameConfig DEF TypeInv

LEMMA CoveringIs ==
  ASSUME NEW v \in Members
  PROVE  LET k == Covering(v)
         IN /\ k \in Members
            /\ v.most = 0 => k = v
            /\ v.most # 0 => /\ k.covered = v.covered + v.most /\ Len(k.leaves) = Len(v.best)
                             /\ k.leaves = [ i \in DOMAIN v.best |-> v.best[i].ec ]
            /\ k.roots = v.roots /\ k.backtrack = v.backtrack /\ k.most = v.most /\ k.best = v.best
            /\ k.selected = v.selected
            /\ k.height = v.height /\ k.buffer = v.buffer /\ k.positive = v.positive
<1> DEFINE n == v.covered + v.most
           bits == IF n = config.points THEN Points ELSE v.bits
           leaves == [ i \in DOMAIN v.best |-> v.best[i].ec ]
           k1 == [v EXCEPT !.covered = n]
           k2 == [k1 EXCEPT !.bits = bits]
           k3 == [k2 EXCEPT !.leaves = leaves]
<1>1. Covering(v) = IF v.most = 0 THEN v ELSE k3
  BY DEF Covering, Members
<1>2. v.best \in Seq(Entries) /\ v.covered \in Nat /\ v.most \in Nat /\ v.bits \in SUBSET Nat
  BY DEF Members
<1>3. bits \in SUBSET Nat
  BY <1>2 DEF Points
<1>4. leaves \in Seq(Contexts) /\ Len(leaves) = Len(v.best)
  <2>1. Len(v.best) \in Nat /\ DOMAIN v.best = 1 .. Len(v.best) /\ \A i \in 1 .. Len(v.best) : v.best[i] \in Entries
    BY <1>2, LenProperties
  <2>2. \A e \in Entries : e.ec \in Contexts
    BY DEF Entries
  <2> QED
    BY <2>1, <2>2
<1>5. n \in Nat
  BY <1>2
<1> HIDE DEF bits, leaves, n
<1>6. k1 \in Members
  BY <1>5, MembersWith
<1>7. k2 \in Members
  BY <1>3, <1>6, MembersWith
<1>8. k3 \in Members
  BY <1>4, <1>7, MembersWith
<1>9. /\ k3.covered = n /\ k3.leaves = leaves
      /\ k3.roots = v.roots /\ k3.backtrack = v.backtrack /\ k3.most = v.most /\ k3.best = v.best
      /\ k3.selected = v.selected
      /\ k3.height = v.height /\ k3.buffer = v.buffer /\ k3.positive = v.positive
  BY DEF Members
<1> HIDE DEF k3
<1>10. CASE v.most = 0
  BY <1>1, <1>10
<1>11. CASE v.most # 0
  BY <1>1, <1>4, <1>8, <1>9, <1>11 DEF n, leaves
<1> QED
  BY <1>10, <1>11

LEMMA StartedIs ==
  ASSUME NEW h \in Members
  PROVE  LET k == Started(h)
         IN /\ k \in Members /\ k.most = 0 /\ k.best = <<>>
            /\ k.roots = h.roots /\ k.backtrack = h.backtrack /\ k.covered = h.covered
            /\ k.selected = (IF FromTop(h) THEN h.selected ELSE <<>>) /\ k.bits = h.bits
            /\ k.height = h.height /\ k.buffer = h.buffer /\ k.positive = h.positive /\ k.leaves = h.leaves
<1> DEFINE s == IF FromTop(h) THEN h.selected ELSE <<>>
           k1 == [h EXCEPT !.most = 0]
           k2 == [k1 EXCEPT !.best = <<>>]
           k3 == [k2 EXCEPT !.selected = s]
<1>1. Started(h) = k3
  BY DEF Started, Members
<1>2. s \in Seq(Entries) /\ <<>> \in Seq(Entries) /\ 0 \in Nat
  BY DEF Members
<1> HIDE DEF s
<1>3. k1 \in Members
  BY <1>2, MembersWith
<1>4. k2 \in Members
  BY <1>2, <1>3, MembersWith
<1>5. k3 \in Members
  BY <1>2, <1>4, MembersWith
<1>6. /\ k3.most = 0 /\ k3.best = <<>>
      /\ k3.roots = h.roots /\ k3.backtrack = h.backtrack /\ k3.covered = h.covered
      /\ k3.selected = s /\ k3.bits = h.bits
      /\ k3.height = h.height /\ k3.buffer = h.buffer /\ k3.positive = h.positive /\ k3.leaves = h.leaves
  BY DEF Members
<1> HIDE DEF k3
<1> QED
  BY <1>1, <1>5, <1>6 DEF s

LEMMA TasksAre ==
  ASSUME TypeInv, hoj.roots # <<>>
  PROVE  Tasks(hoj) \in Seq(TaskSet)
<1>1. /\ hoj \in Members /\ hoj.roots \in Seq(Contexts) /\ hoj.bits \in SUBSET Nat /\ hoj.covered \in Nat
      /\ hoj.selected \in Seq(Entries)
  BY DEF TypeInv, Members
<1>2. Len(hoj.roots) \in Nat /\ DOMAIN hoj.roots = 1 .. Len(hoj.roots) /\ Len(hoj.roots) > 0
  BY <1>1, LenProperties
<1>3. CASE FromTop(hoj)
  <2>1. hoj.roots[1] \in Contexts
    BY <1>1, <1>2
  <2>2. Task({hoj.roots[1]}, hoj.bits, 0) \in TaskSet
    BY <1>1, <2>1 DEF Task, TaskSet
  <2> QED
    BY <1>3, <2>2 DEF Tasks
<1>4. CASE ~ FromTop(hoj)
  <2>1. ASSUME NEW i \in 1 .. Len(hoj.roots)
        PROVE  Task(Children(hoj.roots[i]), IF config.ordered THEN 1 .. hoj.covered ELSE BitsOf(hoj, hoj.roots[i]), 0) \in TaskSet
    <3>1. Children(hoj.roots[i]) \in SUBSET Contexts
      BY DEF Children
    <3>2. 1 .. hoj.covered \in SUBSET Nat
      BY <1>1
    <3>3. BitsOf(hoj, hoj.roots[i]) \in SUBSET Nat
      <4> DEFINE known == { j \in DOMAIN hoj.selected : hoj.selected[j].ec = hoj.roots[i] }
      <4>1. known \subseteq DOMAIN hoj.selected /\ known \subseteq Nat
        BY <1>1, LenProperties
      <4>2. BitsOf(hoj, hoj.roots[i]) = IF known = {} THEN hoj.bits ELSE hoj.selected[Min(known)].bits
        BY DEF BitsOf
      <4> HIDE DEF known
      <4>3. known # {} => Min(known) \in DOMAIN hoj.selected
        BY <4>1, MinIs
      <4>4. known # {} => hoj.selected[Min(known)] \in Entries
        BY <1>1, <4>3
      <4>5. known # {} => hoj.selected[Min(known)].bits \in SUBSET Nat
        BY <4>4 DEF Entries
      <4> QED
        BY <1>1, <4>2, <4>5
    <3> QED
      BY <3>1, <3>2, <3>3 DEF Task, TaskSet
  <2> QED
    BY <1>2, <1>4, <2>1 DEF Tasks
<1> QED
  BY <1>3, <1>4

Chooses(k, h, e, count) ==
  /\ count > h.most => k.most = count /\ k.best = <<e>>
  /\ ~ count > h.most => k.most = h.most /\ k.best = Append(h.best, e)
  /\ k.roots = h.roots /\ k.backtrack = h.backtrack /\ k.covered = h.covered
  /\ k.selected = h.selected /\ k.bits = h.bits
  /\ k.height = h.height /\ k.buffer = h.buffer /\ k.positive = h.positive /\ k.leaves = h.leaves

LEMMA CandidateIs ==
  ASSUME NEW h \in Members, NEW c \in Contexts, NEW done \in SUBSET Nat, NEW count \in Nat
  PROVE  /\ Candidate(h, c, done, count) \in Members /\ Entry(c, count, done) \in Entries
         /\ Chooses(Candidate(h, c, done, count), h, Entry(c, count, done), count)
<1> DEFINE e == Entry(c, count, done)
           k1 == [h EXCEPT !.most = count]
           k2 == [k1 EXCEPT !.best = <<e>>]
           k3 == [h EXCEPT !.best = Append(h.best, e)]
<1>1. e \in Entries
  BY DEF Entry, Entries
<1>2. Candidate(h, c, done, count) = IF count > h.most THEN k2 ELSE k3
  BY DEF Candidate, Better, Equal
<1> HIDE DEF e
<1>3. <<e>> \in Seq(Entries) /\ Append(h.best, e) \in Seq(Entries)
  BY <1>1, Appended
<1>4. k1 \in Members
  BY MembersWith
<1>5. k2 \in Members /\ k3 \in Members
  BY <1>3, <1>4, MembersWith
<1>6. /\ k2.most = count /\ k2.best = <<e>>
      /\ k2.roots = h.roots /\ k2.backtrack = h.backtrack /\ k2.covered = h.covered
      /\ k2.selected = h.selected /\ k2.bits = h.bits
      /\ k2.height = h.height /\ k2.buffer = h.buffer /\ k2.positive = h.positive /\ k2.leaves = h.leaves
  BY DEF Members
<1>7. /\ k3.most = h.most /\ k3.best = Append(h.best, e)
      /\ k3.roots = h.roots /\ k3.backtrack = h.backtrack /\ k3.covered = h.covered
      /\ k3.selected = h.selected /\ k3.bits = h.bits
      /\ k3.height = h.height /\ k3.buffer = h.buffer /\ k3.positive = h.positive /\ k3.leaves = h.leaves
  BY DEF Members
<1> HIDE DEF k2, k3
<1> QED
  BY <1>1, <1>2, <1>5, <1>6, <1>7 DEF e, Chooses

\* The kinds of steps of the traversal keep the types.
LEMMA VisitTyped ==
  ASSUME TypeInv, Visit
  PROVE  TypeInv'
<1>1. PICK g : Noted(hoj, g, Turn) /\ (Passed(g) \/ Descended(g) \/ Chose(g) \/ Kept(g))
  BY VisitIs
<1>2. g \in Members
  BY <1>1 DEF Noted
<1>3. /\ Turn \in Contexts /\ Now \in SUBSET Nat /\ Total \in Nat /\ Others \in Seq(TaskSet)
      /\ Children(Turn) \in SUBSET Contexts
  BY TurnIs DEF Visit
<1>4. hoj' \in Members /\ saves' \in Seq(Entries) /\ todo' \in Seq(TaskSet)
  <2>1. CASE Passed(g)
    BY <1>2, <1>3, <2>1 DEF Passed
  <2>2. CASE Descended(g)
    <3>1. Task(Children(Turn), Now, Total) \in TaskSet
      BY <1>3 DEF Task, TaskSet
    <3>2. <<Task(Children(Turn), Now, Total)>> \in Seq(TaskSet)
      BY <3>1
    <3>3. <<Task(Children(Turn), Now, Total)>> \o Others \in Seq(TaskSet)
      BY <1>3, <3>2, ConcatProperties
    <3> QED
      BY <1>2, <2>2, <3>3 DEF Descended
  <2>3. CASE Chose(g)
    <3>1. Candidate(g, Turn, Now, Total) \in Members
      BY <1>2, <1>3, CandidateIs
    <3>2. Replaced(g, Total) \in Seq(Entries)
      BY <1>2 DEF Replaced, Members
    <3> QED
      BY <1>3, <2>3, <3>1, <3>2 DEF Chose
  <2>4. CASE Kept(g)
    <3> DEFINE e == Saved(Turn, Now, Total, hoj)
    <3>1. e \in Entries
      <4>1. hoj \in Members
        BY DEF TypeInv
      <4> QED
        BY <1>3, <4>1, SavedIs
    <3> HIDE DEF e
    <3>2. Append(g.backtrack, e) \in Seq(Entries)
      BY <1>2, <1>3, <3>1, Appended
    <3>3. [g EXCEPT !.backtrack = Append(@, e)] \in Members
      BY <1>2, <3>2, MembersWith
    <3> QED
      BY <1>3, <2>4, <3>3 DEF Kept, e
  <2> QED
    BY <1>1, <2>1, <2>2, <2>3, <2>4
<1> QED
  BY <1>4, SameConfig DEF TypeInv, Visit, aroundVars

LEMMA SaveBestTyped ==
  ASSUME TypeInv, SaveBest
  PROVE  /\ TypeInv' /\ Head(saves) \in Entries
         /\ KeptOrNoted(hoj, hoj', Head(saves).ec,
                        Saved(Head(saves).ec, Head(saves).bits, Head(saves).covered, hoj))
<1> DEFINE b == Head(saves)
<1>1. saves \in Seq(Entries) /\ saves # <<>> /\ hoj \in Members
  BY DEF TypeInv, SaveBest
<1>2. b \in Entries /\ Tail(saves) \in Seq(Entries)
  BY <1>1
<1> HIDE DEF b
<1>3. b.ec \in Contexts /\ b.covered \in Nat /\ b.bits \in SUBSET Nat
  BY <1>2 DEF Entries
<1>4. hoj' = Save(hoj, b.ec, b.bits, b.covered)
  BY DEF SaveBest, b
<1>5. hoj' \in Members /\ KeptOrNoted(hoj, hoj', b.ec, Saved(b.ec, b.bits, b.covered, hoj))
  BY <1>1, <1>3, <1>4, SaveNotes
<1>6. TypeInv'
  BY <1>2, <1>5, SameConfig DEF TypeInv, SaveBest, aroundVars
<1> QED
  BY <1>2, <1>5, <1>6 DEF b

\* What a round around the unit does with the contexts of a batch.
Main(batch) == Range(batch) \ config.beyond
LostOf(batch) == { c \in Main(batch) : Lost(c) }
Evaluated(batch) == { c \in Main(batch) \ LostOf(batch) : Height(c) < hoj.height }
TooDeep(batch) == Those(batch, Main(batch) \ (LostOf(batch) \cup Evaluated(batch)))

Explored(batch) ==
  /\ batch \in Seq(Contexts) /\ pc = "run" /\ "STOP" \notin requested
  /\ \/ ready # <<>> /\ batch = ready
     \/ ready = <<>> /\ "GOAL" \notin requested /\ \E c \in waiting : batch = <<c>>
  /\ limited' = limited \cup (Range(batch) \cap config.beyond)
  /\ open' = open \cup Evaluated(batch)
  /\ pc' = IF Evaluated(batch) \cap open = {} /\ IsInjective(Those(batch, Evaluated(batch)))
           THEN "run" ELSE "again"
  /\ ready' = <<>>
  /\ waiting' = (waiting \ Range(batch)) \cup { d \in Contexts : config.parent[d] \in Evaluated(batch) }
  /\ hoj' \in Members
  /\ hoj' = [hoj EXCEPT !.stopped = hoj'.stopped, !.black = hoj'.black, !.leaves = hoj'.leaves]
  /\ hoj'.leaves = hoj.leaves \o TooDeep(batch)
  /\ TooDeep(batch) \in Seq(Contexts) /\ Range(TooDeep(batch)) \subseteq Range(batch)
  /\ Range(batch) \subseteq Contexts
  /\ UNCHANGED <<config, gone, requested, todo, saves>>

LEMMA ExploreIs ==
  ASSUME TypeInv, Explore
  PROVE  \E batch : Explored(batch)
<1>1. PICK batch \in IF ready # <<>> THEN {ready} ELSE { <<c>> : c \in waiting } :
        /\ limited' = limited \cup (Range(batch) \cap config.beyond)
        /\ hoj' = [hoj EXCEPT
                       !.stopped = @ /\ Main(batch) = {},
                       !.black = @ \o Those(batch, LostOf(batch)),
                       !.leaves = @ \o TooDeep(batch)]
        /\ pc' = IF Evaluated(batch) \cap open = {} /\ IsInjective(Those(batch, Evaluated(batch)))
           THEN "run" ELSE "again"
        /\ open' = open \cup Evaluated(batch)
        /\ ready' = <<>>
        /\ waiting' = (waiting \ Range(batch)) \cup { d \in Contexts : config.parent[d] \in Evaluated(batch) }
  BY Zenon DEF Explore, Main, LostOf, Evaluated, TooDeep
<1>2. /\ batch \in Seq(Contexts)
      /\ \/ ready # <<>> /\ batch = ready
         \/ ready = <<>> /\ "GOAL" \notin requested /\ \E c \in waiting : batch = <<c>>
  <2>1. ready \in Seq(Contexts) /\ waiting \subseteq Contexts
    BY DEF TypeInv
  <2>2. ready # <<>> \/ "GOAL" \notin requested
    BY Zenon DEF Explore
  <2>3. CASE ready # <<>>
    BY <1>1, <2>1, <2>3
  <2>4. CASE ready = <<>>
    <3>1. PICK c \in waiting : batch = <<c>>
      BY <1>1, <2>4
    <3>2. c \in Contexts
      BY <2>1
    <3>3. <<c>> \in Seq(Contexts)
      BY <3>2
    <3> QED
      BY <2>2, <2>4, <3>1, <3>3
  <2> QED
    BY <2>3, <2>4
<1>3. hoj \in Members /\ hoj.black \in Seq(Contexts) /\ hoj.leaves \in Seq(Contexts) /\ hoj.stopped \in BOOLEAN
  BY DEF TypeInv, Members
<1> DEFINE lost == Those(batch, LostOf(batch))
           deep == TooDeep(batch)
           s == hoj.stopped /\ Main(batch) = {}
           b == hoj.black \o lost
           l == hoj.leaves \o deep
           k1 == [hoj EXCEPT !.stopped = s]
           k2 == [k1 EXCEPT !.black = b]
           k3 == [k2 EXCEPT !.leaves = l]
<1>4. hoj' = k3
  BY <1>1
<1>5. lost \in Seq(Contexts) /\ deep \in Seq(Contexts) /\ Range(deep) \subseteq Range(batch)
  <2>1. \A S : /\ Those(batch, S) \in Seq(Contexts)
               /\ Range(Those(batch, S)) = Range(batch) \cap S
    BY <1>2, ThoseOwn
  <2> QED
    BY <2>1 DEF TooDeep
<1>6. Range(batch) \subseteq Contexts
  BY <1>2, RangeOf
<1> HIDE DEF lost, deep
<1>7. b \in Seq(Contexts) /\ l \in Seq(Contexts) /\ s \in BOOLEAN
  BY <1>3, <1>5, ConcatProperties
<1> HIDE DEF b, l, s
<1>8. k1 \in Members
  BY <1>3, <1>7, MembersWith
<1>9. k2 \in Members
  BY <1>7, <1>8, MembersWith
<1>10. k3 \in Members
  BY <1>7, <1>9, MembersWith
<1>11. k3 = [hoj EXCEPT !.stopped = k3.stopped, !.black = k3.black, !.leaves = k3.leaves] /\ k3.leaves = l
  BY <1>3 DEF Members
<1> HIDE DEF k3
<1>12. hoj'.leaves = hoj.leaves \o TooDeep(batch)
  BY <1>4, <1>11 DEF l, deep
<1> QED
  BY <1>1, <1>2, <1>4, <1>5, <1>6, <1>10, <1>11, <1>12 DEF Explored, Explore, deep

LEMMA ExploreTyped ==
  ASSUME TypeInv, Explore
  PROVE  TypeInv'
<1>1. PICK batch : Explored(batch)
  BY ExploreIs
<1>2. Evaluated(batch) \subseteq Contexts
  BY <1>1 DEF Explored, Evaluated, Main
<1>3. limited' \in SUBSET config.beyond
  BY <1>1 DEF Explored, TypeInv
<1>4. ready' \in Seq(Contexts)
  BY <1>1 DEF Explored
<1> QED
  BY <1>1, <1>2, <1>3, <1>4, SameConfig DEF TypeInv, Explored

\* The start of a local search, from the next initial context.
LEMMA GoalIs ==
  ASSUME TypeInv, HandleGoalAchieved
  PROVE  /\ TypeInv'
         /\ "GOAL" \in requested /\ ready = <<>> /\ pc = "run"
         /\ \/ hoj' = hoj /\ requested' = (requested \ {"GOAL"}) \cup {"STOP"} /\ waiting' = waiting
            \/ /\ hoj.buffer # <<>> /\ requested' = (requested \ {"GOAL"}) \cup {"CONTINUE"}
               /\ waiting' = {Head(hoj.buffer)} /\ Head(hoj.buffer) \in Contexts
               /\ hoj'.roots = <<Head(hoj.buffer)>> /\ hoj'.buffer = Tail(hoj.buffer)
               /\ hoj'.height = config.delta + Height(Head(hoj.buffer)) /\ hoj'.covered = 0
               /\ hoj'.leaves = hoj.leaves /\ hoj'.backtrack = hoj.backtrack /\ hoj'.best = hoj.best
               /\ hoj'.most = hoj.most /\ hoj'.positive = hoj.positive
               /\ hoj'.bits = {} /\ hoj'.selected = hoj.selected
<1>1. hoj \in Members /\ hoj.buffer \in Seq(Contexts) /\ config.delta \in Nat
  BY GoodConfig DEF TypeInv, Members
<1>2. CASE hoj.buffer = <<>>
  <2>1. requested' = (requested \ {"GOAL"}) \cup {"STOP"} /\ waiting' = waiting /\ hoj' = hoj
    BY <1>2 DEF HandleGoalAchieved
  <2>2. UNCHANGED <<config, open, ready, limited, gone, pc, todo, saves>> /\ pc = "run" /\ "GOAL" \in requested /\ ready = <<>>
    BY DEF HandleGoalAchieved
  <2>3. requested' \in SUBSET {"CONTINUE", "GOAL", "STOP"} /\ requested' # {}
    BY <2>1 DEF TypeInv
  <2>4. TypeInv'
    BY <2>1, <2>2, <2>3, SameConfig DEF TypeInv
  <2> QED
    BY <2>1, <2>2, <2>4
<1>3. CASE hoj.buffer # <<>>
  <2> DEFINE r == Head(hoj.buffer)
             t == Tail(hoj.buffer)
             height == config.delta + Height(r)
             k1 == [hoj EXCEPT !.buffer = t]
             k2 == [k1 EXCEPT !.roots = <<r>>]
             k3 == [k2 EXCEPT !.height = height]
             k4 == [k3 EXCEPT !.covered = 0]
             k5 == [k4 EXCEPT !.bits = {}]
             k6 == [k5 EXCEPT !.stopped = TRUE]
             k7 == [k6 EXCEPT !.trials = 0]
  <2>1. hoj' = k7 /\ waiting' = {r} /\ requested' = (requested \ {"GOAL"}) \cup {"CONTINUE"}
    BY <1>3 DEF HandleGoalAchieved
  <2>2. r \in Contexts /\ t \in Seq(Contexts)
    BY <1>1, <1>3
  <2>3. height \in Int
    <3>1. Height(r) \in Nat
      BY <2>2, HeightFacts DEF TypeInv
    <3> QED
      BY <1>1, <3>1
  <2>13. <<r>> \in Seq(Contexts)
    BY <2>2
  <2> HIDE DEF height, t
  <2>4. k1 \in Members
    BY <1>1, <2>2, MembersWith
  <2>5. k2 \in Members
    BY <2>4, <2>13, MembersWith
  <2>6. k3 \in Members
    BY <2>3, <2>5, MembersWith
  <2>7. k4 \in Members
    BY <2>6, MembersWith
  <2>8. k5 \in Members
    BY <2>7, MembersWith
  <2>9. k6 \in Members
    BY <2>8, MembersWith
  <2>10. k7 \in Members
    BY <2>9, MembersWith
  <2>11. /\ k7.roots = <<r>> /\ k7.buffer = t /\ k7.height = height /\ k7.covered = 0
         /\ k7.leaves = hoj.leaves /\ k7.backtrack = hoj.backtrack /\ k7.best = hoj.best
         /\ k7.most = hoj.most /\ k7.positive = hoj.positive
         /\ k7.bits = {} /\ k7.selected = hoj.selected
    BY <1>1 DEF Members
  <2> HIDE DEF k7
  <2>12. UNCHANGED <<config, open, ready, limited, gone, pc, todo, saves>> /\ pc = "run" /\ "GOAL" \in requested /\ ready = <<>>
    BY DEF HandleGoalAchieved
  <2>14. requested' \in SUBSET {"CONTINUE", "GOAL", "STOP"} /\ requested' # {}
    BY <2>1 DEF TypeInv
  <2>15. TypeInv'
    BY <2>1, <2>2, <2>10, <2>12, <2>14, SameConfig DEF TypeInv
  <2> QED
    BY <1>3, <2>1, <2>2, <2>11, <2>12, <2>15 DEF t, height
<1> QED
  BY <1>2, <1>3

\* The two ends of handleRequestContinue, and the call of hit between them.
LEMMA HandleContinueIs ==
  ASSUME TypeInv, Unachieved, HandleContinue
  PROVE  /\ TypeInv' /\ pc = "run" /\ requested = {"CONTINUE"} /\ ready = <<>> /\ waiting = {}
         /\ \/ /\ pc' = "hit" /\ hoj' = Started(hoj) /\ todo' = Tasks(hoj) /\ saves' = <<>>
               /\ ~ Achieved(hoj) /\ hoj.roots # <<>>
               /\ UNCHANGED <<config, open, limited, ready, waiting, gone, requested>>
            \/ /\ config.ordered /\ Achieved(hoj) /\ Outcome(hoj, TRUE)
               /\ pc' \in {"run", "crashed"} /\ UNCHANGED <<config, open, limited, todo, saves>>
<1>1. hoj \in Members /\ hoj.buffer \in Seq(Contexts)
  BY DEF TypeInv, Members
<1>2. pc = "run" /\ requested = {"CONTINUE"} /\ ready = <<>> /\ waiting = {} /\ UNCHANGED <<config, open, limited>>
  BY DEF HandleContinue
<1>3. CASE hoj.roots = <<>> /\ BacktrackOrGiveUp(hoj, {}) /\ Stays /\ UNCHANGED <<todo, saves>>
  BY <1>2, <1>3 DEF Unachieved
<1>4. CASE hoj.roots # <<>> /\ Achieved(hoj) /\ Answered(hoj, TRUE) /\ UNCHANGED <<todo, saves>>
  <2>1. config.ordered
    BY <1>2, <1>4 DEF Unachieved
  <2>2. Outcome(hoj, TRUE) /\ gone' \in SUBSET Contexts /\ pc' \in {"run", "crashed"}
    BY <1>1, <1>4, <2>1, AnsweredIs
  <2>3. TypeInv'
    BY <1>1, <1>2, <1>4, <2>2, OutcomeTyped
  <2> QED
    BY <1>2, <1>4, <2>1, <2>2, <2>3
<1>5. CASE /\ hoj.roots # <<>> /\ ~ Achieved(hoj)
           /\ pc' = "hit" /\ hoj' = Started(hoj) /\ todo' = Tasks(hoj) /\ saves' = <<>>
           /\ UNCHANGED <<ready, waiting, gone, requested>>
  <2>1. hoj' \in Members /\ todo' \in Seq(TaskSet) /\ saves' \in Seq(Entries)
    BY <1>1, <1>5, StartedIs, TasksAre
  <2>2. TypeInv'
    BY <1>2, <1>5, <2>1, SameConfig DEF TypeInv
  <2> QED
    BY <1>2, <1>5, <2>2
<1> QED
  BY <1>3, <1>4, <1>5 DEF HandleContinue

LEMMA EndHitIs ==
  ASSUME TypeInv, EndHit
  PROVE  /\ TypeInv' /\ pc = "hit" /\ requested = {"CONTINUE"} /\ ready = <<>> /\ waiting = {}
         /\ Covering(hoj) \in Members
         /\ Outcome(Covering(hoj), hoj.most > 0)
         /\ pc' \in {"run", "crashed"} /\ UNCHANGED <<config, open, limited, todo, saves>>
<1>1. hoj \in Members /\ hoj.best \in Seq(Entries) /\ hoj.most \in Nat
  BY DEF TypeInv, Members
<1> DEFINE v == Covering(hoj)
           hit == hoj.most > 0
<1>2. v \in Members /\ (hoj.most # 0 => Len(v.leaves) = Len(hoj.best)) /\ v.best = hoj.best
  BY <1>1, CoveringIs
<1>3. hit \in BOOLEAN /\ Answered(v, hit)
  BY <1>1 DEF EndHit
<1>4. pc = "hit" /\ UNCHANGED <<config, open, limited, todo, saves>>
  BY DEF EndHit
<1>5. hit => Len(v.leaves) <= Len(v.best)
  <2>1. Len(hoj.best) \in Nat
    BY <1>1, LenProperties
  <2>2. hit => hoj.most # 0
    OBVIOUS
  <2> HIDE DEF hit, v
  <2> QED
    BY <1>2, <2>1, <2>2
<1> HIDE DEF v, hit
<1>6. Outcome(v, hit) /\ gone' \in SUBSET Contexts /\ pc' \in {"run", "crashed"}
  BY <1>2, <1>3, <1>5, AnsweredIs
<1>7. TypeInv'
  BY <1>2, <1>3, <1>4, <1>6, OutcomeTyped
<1>8. requested = {"CONTINUE"} /\ ready = <<>> /\ waiting = {}
  BY <1>4 DEF TypeInv
<1> QED
  BY <1>2, <1>4, <1>6, <1>7, <1>8 DEF v, hit

LEMMA InitTyped ==
  ASSUME Init
  PROVE  /\ TypeInv /\ hoj.covered = 0 /\ hoj.most = 0 /\ hoj.best = <<>> /\ hoj.positive = <<>>
         /\ hoj.backtrack = <<>> /\ hoj.leaves = <<>>
         /\ hoj.roots = IF config.global THEN config.initial ELSE <<Head(config.initial)>>
         /\ hoj.buffer = IF config.global THEN <<>> ELSE Tail(config.initial)
<1>1. /\ config.initial # <<>> /\ config.initial \in Seq(Contexts) /\ config.delta \in Nat /\ config \in Configs
  BY GoodConfig DEF Init
<1>2. Head(config.initial) \in Contexts /\ Tail(config.initial) \in Seq(Contexts)
  BY <1>1
<1> DEFINE roots == IF config.global THEN config.initial ELSE <<Head(config.initial)>>
           buffer == IF config.global THEN <<>> ELSE Tail(config.initial)
           height == IF config.global THEN config.delta ELSE config.delta + Height(Head(config.initial))
<1>3. roots \in Seq(Contexts) /\ buffer \in Seq(Contexts)
  BY <1>1, <1>2
<1>4. height \in Int
  <2>1. Height(Head(config.initial)) \in Nat
    BY <1>1, <1>2, HeightFacts
  <2> QED
    BY <1>1, <2>1
<1>5. hoj = [ roots |-> roots, leaves |-> <<>>, absolute |-> <<>>, black |-> <<>>, buffer |-> buffer,
              backtrack |-> <<>>, positive |-> <<>>,
              covered |-> 0, bits |-> {}, most |-> 0, best |-> <<>>, selected |-> <<>>,
              height |-> height, trials |-> 0, stopped |-> TRUE, goal |-> FALSE ]
  BY DEF Init
<1> HIDE DEF roots, buffer, height
<1>6. hoj \in Members
  BY <1>3, <1>4, <1>5 DEF Members
<1>7. open \in SUBSET Contexts
  <2>1. \A c \in Contexts : Above(c) \subseteq Contexts
    BY <1>1, PathFacts
  <2>2. \A c \in Range(config.initial) : config.parent[c] \in Contexts \cup {0}
    BY <1>1, RangeOf, GraphFacts
  <2>3. Above(0) = {}
    BY DEF Above
  <2>4. \A c \in Range(config.initial) : Above(config.parent[c]) \subseteq Contexts
    BY <2>1, <2>2, <2>3
  <2> QED
    BY <2>4 DEF Init
<1>8. waiting \in SUBSET Contexts
  BY <1>3, <1>5, RangeOf DEF Init
<1>9. ready \in Seq(Contexts) /\ todo \in Seq(TaskSet) /\ saves \in Seq(Entries)
  BY DEF Init
<1>10. /\ limited = {} /\ gone = {} /\ requested = {"CONTINUE"} /\ pc = "run"
  BY DEF Init
<1> QED
  BY <1>1, <1>5, <1>6, <1>7, <1>8, <1>9, <1>10 DEF TypeInv, roots, buffer

LEMMA OutcomeUnachieved ==
  ASSUME TypeInv, NEW v \in Members, NEW hit \in BOOLEAN, Outcome(v, hit), config' = config,
         ~ config.ordered =>
           (\A b \in Range(v.backtrack) : b.covered # config.points) /\ (~ hit => ~ Achieved(v))
  PROVE  Unachieved'
<1>0. PICK posted \in {{}, {"GOAL"}} : \E w :
       /\ Follows(v, w, hit /\ Achieved(v))
       /\ GivenUp(w) \/ Backtracked(w, posted) \/ Jumped(v, w, posted, hit)
       /\ hit /\ Achieved(v) /\ ~ Backtracked(w, posted) =>
            requested' = {"GOAL"} \/ (posted = {"GOAL"} /\ ~ config.final /\ ~ config.max /\ ~ config.stop)
  BY DEF Outcome
<1>1. PICK w :
       /\ Follows(v, w, hit /\ Achieved(v))
       /\ GivenUp(w) \/ Backtracked(w, posted) \/ Jumped(v, w, posted, hit)
       /\ hit /\ Achieved(v) /\ ~ Backtracked(w, posted) =>
            requested' = {"GOAL"} \/ (posted = {"GOAL"} /\ ~ config.final /\ ~ config.max /\ ~ config.stop)
  BY <1>0
<1>2. w \in Members /\ w.covered = v.covered /\ w.backtrack \in Seq(Range(v.backtrack)) /\ w.backtrack \in Seq(Entries)
  BY <1>1 DEF Follows, Members
<1>3. ~ config.ordered => \A b \in Range(w.backtrack) : b.covered # config.points
  BY <1>2, RangeOf
<1>4. CASE GivenUp(w)
  BY <1>3, <1>4 DEF GivenUp, Unachieved
<1>5. CASE Backtracked(w, posted)
  <2> DEFINE b == Last(w.backtrack)
  <2>3. hoj'.roots = <<b.ec>>
    BY <1>2, <1>5, BacktrackedIs
  <2>1. b \in Range(w.backtrack) /\ hoj'.backtrack = Front(w.backtrack) /\ hoj'.covered = b.covered
    BY <1>2, <1>5, BacktrackedIs
  <2>4. hoj'.roots # <<>>
    BY <2>3
  <2>2. Range(Front(w.backtrack)) \subseteq Range(w.backtrack)
    BY <1>2, <1>5, LastFront DEF Backtracked
  <2> HIDE DEF b
  <2> QED
    BY <1>3, <2>1, <2>2, <2>4 DEF Unachieved, Achieved
<1>6. CASE Jumped(v, w, posted, hit) /\ ~ Backtracked(w, posted)
  <2>1. hoj'.backtrack = w.backtrack /\ hoj'.covered = w.covered /\ hoj'.roots = w.roots
    BY <1>2, <1>6, JumpedIs
  <2>4. hoj'.roots # <<>>
    BY <1>6, <2>1 DEF Jumped
  <2>2. requested' = posted \cup {"CONTINUE"}
    BY <1>6 DEF Jumped
  <2>3. ~ config.ordered => (requested' = {"CONTINUE"} => ~ Achieved(v))
    BY <1>1, <1>6, <2>2
  <2> QED
    BY <1>2, <1>3, <2>1, <2>3, <2>4 DEF Unachieved, Achieved
<1> QED
  BY <1>1, <1>4, <1>5, <1>6

LEMMA KeptUnachieved ==
  ASSUME TypeInv, Unachieved, pc = "hit", NEW c, NEW e, KeptOrNoted(hoj, hoj', c, e), e \in Entries,
         ~ config.ordered => e.covered = hoj.covered, UNCHANGED <<config, requested>>
  PROVE  /\ Unachieved' /\ hoj'.covered = hoj.covered /\ hoj'.roots = hoj.roots
         /\ hoj'.backtrack = hoj.backtrack \/ hoj'.backtrack = Append(hoj.backtrack, e)
<1>1. PICK g : Noted(hoj, g, c) /\ (hoj' = g \/ hoj' = [g EXCEPT !.backtrack = Append(@, e)])
  BY DEF KeptOrNoted
<1>2. /\ g \in Members /\ hoj \in Members /\ g.covered = hoj.covered
      /\ g.backtrack = hoj.backtrack /\ g.roots = hoj.roots
  BY <1>1 DEF Noted, TypeInv, Members
<1>3. hoj'.covered = hoj.covered /\ hoj'.roots = hoj.roots /\ (hoj'.backtrack = hoj.backtrack \/ hoj'.backtrack = Append(hoj.backtrack, e))
  BY <1>1, <1>2 DEF Members
<1>4. hoj.backtrack \in Seq(Entries)
  BY <1>2 DEF Members
<1>5. Range(hoj'.backtrack) \subseteq Range(hoj.backtrack) \cup {e}
  <2>1. Range(Append(hoj.backtrack, e)) = Range(hoj.backtrack) \cup {e}
    BY <1>4, RangeOf
  <2> QED
    BY <1>3, <2>1
<1>6. ~ config.ordered => hoj.covered # config.points
  BY DEF Unachieved, TypeInv, Achieved
<1> QED
  BY <1>3, <1>5, <1>6 DEF Unachieved, Achieved

LEMMA TypedNext ==
  ASSUME TypeInv, Unachieved, [Next]_vars
  PROVE  TypeInv' /\ Unachieved'
<1>1. CASE Explore
  <2>1. PICK batch : Explored(batch)
    BY <1>1, ExploreIs
  <2>2. hoj'.backtrack = hoj.backtrack /\ hoj'.covered = hoj.covered /\ hoj'.roots = hoj.roots
        /\ UNCHANGED <<config, requested>>
    <3>1. hoj \in Members
      BY DEF TypeInv
    <3> QED
      BY <2>1, <3>1 DEF Explored, Members
  <2>3. TypeInv'
    BY <1>1, ExploreTyped
  <2> QED
    BY <2>2, <2>3 DEF Unachieved, Achieved
<1>2. CASE HandleContinue
  <2>1. TypeInv' /\ hoj \in Members /\ requested = {"CONTINUE"} /\ config' = config
    BY <1>2, HandleContinueIs DEF TypeInv, HandleContinue
  <2>2. CASE hoj' = Started(hoj) /\ requested' = requested
    <3>1. hoj'.backtrack = hoj.backtrack /\ hoj'.covered = hoj.covered /\ hoj'.roots = hoj.roots
      BY <2>1, <2>2, StartedIs
    <3> QED
      BY <2>1, <2>2, <3>1 DEF Unachieved, Achieved
  <2>3. CASE Outcome(hoj, TRUE)
    BY <2>1, <2>3, OutcomeUnachieved DEF Unachieved
  <2> QED
    BY <1>2, <2>1, <2>2, <2>3, HandleContinueIs
<1>3. CASE Return
  <2>1. TypeInv'
    <3>1. Tail(todo) \in Seq(TaskSet)
      BY <1>3 DEF Return, Looks, TypeInv
    <3> QED
      BY <1>3, <3>1, SameConfig DEF Return, TypeInv, aroundVars
  <2> QED
    BY <1>3, <2>1 DEF Return, aroundVars, Unachieved, Achieved
<1>4. CASE SaveBest
  <2> DEFINE b == Head(saves)
             e == Saved(b.ec, b.bits, b.covered, hoj)
  <2>1. TypeInv' /\ b \in Entries /\ KeptOrNoted(hoj, hoj', b.ec, e)
    BY <1>4, SaveBestTyped
  <2>2. pc = "hit" /\ UNCHANGED <<config, requested>>
    BY <1>4 DEF SaveBest, aroundVars
  <2>3. e \in Entries /\ (~ config.ordered => e.covered = hoj.covered)
    <3> HIDE DEF b
    <3>1. hoj \in Members
      BY DEF TypeInv
    <3>2. b.ec \in Contexts /\ b.covered \in Nat /\ b.bits \in SUBSET Nat
      BY <2>1 DEF Entries
    <3> QED
      BY <3>1, <3>2, SavedIs
  <2> HIDE DEF e, b
  <2> QED
    BY <2>1, <2>2, <2>3, KeptUnachieved
<1>5. CASE Visit
  <2>1. PICK g : Noted(hoj, g, Turn) /\ (Passed(g) \/ Descended(g) \/ Chose(g) \/ Kept(g))
    BY <1>5, VisitIs
  <2>2. TypeInv'
    BY <1>5, VisitTyped
  <2>3. pc = "hit" /\ UNCHANGED <<config, requested>> /\ Turn \in Contexts /\ Now \in SUBSET Nat /\ Total \in Nat
    BY <1>5, TurnIs DEF Visit, Looks, aroundVars
  <2>4. /\ g \in Members /\ g.backtrack = hoj.backtrack /\ g.covered = hoj.covered
        /\ g.roots = hoj.roots /\ hoj \in Members
    BY <2>1 DEF Noted, TypeInv, Members
  <2>5. CASE Passed(g) \/ Descended(g)
    <3>1. hoj' = g
      BY <2>5 DEF Passed, Descended
    <3> QED
      BY <2>2, <2>3, <2>4, <3>1 DEF Unachieved, Achieved
  <2>6. CASE Chose(g)
    <3>1. hoj'.backtrack = g.backtrack /\ hoj'.covered = g.covered /\ hoj'.roots = g.roots
      <4>1. Chooses(hoj', g, Entry(Turn, Total, Now), Total)
        BY <2>3, <2>4, <2>6, CandidateIs DEF Chose
      <4> QED
        BY <4>1 DEF Chooses
    <3> QED
      BY <2>2, <2>3, <2>4, <3>1 DEF Unachieved, Achieved
  <2>7. CASE Kept(g)
    <3> DEFINE e == Saved(Turn, Now, Total, hoj)
    <3>1. e \in Entries /\ (~ config.ordered => e.covered = hoj.covered)
      <4> QED
        BY <2>3, <2>4, SavedIs
    <3>2. KeptOrNoted(hoj, hoj', Turn, e)
      BY <2>1, <2>7 DEF Kept, KeptOrNoted
    <3> HIDE DEF e
    <3> QED
      BY <2>2, <2>3, <3>1, <3>2, KeptUnachieved
  <2> QED
    BY <2>1, <2>5, <2>6, <2>7
<1>6. CASE EndHit
  <2> DEFINE v == Covering(hoj)
             hit == hoj.most > 0
  <2>1. TypeInv' /\ pc = "hit" /\ requested = {"CONTINUE"} /\ v \in Members /\ Outcome(v, hit) /\ config' = config
    BY <1>6, EndHitIs
  <2>2. hoj \in Members /\ hoj.most \in Nat
    BY DEF TypeInv, Members
  <2>3. v.backtrack = hoj.backtrack /\ (hoj.most = 0 => v = hoj)
    BY <2>2, CoveringIs
  <2>4. hit \in BOOLEAN /\ (~ hit => hoj.most = 0)
    BY <2>2
  <2> HIDE DEF v, hit
  <2> QED
    BY <2>1, <2>3, <2>4, OutcomeUnachieved DEF Unachieved
<1>7. CASE HandleGoalAchieved
  <2>1. TypeInv' /\ config' = config /\ config.points # 0 /\ "GOAL" \in requested
    BY <1>7, GoalIs, GoodConfig DEF HandleGoalAchieved, TypeInv
  <2>2. CASE hoj' = hoj /\ requested' = (requested \ {"GOAL"}) \cup {"STOP"}
    BY <2>1, <2>2 DEF Unachieved, Achieved
  <2>3. CASE hoj'.backtrack = hoj.backtrack /\ hoj'.covered = 0 /\ hoj'.roots # <<>>
    BY <2>1, <2>3 DEF Unachieved, Achieved
  <2>4. hoj'.roots = <<Head(hoj.buffer)>> => hoj'.roots # <<>>
    OBVIOUS
  <2> QED
    BY <1>7, <2>1, <2>2, <2>3, <2>4, GoalIs
<1>8. CASE UNCHANGED vars
  BY <1>8, SameConfig DEF vars, TypeInv, Unachieved, Achieved
<1> QED
  BY <1>1, <1>2, <1>3, <1>4, <1>5, <1>6, <1>7, <1>8 DEF Next

LEMMA InitUnachieved ==
  ASSUME Init
  PROVE  Unachieved
<1>1. hoj.backtrack = <<>> /\ hoj.covered = 0 /\ config.points # 0 /\ hoj.roots # <<>>
  BY InitTyped, GoodConfig DEF Init
<1> QED
  BY <1>1, SeqOfNothing DEF Unachieved, Achieved

\* What the unit keeps in its lists are contexts of the graph, in every search: its loops index
\* them with what they drew from lists that are as long, and a step always has a request to serve.
THEOREM TypeCorrect == Spec => []TypeOK
<1>1. Init => TypeInv /\ Unachieved
  BY InitTyped, InitUnachieved
<1>2. TypeInv /\ Unachieved /\ [Next]_vars => (TypeInv /\ Unachieved)'
  BY TypedNext
<1>3. TypeInv => TypeOK
  <2> SUFFICES ASSUME TypeInv PROVE TypeOK
    OBVIOUS
  <2>1. \A l \in {"roots", "leaves", "absolute", "black", "buffer", "positive"} : hoj[l] \in Seq(Contexts)
    BY DEF TypeInv, Members
  <2> QED
    BY <2>1 DEF TypeInv, TypeOK
<1> QED
  BY <1>1, <1>2, <1>3, PTL DEF Spec

-----------------------------------------------------------------------------
(* A search of a sequence. *)

\* the first n points of the trace are on the path down to c
Has(c, n) == Traced(c, 1 .. n)

\* What is on a path is on those that go on from it.
LEMMA TracedBelow ==
  ASSUME NEW c, NEW d, Above(c) \subseteq Above(d), NEW P, Traced(c, P)
  PROVE  Traced(d, P)
<1>1. PICK at \in [P -> Above(c)] :
        /\ \A p \in P : p \in config.sat[at[p]]
        /\ config.ordered /\ ~ config.folding => IsInjective(at)
        /\ config.ordered => \A p, r \in P : p < r => at[p] <= at[r]
  BY DEF Traced
<1>2. at \in [P -> Above(d)]
  OBVIOUS
<1> QED
  BY <1>1, <1>2 DEF Traced

LEMMA TracedFewer ==
  ASSUME NEW c, NEW P, NEW Q \in SUBSET P, Traced(c, P)
  PROVE  Traced(c, Q)
<1>1. PICK at \in [P -> Above(c)] :
        /\ \A p \in P : p \in config.sat[at[p]]
        /\ config.ordered /\ ~ config.folding => IsInjective(at)
        /\ config.ordered => \A p, r \in P : p < r => at[p] <= at[r]
  BY DEF Traced
<1> DEFINE some == [ p \in Q |-> at[p] ]
<1>2. some \in [Q -> Above(c)] /\ (\A p \in Q : some[p] = at[p]) /\ DOMAIN some = Q /\ DOMAIN at = P
  OBVIOUS
<1> HIDE DEF some
<1>3. config.ordered /\ ~ config.folding => IsInjective(some)
  BY <1>1, <1>2 DEF IsInjective
<1>4. \A p \in Q : p \in config.sat[some[p]]
  BY <1>1, <1>2
<1>5. config.ordered => \A p, r \in Q : p < r => some[p] <= some[r]
  BY <1>1, <1>2
<1> QED
  BY <1>2, <1>3, <1>4, <1>5 DEF Traced

\* A context adds to what is on the path above it the points it satisfies, one if they are not
\* folded, after those before them.
LEMMA TracedOn ==
  ASSUME config \in Configs, NEW d \in Contexts, NEW P \in SUBSET Nat, NEW H \in SUBSET Nat,
         Traced(config.parent[d], P), H \subseteq config.sat[d],
         \A p \in P, h \in H : p < h,
         ~ config.folding => \A g, h \in H : g = h
  PROVE  Traced(d, P \cup H)
<1> DEFINE u == config.parent[d]
<1>1. PICK at \in [P -> Above(u)] :
        /\ \A p \in P : p \in config.sat[at[p]]
        /\ config.ordered /\ ~ config.folding => IsInjective(at)
        /\ config.ordered => \A p, r \in P : p < r => at[p] <= at[r]
  BY DEF Traced
<1>2. /\ u \in Contexts \cup {0} /\ u \in Nat /\ u < d /\ d \in Nat /\ Above(d) = Above(u) \cup {d}
      /\ Above(0) = {}
  BY GraphFacts
<1> HIDE DEF u
<1>3. \A e \in Above(u) : e \in Nat /\ e < d
  <2>1. ASSUME NEW e \in Above(u) PROVE e \in Nat /\ e < d
    <3>1. u \in Contexts
      BY <1>2, <2>1
    <3>2. e \in Contexts /\ e <= u
      BY <2>1, <3>1, PathFacts
    <3>3. e \in Nat
      BY <3>2, GraphFacts
    <3> QED
      BY <1>2, <3>2, <3>3
  <2> QED
    BY <2>1
<1> DEFINE all == [ p \in P \cup H |-> IF p \in P THEN at[p] ELSE d ]
<1>4. /\ all \in [P \cup H -> Above(d)] /\ DOMAIN all = P \cup H
      /\ \A p \in P : all[p] = at[p] /\ at[p] \in Nat /\ at[p] < d
      /\ \A p \in H \ P : all[p] = d
  BY <1>2, <1>3
<1> HIDE DEF all
<1>5. \A p \in P \cup H : p \in config.sat[all[p]]
  BY <1>1, <1>4
<1>6. config.ordered /\ ~ config.folding => IsInjective(all)
  <2> SUFFICES ASSUME config.ordered, ~ config.folding, NEW a \in P \cup H, NEW b \in P \cup H, all[a] = all[b]
               PROVE  a = b
    BY <1>4 DEF IsInjective
  <2>1. CASE a \in P /\ b \in P
    BY <1>1, <1>4, <2>1 DEF IsInjective
  <2>2. CASE a \in P /\ b \in H \ P
    BY <1>2, <1>4, <2>2
  <2>3. CASE a \in H \ P /\ b \in P
    BY <1>2, <1>4, <2>3
  <2>4. CASE a \in H \ P /\ b \in H \ P
    BY <2>4
  <2> QED
    BY <2>1, <2>2, <2>3, <2>4
<1>7. config.ordered => \A p, r \in P \cup H : p < r => all[p] <= all[r]
  <2> SUFFICES ASSUME config.ordered, NEW p \in P \cup H, NEW r \in P \cup H, p < r
               PROVE  all[p] <= all[r]
    OBVIOUS
  <2>1. CASE p \in P /\ r \in P
    BY <1>1, <1>4, <2>1
  <2>2. CASE p \in P /\ r \in H \ P
    <3>1. all[p] \in Nat /\ all[p] < d
      BY <1>4, <2>2
    <3>2. all[r] = d
      BY <1>4, <2>2
    <3> QED
      BY <1>2, <3>1, <3>2
  <2>3. CASE p \in H \ P /\ r \in P
    <3>1. r < p /\ p \in Nat /\ r \in Nat
      BY <2>3
    <3> QED
      BY <3>1
  <2>4. CASE p \in H \ P /\ r \in H \ P
    BY <1>2, <1>4, <2>4
  <2> QED
    BY <2>1, <2>2, <2>3, <2>4
<1> QED
  BY <1>4, <1>5, <1>6, <1>7 DEF Traced

LEMMA HasNone ==
  ASSUME NEW c
  PROVE  Has(c, 0)
<1> DEFINE none == [ p \in {} |-> 0 ]
<1>1. 1 .. 0 = {} /\ none \in [{} -> Above(c)] /\ IsInjective(none)
  BY DEF IsInjective
<1> QED
  BY <1>1 DEF Has, Traced

LEMMA HasFewer ==
  ASSUME NEW c, NEW n \in Nat, NEW m \in Nat, m <= n, Has(c, n)
  PROVE  Has(c, m)
<1>1. 1 .. m \in SUBSET (1 .. n)
  OBVIOUS
<1> QED
  BY <1>1, TracedFewer DEF Has

LEMMA HasBelow ==
  ASSUME config \in Configs, NEW d \in Contexts, NEW n, Has(config.parent[d], n)
  PROVE  Has(d, n)
<1>1. Above(config.parent[d]) \subseteq Above(d)
  BY GraphFacts
<1> QED
  BY <1>1, TracedBelow DEF Has

\* The points that a context hits of a sequence are those that come next.
LEMMA HitsNext ==
  ASSUME config \in Configs, config.ordered, NEW d \in Contexts, NEW n \in Nat, n <= config.points
  PROVE  \E j \in n .. config.points :
           /\ Hits(d, 1 .. n) = n + 1 .. j
           /\ Hits(d, 1 .. n) \subseteq config.sat[d]
           /\ ~ config.folding => j <= n + 1
<1>1. config.points \in Nat
  BY GoodConfig
<1> DEFINE rest == Points \ (1 .. n)
           hits == { p \in rest : \A r \in rest : r <= p => r \in config.sat[d] }
           missed == { m \in n + 1 .. config.points + 1 : m \notin hits }
<1>2. rest = n + 1 .. config.points
  BY <1>1 DEF Points
<1>3. hits \subseteq rest /\ (\A p \in hits : \A r \in rest : r <= p => r \in hits) /\ hits \subseteq config.sat[d]
  <2>1. ASSUME NEW p \in hits, NEW r \in rest, r <= p PROVE r \in hits
    <3>1. \A q \in rest : q <= r => q <= p
      BY <1>1, <1>2, <2>1
    <3> QED
      BY <2>1, <3>1
  <2>2. ASSUME NEW p \in hits PROVE p \in config.sat[d]
    BY <1>1, <1>2
  <2> QED
    BY <2>1, <2>2
<1>4. Hits(d, 1 .. n) = IF config.folding \/ hits = {} THEN hits ELSE {Min(hits)}
  BY DEF Hits
<1> HIDE DEF rest, hits
<1>5. config.points + 1 \in missed /\ missed \subseteq Nat
  BY <1>1, <1>2, <1>3
<1>6. PICK m \in missed : \A k \in missed : m <= k
  BY <1>5, LeastNatural
<1>7. m \in n + 1 .. config.points + 1 /\ m \notin hits /\ m \in Nat
  BY <1>1, <1>5, <1>6
<1>8. hits = n + 1 .. m - 1
  <2>1. ASSUME NEW x \in hits PROVE x \in n + 1 .. m - 1
    BY <1>1, <1>2, <1>3, <1>7
  <2>2. ASSUME NEW x \in n + 1 .. m - 1 PROVE x \in hits
    <3>1. x \in n + 1 .. config.points + 1 /\ ~ (m <= x)
      BY <1>1, <1>7
    <3> QED
      BY <1>6, <3>1
  <2> QED
    BY <2>1, <2>2
<1>9. CASE config.folding \/ hits = {}
  <2>1. m - 1 \in n .. config.points
    BY <1>1, <1>7
  <2>2. hits = {} => m - 1 <= n + 1
    BY <1>1, <1>7, <1>8
  <2> QED
    BY <1>3, <1>4, <1>8, <1>9, <2>1, <2>2
<1>10. CASE ~ (config.folding \/ hits = {})
  <2>1. n + 1 \in hits /\ n + 1 <= config.points
    BY <1>1, <1>7, <1>8, <1>10
  <2>2. hits \subseteq Nat
    BY <1>8
  <2>3. Min(hits) \in hits /\ Min(hits) <= n + 1
    BY <1>10, <2>1, <2>2, MinIs
  <2>4. Min(hits) = n + 1
    BY <1>8, <2>3
  <2>5. Hits(d, 1 .. n) = n + 1 .. n + 1
    <3>1. {n + 1} = n + 1 .. n + 1
      OBVIOUS
    <3> QED
      BY <1>4, <1>10, <2>4, <3>1
  <2>6. Hits(d, 1 .. n) \subseteq config.sat[d]
    BY <1>3, <1>4, <1>10, <2>3
  <2>7. n + 1 \in n .. config.points /\ n + 1 <= n + 1
    BY <1>1, <2>1
  <2> QED
    BY <2>5, <2>6, <2>7
<1> QED
  BY <1>9, <1>10

\* And so many more are on the path down to it.
LEMMA HitsExtend ==
  ASSUME config \in Configs, config.ordered, NEW d \in Contexts, NEW n \in Nat, n <= config.points,
         Has(config.parent[d], n)
  PROVE  LET k == Cardinality(Hits(d, 1 .. n))
         IN /\ k \in Nat /\ n + k <= config.points
            /\ (1 .. n) \cup Hits(d, 1 .. n) = 1 .. n + k
            /\ Has(d, n + k)
<1>1. config.points \in Nat
  BY GoodConfig
<1>2. PICK j \in n .. config.points :
        /\ Hits(d, 1 .. n) = n + 1 .. j
        /\ Hits(d, 1 .. n) \subseteq config.sat[d]
        /\ ~ config.folding => j <= n + 1
  BY HitsNext
<1>3. j \in Nat /\ n <= j /\ j <= config.points
  BY <1>1
<1>4. Cardinality(n + 1 .. j) = j - n
  <2>1. n + 1 \in Int /\ j \in Int
    BY <1>3
  <2>2. Cardinality(n + 1 .. j) = IF n + 1 > j THEN 0 ELSE j - (n + 1) + 1
    BY <2>1, FS_Interval, Zenon
  <2> QED
    BY <1>3, <2>2
<1>5. (1 .. n) \cup (n + 1 .. j) = 1 .. j
  BY <1>3
<1>6. Traced(d, (1 .. n) \cup (n + 1 .. j))
  <2> DEFINE P == 1 .. n
             H == n + 1 .. j
  <2>1. P \in SUBSET Nat /\ H \in SUBSET Nat /\ (\A p \in P, h \in H : p < h)
    BY <1>3
  <2>2. ~ config.folding => \A g, h \in H : g = h
    BY <1>2, <1>3
  <2>3. Traced(config.parent[d], P) /\ H \subseteq config.sat[d]
    BY <1>2 DEF Has
  <2> HIDE DEF P, H
  <2>4. Traced(d, P \cup H)
    BY <2>1, <2>2, <2>3, TracedOn
  <2> QED
    BY <2>4 DEF P, H
<1>7. n + (j - n) = j /\ j - n \in Nat
  BY <1>3
<1> QED
  BY <1>2, <1>3, <1>4, <1>5, <1>6, <1>7 DEF Has

GoodTask(t) ==
  /\ t.done = 1 .. hoj.covered + t.count /\ hoj.covered + t.count <= config.points
  /\ \A d \in t.left : Has(config.parent[d], hoj.covered + t.count)

\* What hit has found of the trace, and what it has still to look at, is on the path.
HitInv ==
  /\ hoj.covered + hoj.most <= config.points
  /\ \A b \in Range(hoj.best) : b.covered = hoj.most /\ Has(b.ec, hoj.covered + hoj.most)
  /\ \A b \in Range(saves) :
       hoj.covered + b.covered < config.points /\ Has(b.ec, hoj.covered + b.covered)
  /\ \A i \in 1 .. Len(todo) : GoodTask(todo[i])

\* What the search goes on from has the points that are covered on its path, and so has each
\* context kept for backtracking, which is never a goal.
OrderedInv ==
  /\ Achieved(hoj) => \A b \in Range(hoj.best) : Has(b.ec, config.points)
  /\ \A c \in Range(hoj.positive) : Has(c, config.points)
  /\ \A b \in Range(hoj.backtrack) : Has(b.ec, b.covered) /\ b.covered < config.points
  /\ "CONTINUE" \in requested =>
       \A c \in Range(hoj.roots) \cup Range(hoj.leaves) \cup Range(ready) \cup waiting : Has(c, hoj.covered)
  /\ requested = {"CONTINUE"} => hoj.covered < config.points
  /\ pc = "hit" => HitInv

LEMMA HasSame ==
  ASSUME UNCHANGED config
  PROVE  \A c, n : Has(c, n)' <=> Has(c, n)
  BY DEF Has, Traced, Above

\* What the traversal changes, and what it leaves for the rest.
LEMMA OrderedHit ==
  ASSUME TypeInv, OrderedInv, config.ordered, pc = "hit",
         NEW c, Has(c, hoj.covered), Range(hoj'.leaves) \subseteq Range(hoj.leaves) \cup {c},
         NEW e, Has(e.ec, e.covered), e.covered < config.points,
         Range(hoj'.backtrack) \subseteq Range(hoj.backtrack) \cup {e},
         hoj'.covered = hoj.covered, hoj'.roots = hoj.roots, hoj'.positive = hoj.positive,
         UNCHANGED <<config, requested, ready, waiting, pc>>, HitInv'
  PROVE  OrderedInv'
<1>1. requested = {"CONTINUE"} /\ hoj.covered < config.points /\ config.points \in Nat /\ hoj.covered \in Nat
  BY GoodConfig DEF OrderedInv, TypeInv, Members
<1>2. \A b, n : Has(b, n)' <=> Has(b, n)
  BY HasSame
<1>3. ~ Achieved(hoj)'
  BY <1>1 DEF Achieved
<1>4. \A b \in Range(hoj'.backtrack) : Has(b.ec, b.covered) /\ b.covered < config.points
  BY DEF OrderedInv
<1>5. \A b \in Range(hoj.roots) \cup Range(hoj'.leaves) \cup Range(ready) \cup waiting : Has(b, hoj.covered)
  BY <1>1 DEF OrderedInv
<1> QED
  BY <1>1, <1>2, <1>3, <1>4, <1>5 DEF OrderedInv

\* A step that keeps what hit has found, and takes from what it has to look at.
LEMMA TurnHas ==
  ASSUME TypeInv, OrderedInv, config.ordered, Visit
  PROVE  /\ Now = 1 .. hoj.covered + Total /\ hoj.covered + Total <= config.points
         /\ Has(Turn, hoj.covered + Total) /\ Has(Turn, hoj.covered)
         /\ \A i \in 1 .. Len(Others) : GoodTask(Others[i])
<1>1. Looks /\ Head(todo).left # {} /\ pc = "hit"
  BY DEF Visit, Looks
<1>2. /\ Turn \in Contexts /\ Turn \in Head(todo).left
      /\ Len(todo) \in Nat \ {0} /\ Len(Others) = Len(todo)
      /\ Others[1] = [Head(todo) EXCEPT !.left = @ \ {Turn}]
      /\ \A i \in 2 .. Len(todo) : Others[i] = todo[i]
  BY <1>1, TurnIs
<1>3. HitInv /\ config.points \in Nat /\ hoj.covered \in Nat /\ todo \in Seq(TaskSet)
  BY <1>1, GoodConfig DEF OrderedInv, TypeInv, Members
<1>4. Head(todo) = todo[1] /\ todo[1] \in TaskSet /\ GoodTask(todo[1])
  BY <1>2, <1>3 DEF HitInv
<1> DEFINE t == todo[1]
           n == hoj.covered + t.count
           k == Cardinality(Hits(Turn, 1 .. n))
<1>5. /\ t.done = 1 .. n /\ n \in Nat /\ n <= config.points /\ t.count \in Nat
      /\ \A d \in t.left : Has(config.parent[d], n)
  <2>1. t.count \in Nat
    BY <1>4 DEF TaskSet
  <2> QED
    BY <1>3, <1>4, <2>1 DEF GoodTask
<1>6. Has(config.parent[Turn], n) /\ config \in Configs
  BY <1>2, <1>4, <1>5 DEF TypeInv
<1>7. Now = (1 .. n) \cup Hits(Turn, 1 .. n) /\ Total = t.count + k
  BY <1>4, <1>5 DEF Now, Total
<1> HIDE DEF t
<1>8. /\ k \in Nat /\ n + k <= config.points
      /\ (1 .. n) \cup Hits(Turn, 1 .. n) = 1 .. n + k
      /\ Has(Turn, n + k)
  BY <1>2, <1>5, <1>6, HitsExtend
<1> HIDE DEF k
<1>9. hoj.covered + Total = n + k /\ n + k \in Nat /\ hoj.covered <= n + k
  BY <1>3, <1>5, <1>7, <1>8
<1>10. Has(Turn, hoj.covered)
  BY <1>3, <1>8, <1>9, HasFewer
<1>11. GoodTask(Others[1])
  <2>1. Others[1].left \subseteq t.left /\ Others[1].done = t.done /\ Others[1].count = t.count
    BY <1>2, <1>4 DEF TaskSet, t
  <2> QED
    BY <1>5, <2>1 DEF GoodTask
<1>12. ASSUME NEW i \in 1 .. Len(Others) PROVE GoodTask(Others[i])
  <2>1. i = 1 \/ i \in 2 .. Len(todo)
    BY <1>2
  <2>2. CASE i \in 2 .. Len(todo)
    <3>1. i \in 1 .. Len(todo) /\ Others[i] = todo[i]
      BY <1>2, <2>2
    <3> QED
      BY <1>3, <3>1 DEF HitInv
  <2> QED
    BY <1>11, <2>1, <2>2
<1> QED
  BY <1>7, <1>8, <1>9, <1>10, <1>12

LEMMA SaveBestOrdered ==
  ASSUME TypeInv, OrderedInv, config.ordered, SaveBest
  PROVE  OrderedInv'
<1> DEFINE b == Head(saves)
           e == Saved(b.ec, b.bits, b.covered, hoj)
<1>1. b \in Entries /\ KeptOrNoted(hoj, hoj', b.ec, e) /\ saves \in Seq(Entries) /\ saves # <<>>
  BY SaveBestTyped DEF TypeInv, SaveBest
<1>2. pc = "hit" /\ saves' = Tail(saves) /\ todo' = todo /\ UNCHANGED <<config, requested, ready, waiting, pc>>
  BY DEF SaveBest, aroundVars
<1>3. HitInv /\ hoj \in Members /\ hoj.covered \in Nat /\ config.points \in Nat
  BY <1>2, GoodConfig DEF OrderedInv, TypeInv, Members
<1>4. b \in Range(saves) /\ Range(Tail(saves)) \subseteq Range(saves)
  <2>1. Len(saves) \in Nat /\ Len(saves) # 0 /\ DOMAIN saves = 1 .. Len(saves) /\ b = saves[1]
    BY <1>1
  <2>2. \A i \in 1 .. Len(saves) - 1 : Tail(saves)[i] = saves[i + 1] /\ i + 1 \in 1 .. Len(saves)
    BY <1>1, <2>1
  <2>3. DOMAIN Tail(saves) = 1 .. Len(saves) - 1
    BY <1>1, <2>1
  <2>4. 1 \in 1 .. Len(saves)
    BY <2>1
  <2>5. b \in Range(saves)
    BY <2>1, <2>4 DEF Range
  <2>6. Range(Tail(saves)) \subseteq Range(saves)
    BY <2>1, <2>2, <2>3 DEF Range
  <2> QED
    BY <2>5, <2>6
<1>5. hoj.covered + b.covered < config.points /\ Has(b.ec, hoj.covered + b.covered)
  BY <1>3, <1>4 DEF HitInv
<1>6. e.ec = b.ec /\ e.covered = hoj.covered + b.covered
  BY DEF Saved, Entry
<1>7. b.ec \in Contexts /\ b.covered \in Nat
  BY <1>1 DEF Entries
<1>8. Has(b.ec, hoj.covered)
  BY <1>3, <1>5, <1>7, HasFewer
<1>9. PICK g : Noted(hoj, g, b.ec) /\ (hoj' = g \/ hoj' = [g EXCEPT !.backtrack = Append(@, e)])
  BY <1>1 DEF KeptOrNoted
<1> HIDE DEF e, b
<1>10. /\ g \in Members /\ g.covered = hoj.covered /\ g.roots = hoj.roots /\ g.positive = hoj.positive
       /\ g.most = hoj.most /\ g.best = hoj.best /\ g.backtrack = hoj.backtrack
       /\ (g.leaves = hoj.leaves \/ g.leaves = Append(hoj.leaves, b.ec))
  BY <1>3, <1>9 DEF Noted, Members
<1>11. /\ hoj'.covered = hoj.covered /\ hoj'.roots = hoj.roots /\ hoj'.positive = hoj.positive
       /\ hoj'.most = hoj.most /\ hoj'.best = hoj.best /\ hoj'.leaves = g.leaves
       /\ (hoj'.backtrack = hoj.backtrack \/ hoj'.backtrack = Append(hoj.backtrack, e))
  BY <1>9, <1>10 DEF Members
<1>12. Range(hoj'.leaves) \subseteq Range(hoj.leaves) \cup {b.ec}
  <2>1. hoj.leaves \in Seq(Contexts)
    BY <1>3 DEF Members
  <2>2. Range(Append(hoj.leaves, b.ec)) = Range(hoj.leaves) \cup {b.ec}
    BY <1>7, <2>1, RangeOf
  <2> QED
    BY <1>10, <1>11, <2>2
<1>13. Range(hoj'.backtrack) \subseteq Range(hoj.backtrack) \cup {e}
  <2>1. hoj.backtrack \in Seq(Entries) /\ e \in Entries
    <3>1. b.bits \in SUBSET Nat
      BY <1>1 DEF Entries, b
    <3>2. hoj.backtrack \in Seq(Entries)
      BY <1>3 DEF Members
    <3> QED
      BY <1>3, <1>7, <3>1, <3>2, SavedIs DEF e
  <2>2. Range(Append(hoj.backtrack, e)) = Range(hoj.backtrack) \cup {e}
    BY <2>1, RangeOf
  <2> QED
    BY <1>11, <2>2
<1>14. HitInv'
  <2>1. \A c, n : Has(c, n)' <=> Has(c, n)
    BY <1>2, HasSame
  <2>2. \A i \in 1 .. Len(todo) : GoodTask(todo[i])'
    BY <1>2, <1>3, <1>11, <2>1 DEF HitInv, GoodTask
  <2> QED
    BY <1>2, <1>3, <1>4, <1>11, <2>1, <2>2 DEF HitInv
<1> QED
  BY <1>2, <1>5, <1>6, <1>8, <1>11, <1>12, <1>13, <1>14, OrderedHit

LEMMA VisitOrdered ==
  ASSUME TypeInv, OrderedInv, config.ordered, Visit
  PROVE  OrderedInv'
<1>1. PICK g : Noted(hoj, g, Turn) /\ (Passed(g) \/ Descended(g) \/ Chose(g) \/ Kept(g))
  BY VisitIs
<1>2. /\ Now = 1 .. hoj.covered + Total /\ hoj.covered + Total <= config.points
      /\ Has(Turn, hoj.covered + Total) /\ Has(Turn, hoj.covered)
      /\ \A i \in 1 .. Len(Others) : GoodTask(Others[i])
  BY TurnHas
<1>3. Turn \in Contexts /\ Now \in SUBSET Nat /\ Total \in Nat /\ Others \in Seq(TaskSet) /\ Children(Turn) \in SUBSET Contexts
  BY TurnIs DEF Visit
<1>4. pc = "hit" /\ UNCHANGED <<config, requested, ready, waiting, pc>>
  BY DEF Visit, Looks, aroundVars
<1>5. HitInv /\ hoj \in Members /\ hoj.covered \in Nat /\ config.points \in Nat /\ hoj.most \in Nat
  BY <1>4, GoodConfig DEF OrderedInv, TypeInv, Members
<1>6. /\ g \in Members /\ g.covered = hoj.covered /\ g.roots = hoj.roots /\ g.positive = hoj.positive
      /\ g.most = hoj.most /\ g.best = hoj.best /\ g.backtrack = hoj.backtrack
      /\ (g.leaves = hoj.leaves \/ g.leaves = Append(hoj.leaves, Turn))
  BY <1>1, <1>5 DEF Noted, Members
<1>7. Range(g.leaves) \subseteq Range(hoj.leaves) \cup {Turn}
  <2>1. hoj.leaves \in Seq(Contexts)
    BY <1>5 DEF Members
  <2>2. Range(Append(hoj.leaves, Turn)) = Range(hoj.leaves) \cup {Turn}
    BY <1>3, <2>1, RangeOf
  <2> QED
    BY <1>6, <2>2
<1> DEFINE e == Entry(Turn, 0, {})
<1>8. Has(e.ec, e.covered) /\ e.covered < config.points
  BY <1>5, HasNone, GoodConfig DEF Entry, TypeInv
<1>9. \A c, n : Has(c, n)' <=> Has(c, n)
  BY <1>4, HasSame
<1> HIDE DEF e
<1>10. CASE Passed(g) \/ Descended(g)
  <2>1. hoj' = g /\ saves' = <<>>
    BY <1>10 DEF Passed, Descended
  <2>2. \A i \in 1 .. Len(todo') : GoodTask(todo'[i])
    <3>1. CASE Passed(g)
      BY <1>2, <3>1 DEF Passed
    <3>2. CASE Descended(g)
      <4> DEFINE t == Task(Children(Turn), Now, Total)
      <4>1. GoodTask(t)
        <5>1. t.left = Children(Turn) /\ t.done = Now /\ t.count = Total
          BY DEF Task
        <5>2. \A d \in Children(Turn) : config.parent[d] = Turn
          BY DEF Children
        <5> QED
          BY <1>2, <5>1, <5>2 DEF GoodTask
      <4>2. todo' = <<t>> \o Others
        BY <3>2 DEF Descended
      <4> HIDE DEF t
      <4>3. Len(Others) \in Nat /\ Len(todo') = Len(Others) + 1
        BY <1>3, <4>2
      <4>4. todo'[1] = t /\ \A i \in 1 .. Len(Others) : todo'[i + 1] = Others[i]
        BY <1>3, <4>2
      <4>5. ASSUME NEW i \in 1 .. Len(todo') PROVE GoodTask(todo'[i])
        <5>1. i = 1 \/ (i - 1 \in 1 .. Len(Others) /\ i = (i - 1) + 1)
          BY <4>3
        <5>2. CASE i - 1 \in 1 .. Len(Others) /\ i = (i - 1) + 1
          <6>1. todo'[i] = Others[i - 1]
            BY <4>4, <5>2
          <6> QED
            BY <1>2, <5>2, <6>1
        <5> QED
          BY <4>1, <4>4, <5>1, <5>2
      <4> QED
        BY <4>5
    <3> QED
      BY <1>10, <3>1, <3>2
  <2>3. HitInv'
    <3>1. \A i \in 1 .. Len(todo') : GoodTask(todo[i])'
      BY <1>4, <1>6, <1>9, <2>1, <2>2 DEF GoodTask
    <3>2. Range(saves') = {}
      BY <2>1 DEF Range
    <3> QED
      BY <1>4, <1>5, <1>6, <1>9, <2>1, <3>1, <3>2 DEF HitInv
  <2>4. Range(hoj'.backtrack) \subseteq Range(hoj.backtrack) \cup {e}
    BY <1>6, <2>1
  <2> QED
    BY <1>2, <1>4, <1>6, <1>7, <1>8, <2>1, <2>3, <2>4, OrderedHit
<1>11. CASE Chose(g)
  <2> DEFINE b == Entry(Turn, Total, Now)
             k == Candidate(g, Turn, Now, Total)
  <2>1. /\ hoj' = k /\ saves' = Replaced(g, Total) /\ todo' = Others
        /\ (Total = config.points - hoj.covered \/ Total >= hoj.most)
    BY <1>11 DEF Chose
  <2>7. /\ b \in Entries
        /\ Total > g.most => k.most = Total /\ k.best = <<b>>
        /\ ~ Total > g.most => k.most = g.most /\ k.best = Append(g.best, b)
        /\ k.roots = g.roots /\ k.backtrack = g.backtrack /\ k.covered = g.covered
        /\ k.positive = g.positive /\ k.leaves = g.leaves
    <3>1. g \in Members
      BY <1>6
    <3>2. b \in Entries /\ Chooses(k, g, b, Total)
      BY <1>3, <3>1, CandidateIs
    <3> HIDE DEF b, k
    <3> QED
      BY <3>2 DEF Chooses
  <2> HIDE DEF k
  <2>2. /\ b \in Entries
        /\ Total > g.most => hoj'.most = Total /\ hoj'.best = <<b>>
        /\ ~ Total > g.most => hoj'.most = g.most /\ hoj'.best = Append(g.best, b)
        /\ hoj'.roots = g.roots /\ hoj'.backtrack = g.backtrack /\ hoj'.covered = g.covered
        /\ hoj'.positive = g.positive /\ hoj'.leaves = g.leaves
    BY <2>1, <2>7
  <2>3. b.ec = Turn /\ b.covered = Total
    BY DEF Entry
  <2> HIDE DEF b
  <2>4. /\ hoj'.covered + hoj'.most <= config.points
        /\ \A a \in Range(hoj'.best) : a.covered = hoj'.most /\ Has(a.ec, hoj'.covered + hoj'.most)
        /\ \A a \in Range(saves') :
             hoj'.covered + a.covered < config.points /\ Has(a.ec, hoj'.covered + a.covered)
    <3>1. hoj'.covered = hoj.covered
      BY <1>6, <2>2
    <3>2. CASE Total > hoj.most
      <4>1. hoj'.most = Total /\ hoj'.best = <<b>>
        BY <1>6, <2>2, <3>2
      <4>2. Range(<<b>>) = {b}
        BY DEF Range
      <4>3. saves' = <<>> \/ saves' = hoj.best
        BY <1>6, <2>1 DEF Replaced
      <4>4. \A a \in Range(saves') : a.covered = hoj.most /\ Has(a.ec, hoj.covered + hoj.most)
        BY <1>5, <4>3 DEF HitInv, Range
      <4>5. hoj.covered + hoj.most < config.points
        BY <1>2, <1>3, <1>5, <3>2
      <4> QED
        BY <1>2, <2>3, <3>1, <4>1, <4>2, <4>4, <4>5
    <3>3. CASE ~ Total > hoj.most
      <4>1. Total = hoj.most
        <5>1. hoj.covered + hoj.most <= config.points
          BY <1>5 DEF HitInv
        <5> QED
          BY <1>3, <1>5, <2>1, <3>3, <5>1
      <4>2. hoj'.most = hoj.most /\ hoj'.best = Append(hoj.best, b)
        BY <1>6, <2>2, <3>3
      <4>3. Range(Append(hoj.best, b)) = Range(hoj.best) \cup {b}
        BY <1>5, <2>2, RangeOf DEF Members
      <4>4. Range(saves') = {}
        BY <1>6, <2>1, <3>3 DEF Replaced, Range
      <4> QED
        BY <1>2, <1>5, <2>3, <3>1, <4>1, <4>2, <4>3, <4>4 DEF HitInv
    <3> QED
      BY <3>2, <3>3
  <2>5. HitInv'
    <3>1. \A i \in 1 .. Len(todo') : GoodTask(todo[i])'
      BY <1>2, <1>4, <1>6, <1>9, <2>1, <2>2 DEF GoodTask
    <3> QED
      BY <1>4, <1>9, <2>4, <3>1 DEF HitInv
  <2>6. Range(hoj'.backtrack) \subseteq Range(hoj.backtrack) \cup {e}
    BY <1>6, <2>2
  <2> QED
    BY <1>2, <1>4, <1>6, <1>7, <1>8, <2>2, <2>5, <2>6, OrderedHit
<1>12. CASE Kept(g)
  <2> DEFINE b == Saved(Turn, Now, Total, hoj)
  <2>1. /\ hoj' = [g EXCEPT !.backtrack = Append(@, b)] /\ saves' = <<>> /\ todo' = Others
        /\ Total # config.points - hoj.covered
    BY <1>12 DEF Kept
  <2>2. b.ec = Turn /\ b.covered = hoj.covered + Total /\ b \in Entries
    <3>1. hoj \in Members /\ Turn \in Contexts /\ Now \in SUBSET Nat /\ Total \in Nat
      BY <1>3, <1>5
    <3>2. b \in Entries /\ b.ec = Turn /\ b.covered = IF config.ordered THEN hoj.covered + Total ELSE hoj.covered
      BY <3>1, SavedIs
    <3> QED
      BY <3>2
  <2>3. Has(b.ec, b.covered) /\ b.covered < config.points
    BY <1>2, <1>3, <1>5, <2>1, <2>2
  <2> HIDE DEF b
  <2>4. /\ hoj'.covered = hoj.covered /\ hoj'.roots = hoj.roots /\ hoj'.positive = hoj.positive
        /\ hoj'.most = hoj.most /\ hoj'.best = hoj.best /\ hoj'.leaves = g.leaves
        /\ hoj'.backtrack = Append(hoj.backtrack, b)
    BY <1>6, <2>1 DEF Members
  <2>5. Range(hoj'.backtrack) \subseteq Range(hoj.backtrack) \cup {b}
    <3>1. Range(Append(hoj.backtrack, b)) = Range(hoj.backtrack) \cup {b}
      BY <1>5, <2>2, RangeOf DEF Members
    <3> QED
      BY <2>4, <3>1
  <2>6. HitInv'
    <3>1. \A i \in 1 .. Len(todo') : GoodTask(todo[i])'
      BY <1>2, <1>4, <1>9, <2>1, <2>4 DEF GoodTask
    <3>2. Range(saves') = {}
      BY <2>1 DEF Range
    <3> QED
      BY <1>4, <1>5, <1>9, <2>4, <3>1, <3>2 DEF HitInv
  <2> QED
    BY <1>2, <1>4, <1>7, <2>3, <2>4, <2>5, <2>6, OrderedHit
<1> QED
  BY <1>1, <1>10, <1>11, <1>12

LEMMA ExploreOrdered ==
  ASSUME TypeInv, OrderedInv, config.ordered, Explore
  PROVE  OrderedInv'
<1>1. PICK batch : Explored(batch)
  BY ExploreIs
<1>2. /\ hoj \in Members /\ hoj.leaves \in Seq(Contexts) /\ hoj' \in Members
      /\ hoj' = [hoj EXCEPT !.stopped = hoj'.stopped, !.black = hoj'.black, !.leaves = hoj'.leaves]
      /\ hoj'.leaves = hoj.leaves \o TooDeep(batch)
      /\ TooDeep(batch) \in Seq(Contexts) /\ Range(TooDeep(batch)) \subseteq Range(batch)
      /\ UNCHANGED <<config, requested>>
  BY <1>1 DEF Explored, TypeInv, Members
<1>3. /\ hoj'.covered = hoj.covered /\ hoj'.roots = hoj.roots /\ hoj'.positive = hoj.positive
      /\ hoj'.most = hoj.most /\ hoj'.best = hoj.best /\ hoj'.backtrack = hoj.backtrack
  BY <1>2 DEF Members
<1>4. /\ ready' = <<>> /\ pc' # "hit"
      /\ waiting' = (waiting \ Range(batch)) \cup { d \in Contexts : config.parent[d] \in Evaluated(batch) }
      /\ Evaluated(batch) \subseteq Range(batch)
      /\ Range(batch) \subseteq Range(ready) \cup waiting
  <2>1. Evaluated(batch) \subseteq Range(batch)
    BY DEF Evaluated, Main
  <2>2. Range(batch) \subseteq Range(ready) \cup waiting
    <3>1. CASE batch = ready
      BY <3>1
    <3>2. CASE \E c \in waiting : batch = <<c>>
      BY <3>2 DEF Range
    <3> QED
      BY <1>1, <3>1, <3>2 DEF Explored
  <2> QED
    BY <1>1, <2>1, <2>2 DEF Explored
<1>5. \A c, n : Has(c, n)' <=> Has(c, n)
  BY <1>2, HasSame
<1>6. ASSUME "CONTINUE" \in requested
      PROVE  \A c \in Range(hoj'.roots) \cup Range(hoj'.leaves) \cup Range(ready') \cup waiting' : Has(c, hoj.covered)
  <2>1. \A c \in Range(hoj.roots) \cup Range(hoj.leaves) \cup Range(ready) \cup waiting : Has(c, hoj.covered)
    BY <1>6 DEF OrderedInv
  <2>2. Range(hoj'.leaves) = Range(hoj.leaves) \cup Range(TooDeep(batch))
    BY <1>2, RangeOf
  <2>3. \A d \in Contexts : config.parent[d] \in Evaluated(batch) => Has(d, hoj.covered)
    <3>1. ASSUME NEW d \in Contexts, config.parent[d] \in Evaluated(batch) PROVE Has(d, hoj.covered)
      <4>1. Has(config.parent[d], hoj.covered) /\ config \in Configs
        BY <1>4, <2>1, <3>1 DEF TypeInv
      <4> QED
        BY <4>1, HasBelow
    <3> QED
      BY <3>1
  <2>4. Range(ready') = {}
    BY <1>4 DEF Range
  <2> QED
    BY <1>2, <1>3, <1>4, <2>1, <2>2, <2>3, <2>4
<1> QED
  BY <1>2, <1>3, <1>4, <1>5, <1>6 DEF OrderedInv, Achieved

\* What an answer leads to, if what was covered is on the paths to what can be selected.
LEMMA OutcomeOrdered ==
  ASSUME TypeInv, config.ordered, NEW v \in Members, NEW hit \in BOOLEAN, Outcome(v, hit),
         pc' \in {"run", "crashed"}, UNCHANGED config, ready = <<>>, waiting = {},
         v.covered <= config.points,
         \A c \in Range(v.leaves) : Has(c, v.covered),
         \A c \in Range(v.positive) : Has(c, config.points),
         \A b \in Range(v.backtrack) : Has(b.ec, b.covered) /\ b.covered < config.points,
         ~ hit => ~ Achieved(v),
         Achieved(v) => \A b \in Range(v.best) : Has(b.ec, config.points)
  PROVE  OrderedInv'
<1>0. PICK posted \in {{}, {"GOAL"}} : \E w :
       /\ Follows(v, w, hit /\ Achieved(v))
       /\ GivenUp(w) \/ Backtracked(w, posted) \/ Jumped(v, w, posted, hit)
       /\ hit /\ Achieved(v) /\ ~ Backtracked(w, posted) =>
            requested' = {"GOAL"} \/ (posted = {"GOAL"} /\ ~ config.final /\ ~ config.max /\ ~ config.stop)
  BY DEF Outcome
<1>1. PICK w :
       /\ Follows(v, w, hit /\ Achieved(v))
       /\ GivenUp(w) \/ Backtracked(w, posted) \/ Jumped(v, w, posted, hit)
       /\ hit /\ Achieved(v) /\ ~ Backtracked(w, posted) =>
            requested' = {"GOAL"} \/ (posted = {"GOAL"} /\ ~ config.final /\ ~ config.max /\ ~ config.stop)
  BY <1>0
<1>2. /\ w \in Members /\ w.covered = v.covered /\ w.best = v.best /\ w.leaves \in {<<>>, v.leaves}
      /\ w.positive \in Seq(Range(v.positive) \cup Range(v.leaves))
      /\ (~ (hit /\ Achieved(v)) => w.positive = v.positive)
      /\ w.backtrack \in Seq(Range(v.backtrack)) /\ w.backtrack \in Seq(Entries)
  BY <1>1 DEF Follows, Members
<1>3. \A b \in Range(w.backtrack) : Has(b.ec, b.covered) /\ b.covered < config.points
  BY <1>2, RangeOf
<1>4. \A c \in Range(w.positive) : Has(c, config.points)
  <2>1. CASE hit /\ Achieved(v)
    <3>1. Range(w.positive) \subseteq Range(v.positive) \cup Range(v.leaves)
      BY <1>2, RangeOf
    <3>2. v.covered = config.points
      BY <2>1 DEF Achieved
    <3> QED
      BY <3>1, <3>2
  <2>2. CASE ~ (hit /\ Achieved(v))
    BY <1>2, <2>2
  <2> QED
    BY <2>1, <2>2
<1>5. \A c \in Range(w.leaves) : Has(c, w.covered)
  <2>1. Range(<<>>) = {}
    BY DEF Range
  <2> QED
    BY <1>2, <2>1
<1>6. \A c, n : Has(c, n)' <=> Has(c, n)
  BY HasSame
<1>7. CASE GivenUp(w)
  <2>1. hoj' = w /\ requested' = {"GOAL"}
    BY <1>7 DEF GivenUp
  <2>2. Achieved(hoj)' => \A b \in Range(hoj'.best) : Has(b.ec, config.points)
    BY <1>2, <2>1 DEF Achieved
  <2> QED
    BY <1>3, <1>4, <1>6, <2>1, <2>2 DEF OrderedInv
<1>8. CASE Backtracked(w, posted)
  <2> DEFINE b == Last(w.backtrack)
  <2>1. /\ b \in Range(w.backtrack) /\ b \in Entries /\ hoj'.backtrack = Front(w.backtrack) /\ hoj'.roots = <<b.ec>>
        /\ hoj'.covered = b.covered /\ hoj'.leaves = w.leaves /\ hoj'.positive = w.positive
        /\ waiting' = {b.ec} /\ ready' = ready
    BY <1>2, <1>8, BacktrackedIs
  <2> HIDE DEF b
  <2>2. Range(Front(w.backtrack)) \subseteq Range(w.backtrack) /\ w.leaves = <<>>
    BY <1>2, <1>8, LastFront DEF Backtracked
  <2>3. Range(hoj'.roots) = {b.ec} /\ Range(hoj'.leaves) = {} /\ Range(ready') = {}
    BY <2>1, <2>2 DEF Range
  <2>4. hoj'.covered < config.points /\ config.points \in Nat /\ b.covered \in Nat /\ Has(b.ec, b.covered)
    BY <1>3, <2>1, GoodConfig DEF TypeInv, Entries
  <2>5. ~ Achieved(hoj)'
    BY <2>1, <2>4 DEF Achieved
  <2> QED
    BY <1>3, <1>4, <1>6, <2>1, <2>2, <2>3, <2>4, <2>5 DEF OrderedInv
<1>9. CASE Jumped(v, w, posted, hit) /\ ~ Backtracked(w, posted)
  <2>1. /\ hoj'.backtrack = w.backtrack /\ hoj'.covered = w.covered /\ hoj'.roots = w.roots
        /\ hoj'.leaves = w.leaves /\ hoj'.best = w.best /\ hoj'.positive = w.positive
    BY <1>2, <1>9, JumpedIs
  <2>2. /\ requested' = posted \cup {"CONTINUE"} /\ w.roots \in Seq(Range(v.leaves)) /\ w.leaves = <<>>
        /\ ready' = w.roots /\ waiting' = {}
    BY <1>9 DEF Jumped
  <2>3. requested' = {"CONTINUE"} => ~ Achieved(v)
    BY <1>1, <1>9, <2>2
  <2>4. Range(w.roots) \subseteq Range(v.leaves) /\ Range(hoj'.leaves) = {}
    BY <2>1, <2>2, RangeOf DEF Range
  <2>5. \A c \in Range(w.roots) : Has(c, v.covered)
    BY <2>4
  <2>6. v.covered \in Nat /\ config.points \in Nat
    BY GoodConfig DEF TypeInv, Members
  <2>7. requested' = {"CONTINUE"} => hoj'.covered < config.points
    BY <1>2, <2>1, <2>3, <2>6 DEF Achieved
  <2>8. Achieved(hoj)' => \A b \in Range(hoj'.best) : Has(b.ec, config.points)
    BY <1>2, <2>1 DEF Achieved
  <2> QED
    BY <1>2, <1>3, <1>4, <1>6, <2>1, <2>2, <2>4, <2>5, <2>7, <2>8 DEF OrderedInv
<1> QED
  BY <1>1, <1>7, <1>8, <1>9

LEMMA EndHitOrdered ==
  ASSUME TypeInv, OrderedInv, config.ordered, EndHit
  PROVE  OrderedInv'
<1> DEFINE v == Covering(hoj)
           hit == hoj.most > 0
<1>1. /\ pc = "hit" /\ requested = {"CONTINUE"} /\ ready = <<>> /\ waiting = {} /\ v \in Members
      /\ Outcome(v, hit) /\ pc' \in {"run", "crashed"} /\ UNCHANGED config
  BY EndHitIs
<1>2. /\ HitInv /\ hoj \in Members /\ hoj.covered \in Nat /\ config.points \in Nat /\ hoj.most \in Nat
      /\ hoj.best \in Seq(Entries) /\ hoj.covered < config.points
  BY <1>1, GoodConfig DEF OrderedInv, TypeInv, Members
<1>3. /\ hoj.most = 0 => v = hoj
      /\ hoj.most # 0 => /\ v.covered = hoj.covered + hoj.most /\ Len(v.leaves) = Len(hoj.best)
                         /\ v.leaves = [ i \in DOMAIN hoj.best |-> hoj.best[i].ec ]
      /\ v.backtrack = hoj.backtrack /\ v.best = hoj.best /\ v.positive = hoj.positive
  BY <1>2, CoveringIs
<1>4. hit \in BOOLEAN /\ (hoj.most # 0 <=> hit)
  BY <1>2
<1> HIDE DEF v, hit
<1>5. /\ v.covered <= config.points /\ (~ hit => ~ Achieved(v))
      /\ \A c \in Range(v.leaves) : Has(c, v.covered)
      /\ Achieved(v) => \A b \in Range(v.best) : Has(b.ec, config.points)
  <2>1. CASE hoj.most = 0
    <3>1. v = hoj
      BY <1>3, <2>1
    <3> QED
      BY <1>1, <1>2, <3>1 DEF Achieved, OrderedInv
  <2>2. CASE hoj.most # 0
    <3>1. v.covered = hoj.covered + hoj.most /\ v.leaves = [ i \in DOMAIN hoj.best |-> hoj.best[i].ec ] /\ hit
      BY <1>3, <1>4, <2>2
    <3>2. \A b \in Range(hoj.best) : Has(b.ec, v.covered)
      BY <1>2, <3>1 DEF HitInv
    <3>3. \A c \in Range(v.leaves) : \E b \in Range(hoj.best) : c = b.ec
      BY <3>1 DEF Range
    <3>4. v.covered <= config.points
      BY <1>2, <3>1 DEF HitInv
    <3> QED
      BY <1>3, <3>1, <3>2, <3>3, <3>4 DEF Achieved
  <2> QED
    BY <2>1, <2>2
<1>6. /\ \A c \in Range(v.positive) : Has(c, config.points)
      /\ \A b \in Range(v.backtrack) : Has(b.ec, b.covered) /\ b.covered < config.points
  BY <1>3 DEF OrderedInv
<1> QED
  BY <1>1, <1>4, <1>5, <1>6, OutcomeOrdered

LEMMA HandleContinueOrdered ==
  ASSUME TypeInv, Unachieved, OrderedInv, config.ordered, HandleContinue
  PROVE  OrderedInv'
<1>1. /\ hoj \in Members /\ hoj.covered \in Nat /\ config.points \in Nat /\ requested = {"CONTINUE"}
      /\ hoj.covered < config.points /\ config \in Configs /\ hoj.roots \in Seq(Contexts)
      /\ \A c \in Range(hoj.roots) : Has(c, hoj.covered)
  BY HandleContinueIs, GoodConfig DEF OrderedInv, TypeInv, Members
<1>2. /\ pc' = "hit" /\ hoj' = Started(hoj) /\ todo' = Tasks(hoj) /\ saves' = <<>>
      /\ UNCHANGED <<config, open, limited, ready, waiting, gone, requested>>
  <2>1. ~ Achieved(hoj)
    BY <1>1 DEF Achieved
  <2> QED
    BY <2>1, HandleContinueIs
<1>3. /\ hoj'.most = 0 /\ hoj'.best = <<>> /\ hoj'.roots = hoj.roots /\ hoj'.backtrack = hoj.backtrack
      /\ hoj'.covered = hoj.covered /\ hoj'.positive = hoj.positive /\ hoj'.leaves = hoj.leaves
  BY <1>1, <1>2, StartedIs
<1>4. \A c, n : Has(c, n)' <=> Has(c, n)
  BY <1>2, HasSame
<1>5. DOMAIN hoj.roots = 1 .. Len(hoj.roots) /\ Len(hoj.roots) \in Nat
  BY <1>1, LenProperties
<1>6. todo' = [ i \in 1 .. Len(hoj.roots) |-> Task(Children(hoj.roots[i]), 1 .. hoj.covered, 0) ]
  BY <1>2, <1>5 DEF Tasks, FromTop
<1>7. Len(todo') = Len(hoj.roots)
  BY <1>5, <1>6
<1>8. ASSUME NEW i \in 1 .. Len(todo')
      PROVE  /\ todo'[i].done = 1 .. hoj.covered /\ todo'[i].count = 0
             /\ \A d \in todo'[i].left : Has(config.parent[d], hoj.covered)
  <2>1. todo'[i] = Task(Children(hoj.roots[i]), 1 .. hoj.covered, 0)
    BY <1>6, <1>7, <1>8
  <2>2. todo'[i].left = Children(hoj.roots[i]) /\ todo'[i].done = 1 .. hoj.covered /\ todo'[i].count = 0
    BY <2>1 DEF Task
  <2>3. hoj.roots[i] \in Range(hoj.roots)
    BY <1>5, <1>7, <1>8 DEF Range
  <2>4. \A d \in Children(hoj.roots[i]) : config.parent[d] = hoj.roots[i]
    BY DEF Children
  <2> QED
    BY <1>1, <2>2, <2>3, <2>4
<1>9. HitInv'
  <2>1. hoj.covered + 0 = hoj.covered /\ hoj.covered <= config.points
    BY <1>1
  <2>2. \A i \in 1 .. Len(todo') : GoodTask(todo[i])'
    BY <1>2, <1>3, <1>4, <1>8, <2>1 DEF GoodTask
  <2>3. Range(saves') = {} /\ Range(hoj'.best) = {}
    BY <1>2, <1>3 DEF Range
  <2> QED
    BY <1>2, <1>3, <2>1, <2>2, <2>3 DEF HitInv
<1>10. ~ Achieved(hoj)'
  BY <1>1, <1>2, <1>3 DEF Achieved
<1> QED
  BY <1>1, <1>2, <1>3, <1>4, <1>9, <1>10 DEF OrderedInv

LEMMA HandleGoalOrdered ==
  ASSUME TypeInv, Unachieved, OrderedInv, config.ordered, HandleGoalAchieved
  PROVE  OrderedInv'
<1>1. pc = "run" /\ "GOAL" \in requested /\ ready = <<>> /\ UNCHANGED <<config, pc, ready>>
  BY DEF HandleGoalAchieved
<1>2. config.points \in Nat \ {0} /\ \A c, n : Has(c, n)' <=> Has(c, n)
  BY <1>1, GoodConfig, HasSame DEF TypeInv
<1>3. CASE hoj' = hoj /\ requested' = (requested \ {"GOAL"}) \cup {"STOP"} /\ waiting' = waiting
  <2>1. "CONTINUE" \in requested' => "CONTINUE" \in requested
    BY <1>3
  <2>2. requested' # {"CONTINUE"}
    BY <1>3
  <2> QED
    BY <1>1, <1>2, <1>3, <2>1, <2>2 DEF OrderedInv, Achieved
<1>4. CASE /\ hoj'.covered = 0 /\ hoj'.backtrack = hoj.backtrack /\ hoj'.positive = hoj.positive
  <2>1. \A c : Has(c, hoj'.covered)
    BY <1>4, HasNone
  <2>2. ~ Achieved(hoj)' /\ hoj'.covered < config.points
    BY <1>1, <1>2, <1>4 DEF Achieved
  <2> QED
    BY <1>1, <1>2, <1>4, <2>1, <2>2 DEF OrderedInv
<1> QED
  BY <1>3, <1>4, GoalIs

LEMMA OrderedNext ==
  ASSUME TypeInv, Unachieved, OrderedInv, config.ordered, [Next]_vars
  PROVE  OrderedInv'
<1>1. CASE Return
  <2>1. /\ pc = "hit" /\ hoj' = hoj /\ saves' = saves /\ todo' = Tail(todo) /\ todo \in Seq(TaskSet) /\ todo # <<>>
        /\ UNCHANGED <<config, requested, ready, waiting, pc>>
    BY <1>1 DEF Return, Looks, aroundVars, TypeInv
  <2>2. HitInv
    BY <2>1 DEF OrderedInv
  <2>3. Len(todo) \in Nat /\ Len(Tail(todo)) = Len(todo) - 1 /\ \A i \in 1 .. Len(todo) - 1 : Tail(todo)[i] = todo[i + 1]
    BY <2>1
  <2>4. \A i \in 1 .. Len(Tail(todo)) : GoodTask(Tail(todo)[i])
    <3>1. \A i \in 1 .. Len(todo) - 1 : i + 1 \in 1 .. Len(todo)
      BY <2>3
    <3> QED
      BY <2>2, <2>3, <3>1 DEF HitInv
  <2>5. \A c, n : Has(c, n)' <=> Has(c, n)
    BY <2>1, HasSame
  <2>6. \A i \in 1 .. Len(todo') : GoodTask(todo[i])'
    BY <2>1, <2>4, <2>5 DEF GoodTask
  <2>7. HitInv'
    BY <2>1, <2>2, <2>5, <2>6 DEF HitInv
  <2> QED
    BY <2>1, <2>5, <2>7 DEF OrderedInv, Achieved
<1>2. CASE UNCHANGED vars
  <2>1. \A c, n : Has(c, n)' <=> Has(c, n)
    BY <1>2, HasSame DEF vars
  <2>2. \A i \in 1 .. Len(todo) : GoodTask(todo[i]) => GoodTask(todo[i])'
    BY <1>2, <2>1 DEF vars, GoodTask
  <2>3. HitInv => HitInv'
    BY <1>2, <2>1, <2>2 DEF vars, HitInv
  <2> QED
    BY <1>2, <2>1, <2>3 DEF vars, OrderedInv, Achieved
<1> QED
  BY <1>1, <1>2, ExploreOrdered, HandleContinueOrdered, SaveBestOrdered, VisitOrdered, EndHitOrdered,
     HandleGoalOrdered DEF Next

LEMMA InitOrdered ==
  ASSUME Init
  PROVE  OrderedInv
<1>1. /\ hoj.covered = 0 /\ hoj.positive = <<>> /\ hoj.backtrack = <<>> /\ pc = "run"
      /\ config.points \in Nat \ {0}
  BY InitTyped, GoodConfig DEF Init
<1>2. Range(hoj.positive) = {} /\ Range(hoj.backtrack) = {}
  BY <1>1 DEF Range
<1>3. \A c : Has(c, hoj.covered)
  BY <1>1, HasNone
<1>4. ~ Achieved(hoj) /\ hoj.covered < config.points
  BY <1>1 DEF Achieved
<1> QED
  BY <1>1, <1>2, <1>3, <1>4 DEF OrderedInv

\* In a search of a sequence, whatever was jumped over, backtracked to, or left of an earlier
\* search, what is said to achieve the goal has all the points on its path, in their order.
THEOREM OrderedGoalsHit == Spec => [](config.ordered => GoalsHit)
<1> DEFINE Inv == TypeInv /\ Unachieved /\ (config.ordered => OrderedInv)
<1>1. Init => Inv
  BY InitTyped, InitUnachieved, InitOrdered
<1>2. Inv /\ [Next]_vars => Inv'
  <2> SUFFICES ASSUME Inv, [Next]_vars PROVE Inv'
    OBVIOUS
  <2>1. TypeInv' /\ Unachieved'
    BY TypedNext
  <2>2. config' = config
    BY DEF Next, Explore, HandleContinue, Return, SaveBest, Visit, EndHit, HandleGoalAchieved, aroundVars, vars
  <2>3. config.ordered => OrderedInv'
    BY OrderedNext
  <2> QED
    BY <2>1, <2>2, <2>3
<1>3. Inv => (config.ordered => GoalsHit)
  <2> SUFFICES ASSUME Inv, config.ordered PROVE GoalsAreReal
    BY DEF GoalsHit
  <2>1. \A c : Witness(c) <=> Has(c, config.points)
    BY DEF Witness, Has, Points
  <2> QED
    BY <2>1 DEF OrderedInv, GoalsAreReal
<1> HIDE DEF Inv
<1> QED
  BY <1>1, <1>2, <1>3, PTL DEF Spec

-----------------------------------------------------------------------------
(* Nothing is evaluated twice. *)

\* Where NothingTwice is claimed.
Once ==
  /\ config.jumpCount = 1 \/ ~ Backtracks
  /\ config.final \/ config.max \/ (config.stop /\ config.global)

Ecs(s) == { b.ec : b \in Range(s) }

\* The contexts that the exploration has reached and not evaluated; and those at or below a root.
Fringe == { c \in Contexts : c \notin open /\ config.parent[c] \in open \cup {0} }
Under(c, roots) == \E r \in Range(roots) : r \in Above(c)

\* What was evaluated is closed upwards, and what a limit rejects is not evaluated.
OpenInv ==
  /\ \A c \in open : config.parent[c] \in open \cup {0}
  /\ limited \cap open = {}

\* The lists that wait for a later search hold different contexts that are not evaluated.
Resting(h) ==
  /\ Range(h.buffer) \cup Range(h.leaves) \cup Ecs(h.backtrack) \subseteq Fringe
  /\ IsInjective(h.buffer) /\ IsInjective(h.leaves) /\ DistinctEntries(h.backtrack)
  /\ Range(h.buffer) \cap (Range(h.leaves) \cup Ecs(h.backtrack)) = {}

\* No root is below another, nothing in the buffer is below one, and what is evaluated below one
\* is above the height of the jump.
Going(h) ==
  /\ \A i, j \in DOMAIN h.roots : h.roots[i] \in Above(h.roots[j]) => i = j
  /\ \A r \in Range(h.roots) : config.parent[r] \in open \cup {0}
  /\ \A c \in Range(h.buffer) : ~ Under(c, h.roots)
  /\ \A c \in open : Under(c, h.roots) => Height(c) < h.height

\* Nothing that is kept for backtracking is at or below a root.
Clear(h) == \A c \in Ecs(h.backtrack) : ~ Under(c, h.roots)

\* What is ready or waits is below a root, and in no list.
Queued ==
  /\ IsInjective(ready) /\ Range(ready) \cap waiting = {}
  /\ \A c \in Range(ready) \cup waiting :
       c \in Fringe /\ Under(c, hoj.roots) /\ c \notin Range(hoj.leaves)

\* What hit has still to look at is below a root, and above nothing that was found.
Due(c, roots, found) ==
  /\ Under(c, roots) /\ config.parent[c] \in open \cup {0}
  /\ \A e \in found : c \notin Above(e)
Tour(t, roots, found) ==
  /\ \A i \in 1 .. Len(t) : \A c \in t[i].left : Due(c, roots, found)
  /\ \A i, j \in 1 .. Len(t) : \A c \in t[i].left, d \in t[j].left : c \in Above(d) => c = d /\ i = j

Toured(h, s, t) == Tour(t, h.roots, Ecs(h.best) \cup Ecs(s) \cup Ecs(h.backtrack))

\* What hit has found, in three lists that share no context.
FoundOnce(h, s) ==
  /\ \A e \in Ecs(h.best) \cup Ecs(s) : Under(e, h.roots)
  /\ DistinctEntries(h.best) /\ DistinctEntries(s)
  /\ Ecs(h.best) \cap (Ecs(s) \cup Ecs(h.backtrack)) = {} /\ Ecs(s) \cap Ecs(h.backtrack) = {}
  /\ Ecs(s) \subseteq Fringe /\ (s # <<>> => Backtracks)
  /\ h.covered + h.most # config.points => Ecs(h.best) \subseteq Fringe

OnceInv ==
  /\ OpenInv /\ pc # "again"
  /\ ~ Backtracks => hoj.backtrack = <<>>
  /\ config.global => hoj.buffer = <<>>
  /\ requested \in {{"CONTINUE"}, {"GOAL"}, {"STOP"}}
  /\ requested = {"GOAL"} => ready = <<>>
  /\ requested = {"CONTINUE"} \/ hoj.buffer # <<>> => Resting(hoj)
  /\ requested = {"CONTINUE"} => Going(hoj) /\ Queued /\ ~ Achieved(hoj)
  /\ requested = {"CONTINUE"} /\ pc = "run" => Clear(hoj)
  /\ pc = "hit" => FoundOnce(hoj, saves) /\ Toured(hoj, saves, todo)

\* Above a context that was evaluated all were.
LEMMA OpenAbove ==
  ASSUME TypeInv, OpenInv
  PROVE  \A d \in open : Above(d) \subseteq open
<1> DEFINE T == { d \in open : ~ Above(d) \subseteq open }
<1>0. config \in Configs /\ open \subseteq Contexts
  BY DEF TypeInv
<1>1. T \subseteq Nat
  BY <1>0, GraphFacts
<1>2. ASSUME T # {} PROVE FALSE
  <2>1. PICK d \in T : \A y \in T : d <= y
    BY <1>1, <1>2, LeastNatural
  <2> DEFINE u == config.parent[d]
  <2>2. d \in open /\ d \in Contexts /\ d \in Nat
    BY <1>0, <1>1, <2>1
  <2>3. u \in Nat /\ u < d /\ Above(d) = Above(u) \cup {d} /\ u \in open \cup {0}
    BY <1>0, <2>2, GraphFacts DEF OpenInv
  <2> HIDE DEF u
  <2>4. u \notin T
    BY <2>1, <2>2, <2>3
  <2>5. Above(u) \subseteq open
    <3>1. Above(0) = {}
      BY DEF Above
    <3> QED
      BY <2>3, <2>4, <3>1
  <2> QED
    BY <2>1, <2>2, <2>3, <2>5
<1> QED
  BY <1>2

LEMMA Reached ==
  ASSUME TypeInv, OpenInv, NEW c \in Contexts, config.parent[c] \in open \cup {0}, NEW f \in Above(c)
  PROVE  f = c \/ f \in open
<1>1. Above(c) = Above(config.parent[c]) \cup {c}
  BY GraphFacts DEF TypeInv
<1>2. Above(config.parent[c]) \subseteq open
  <2>1. Above(0) = {}
    BY DEF Above
  <2> QED
    BY <2>1, OpenAbove
<1> QED
  BY <1>1, <1>2

\* Roots that were not evaluated.
LEMMA NewRoots ==
  ASSUME TypeInv, OpenInv, NEW h \in Members, Range(h.roots) \subseteq Fringe, IsInjective(h.roots),
         Range(h.buffer) \subseteq Fringe, Range(h.buffer) \cap Range(h.roots) = {}
  PROVE  /\ Going(h)
         /\ \A c \in Fringe : Under(c, h.roots) <=> c \in Range(h.roots)
<1>1. \A r \in Range(h.roots) : r \in Contexts /\ r \notin open /\ config.parent[r] \in open \cup {0}
  BY DEF Fringe
<1>2. \A c \in Contexts, r \in Range(h.roots) :
        config.parent[c] \in open \cup {0} /\ r \in Above(c) => r = c
  BY <1>1, Reached
<1>3. \A c \in Contexts : c \in Above(c)
  BY GraphFacts DEF TypeInv
<1>4. \A c \in Fringe : Under(c, h.roots) <=> c \in Range(h.roots)
  BY <1>1, <1>2, <1>3 DEF Fringe, Under
<1>5. \A i, j \in DOMAIN h.roots : h.roots[i] \in Above(h.roots[j]) => i = j
  <2>1. \A i \in DOMAIN h.roots : h.roots[i] \in Range(h.roots)
    BY DEF Range
  <2> QED
    BY <1>1, <1>2, <2>1 DEF IsInjective
<1>6. \A c \in open : ~ Under(c, h.roots)
  BY <1>1, OpenAbove DEF Under
<1> QED
  BY <1>1, <1>4, <1>5, <1>6 DEF Going

\* What does not depend on the rest of the state.
LEMMA SameGraph ==
  ASSUME UNCHANGED <<config, open, limited>>
  PROVE  /\ Fringe' = Fringe /\ (OpenInv' <=> OpenInv) /\ (Once' <=> Once)
         /\ (Backtracks' <=> Backtracks) /\ Contexts' = Contexts
         /\ \A c, r : Under(c, r)' <=> Under(c, r)
         /\ \A c : Above(c)' = Above(c)
         /\ \A h : (Resting(h)' <=> Resting(h)) /\ (Going(h)' <=> Going(h)) /\ (Clear(h)' <=> Clear(h))
         /\ \A h, s : FoundOnce(h, s)' <=> FoundOnce(h, s)
         /\ \A h, s, t : Toured(h, s, t)' <=> Toured(h, s, t)
<1>1. Contexts' = Contexts /\ (\A c : Above(c)' = Above(c)) /\ (Backtracks' <=> Backtracks)
  BY DEF Contexts, Above, Backtracks
<1>2. Fringe' = Fringe /\ (OpenInv' <=> OpenInv) /\ (Once' <=> Once)
  BY <1>1 DEF Fringe, OpenInv, Once
<1>3. \A c, r : Under(c, r)' <=> Under(c, r)
  BY <1>1 DEF Under
<1>4. \A c : Height(c)' = Height(c)
  BY <1>1 DEF Height
<1>5. \A h : (Resting(h)' <=> Resting(h)) /\ (Going(h)' <=> Going(h)) /\ (Clear(h)' <=> Clear(h))
  BY <1>1, <1>2, <1>3, <1>4 DEF Resting, Going, Clear
<1>6. \A h, s : FoundOnce(h, s)' <=> FoundOnce(h, s)
  BY <1>1, <1>2, <1>3 DEF FoundOnce
<1>7. \A h, s, t : Toured(h, s, t)' <=> Toured(h, s, t)
  BY <1>1, <1>3 DEF Toured, Tour, Due, Ecs
<1> QED
  BY <1>1, <1>2, <1>3, <1>5, <1>6, <1>7

LEMMA EcsOf ==
  ASSUME NEW s \in Seq(Entries)
  PROVE  /\ Ecs(s) \subseteq Contexts
         /\ \A i \in DOMAIN s : s[i].ec \in Ecs(s)
         /\ \A t \in Seq(Range(s)) : Ecs(t) \subseteq Ecs(s)
<1>1. Range(s) \subseteq Entries
  BY RangeOf
<1>2. Ecs(s) \subseteq Contexts
  BY <1>1 DEF Ecs, Entries
<1>3. \A i \in DOMAIN s : s[i].ec \in Ecs(s)
  BY DEF Ecs, Range
<1>4. \A t \in Seq(Range(s)) : Range(t) \subseteq Range(s)
  BY RangeOf
<1> QED
  BY <1>2, <1>3, <1>4 DEF Ecs

\* The members after a backtrack: the last entry is taken, and is in no list any more.
LEMMA LastDistinct ==
  ASSUME NEW s \in Seq(Entries), s # <<>>, DistinctEntries(s)
  PROVE  /\ DistinctEntries(Front(s)) /\ Last(s).ec \in Ecs(s) /\ Last(s).ec \notin Ecs(Front(s))
         /\ Ecs(Front(s)) \subseteq Ecs(s)
<1> DEFINE t == Front(s)
<1>1. /\ Last(s) \in Range(s) /\ t \in Seq(Entries) /\ Range(t) \subseteq Range(s)
      /\ Len(s) \in Nat /\ Len(s) > 0 /\ Len(t) = Len(s) - 1
      /\ \A i \in 1 .. Len(s) - 1 : t[i] = s[i]
      /\ Last(s) = s[Len(s)] /\ DOMAIN s = 1 .. Len(s)
  BY LastFront
<1> HIDE DEF t
<1>2. DOMAIN t = 1 .. Len(s) - 1 /\ \A x : x \in Range(t) <=> \E i \in 1 .. Len(t) : t[i] = x
  BY <1>1, RangeOf
<1>3. \A i \in DOMAIN t : i \in DOMAIN s /\ t[i] = s[i] /\ i # Len(s)
  BY <1>1, <1>2
<1>4. DistinctEntries(t)
  BY <1>3 DEF DistinctEntries
<1>5. ASSUME NEW b \in Range(t) PROVE b.ec # Last(s).ec
  <2>1. PICK i \in DOMAIN t : t[i] = b
    BY <1>1, <1>2, <1>5
  <2>2. Len(s) \in DOMAIN s
    BY <1>1
  <2> QED
    BY <1>1, <1>3, <2>1, <2>2 DEF DistinctEntries
<1>6. Last(s).ec \notin Ecs(t)
  BY <1>5 DEF Ecs
<1> QED
  BY <1>1, <1>4, <1>6 DEF Ecs, t

\* What the answer of hit leaves, v being the members with what was covered.
Answer(v, hit) ==
  /\ Range(v.buffer) \cup Ecs(v.backtrack) \subseteq Fringe
  /\ IsInjective(v.buffer) /\ DistinctEntries(v.backtrack)
  /\ Range(v.buffer) \cap (Range(v.leaves) \cup Ecs(v.backtrack)) = {}
  /\ (hit /\ Achieved(v)) \/ (Range(v.leaves) \subseteq Fringe /\ IsInjective(v.leaves))
  /\ hit => Range(v.leaves) \cap Ecs(v.backtrack) = {}
  /\ ~ Backtracks => v.backtrack = <<>>
  /\ config.global => v.buffer = <<>>
  /\ \A b \in Range(v.backtrack) : b.covered # config.points
  /\ ~ hit => ~ Achieved(v)

LEMMA GivenUpOnce ==
  ASSUME TypeInv, OpenInv, Once, NEW v \in Members, NEW hit \in BOOLEAN, Answer(v, hit),
         NEW w, Follows(v, w, hit /\ Achieved(v)), GivenUp(w),
         hit /\ Achieved(v) /\ (config.final \/ config.max) => w.leaves = <<>>,
         pc' \in {"run", "crashed"}, UNCHANGED <<config, open, limited>>, ready = <<>>
  PROVE  OnceInv'
<1>1. /\ w.buffer = v.buffer /\ w.leaves \in {<<>>, v.leaves} /\ w.backtrack \in Seq(Range(v.backtrack))
      /\ DistinctEntries(v.backtrack) => DistinctEntries(w.backtrack)
      /\ v.backtrack \in Seq(Entries)
  BY DEF Follows, Members
<1>2. Ecs(w.backtrack) \subseteq Ecs(v.backtrack)
  BY <1>1, EcsOf
<1>3. ~ Backtracks => w.backtrack = <<>>
  BY <1>1, SeqOfNothing DEF Answer
<1>4. Range(<<>>) = {} /\ IsInjective(<<>>)
  BY SeqOfNothing DEF IsInjective
<1>5. Range(w.leaves) \subseteq Range(v.leaves)
  BY <1>1, <1>4
<1>6. w.buffer # <<>> => Range(w.leaves) \subseteq Fringe /\ IsInjective(w.leaves)
  BY <1>1, <1>4 DEF Answer, Once
<1>7. w.buffer # <<>> => Resting(w)
  BY <1>1, <1>2, <1>5, <1>6 DEF Resting, Answer
<1>8. hoj' = w /\ requested' = {"GOAL"} /\ ready' = <<>>
  BY DEF GivenUp
<1>9. pc' # "again" /\ pc' # "hit" /\ requested' # {"CONTINUE"}
  BY <1>8
<1>10. OpenInv' /\ (config.global => w.buffer = <<>>)
  BY <1>1, SameGraph DEF Answer
<1>11. (~ Backtracks)' <=> ~ Backtracks
  BY SameGraph
<1>12. hoj'.buffer # <<>> => Resting(hoj)'
  BY <1>7, <1>8, SameGraph
<1> QED
  BY <1>3, <1>8, <1>9, <1>10, <1>11, <1>12 DEF OnceInv

\* Where the search goes on from new roots, in no list.
LEMMA RootedOnce ==
  ASSUME TypeInv, OpenInv, UNCHANGED <<config, open, limited>>, pc' \in {"run", "crashed"},
         requested' = {"CONTINUE"}, hoj' \in Members, Resting(hoj'),
         ~ Backtracks => hoj'.backtrack = <<>>, config.global => hoj'.buffer = <<>>,
         Range(hoj'.roots) \subseteq Fringe, IsInjective(hoj'.roots),
         Range(hoj'.roots) \cap (Range(hoj'.buffer) \cup Range(hoj'.leaves) \cup Ecs(hoj'.backtrack)) = {},
         \/ ready' = hoj'.roots /\ waiting' = {}
         \/ ready' = <<>> /\ waiting' = Range(hoj'.roots),
         hoj'.covered # config.points
  PROVE  OnceInv'
<1> DEFINE h == hoj'
<1>1. Range(h.buffer) \subseteq Fringe /\ Ecs(h.backtrack) \subseteq Fringe
  BY DEF Resting
<1>2. Going(h) /\ \A c \in Fringe : Under(c, h.roots) <=> c \in Range(h.roots)
  BY <1>1, NewRoots
<1>3. Clear(h)
  <2>1. \A c \in Ecs(h.backtrack) : c \in Fringe /\ c \notin Range(h.roots)
    BY <1>1
  <2> QED
    BY <1>2, <2>1 DEF Clear
<1>4. Range(<<>>) = {} /\ IsInjective(<<>>)
  BY SeqOfNothing DEF IsInjective
<1>5. IsInjective(ready') /\ Range(ready') \cap waiting' = {} /\ Range(ready') \cup waiting' = Range(h.roots)
  BY <1>4
<1>6. \A c \in Range(ready') \cup waiting' : c \in Fringe /\ Under(c, h.roots) /\ c \notin Range(h.leaves)
  BY <1>2, <1>5
<1>7. (\A c, r : Under(c, r)' <=> Under(c, r)) /\ Fringe' = Fringe
  BY SameGraph
<1>8. Queued'
  BY <1>5, <1>6, <1>7 DEF Queued
<1>9. Resting(hoj)' /\ Going(hoj)' /\ OpenInv' /\ (Backtracks' <=> Backtracks)
  BY <1>2, SameGraph
<1>10. ~ Achieved(hoj)'
  BY DEF Achieved
<1>11. Clear(hoj)'
  BY <1>3, SameGraph
<1>12. pc' # "again" /\ pc' # "hit" /\ requested' # {"GOAL"}
  OBVIOUS
<1> QED
  BY <1>8, <1>9, <1>10, <1>11, <1>12 DEF OnceInv

LEMMA BacktrackedOnce ==
  ASSUME TypeInv, OpenInv, NEW v \in Members, NEW hit \in BOOLEAN, Answer(v, hit),
         NEW w, NEW goal, NEW posted \in {{}, {"GOAL"}}, Follows(v, w, goal), Backtracked(w, posted),
         requested' = {"CONTINUE"},
         pc' \in {"run", "crashed"}, UNCHANGED <<config, open, limited>>, ready = <<>>
  PROVE  OnceInv'
<1> DEFINE b == Last(w.backtrack)
<1>1. /\ w \in Members /\ w.buffer = v.buffer /\ w.backtrack \in Seq(Range(v.backtrack))
      /\ DistinctEntries(w.backtrack) /\ v.backtrack \in Seq(Entries) /\ w.backtrack \in Seq(Entries)
      /\ w.backtrack # <<>> /\ w.leaves = <<>>
  BY DEF Follows, Members, Answer, Backtracked
<1>2. Ecs(w.backtrack) \subseteq Ecs(v.backtrack)
  BY <1>1, EcsOf
<1>3. /\ DistinctEntries(Front(w.backtrack)) /\ b.ec \in Ecs(w.backtrack)
      /\ b.ec \notin Ecs(Front(w.backtrack)) /\ Ecs(Front(w.backtrack)) \subseteq Ecs(w.backtrack)
  BY <1>1, LastDistinct
<1>4. /\ b \in Range(w.backtrack) /\ hoj' \in Members
      /\ hoj'.backtrack = Front(w.backtrack) /\ hoj'.roots = <<b.ec>>
      /\ hoj'.covered = b.covered /\ hoj'.leaves = w.leaves /\ hoj'.buffer = w.buffer
      /\ waiting' = {b.ec} /\ ready' = ready
  BY <1>1, BacktrackedIs
<1> HIDE DEF b
<1>5. b \in Range(v.backtrack)
  BY <1>1, <1>4, RangeOf
<1>6. Range(<<>>) = {} /\ IsInjective(<<>>)
  BY SeqOfNothing DEF IsInjective
<1>7. Range(<<b.ec>>) = {b.ec} /\ IsInjective(<<b.ec>>)
  BY DEF Range, IsInjective
<1>8. Resting(hoj')
  BY <1>1, <1>2, <1>3, <1>4, <1>6 DEF Resting, Answer
<1>9. Range(hoj'.roots) \subseteq Fringe
  BY <1>2, <1>3, <1>4, <1>7 DEF Answer
<1>10. Range(hoj'.roots) \cap (Range(hoj'.buffer) \cup Range(hoj'.leaves) \cup Ecs(hoj'.backtrack)) = {}
  BY <1>1, <1>2, <1>3, <1>4, <1>6, <1>7 DEF Answer
<1>11. Backtracks /\ (config.global => hoj'.buffer = <<>>) /\ hoj'.covered # config.points
  <2>1. v.backtrack # <<>>
    BY <1>5, <1>6
  <2> QED
    BY <1>1, <1>4, <1>5, <2>1 DEF Answer
<1> QED
  BY <1>4, <1>7, <1>8, <1>9, <1>10, <1>11, RootedOnce

LEMMA JumpedOnce ==
  ASSUME TypeInv, OpenInv, Once, NEW v \in Members, NEW hit \in BOOLEAN, Answer(v, hit),
         NEW w, Follows(v, w, hit /\ Achieved(v)), Jumped(v, w, {}, hit), ~ (hit /\ Achieved(v)),
         pc' \in {"run", "crashed"}, UNCHANGED <<config, open, limited>>, waiting = {}
  PROVE  OnceInv'
<1>1. /\ w \in Members /\ w.buffer = v.buffer /\ w.backtrack \in Seq(Range(v.backtrack))
      /\ DistinctEntries(w.backtrack) /\ v.backtrack \in Seq(Entries) /\ v.leaves \in Seq(Contexts)
      /\ w.covered = v.covered /\ w.leaves = <<>> /\ IsInjective(w.roots) /\ w.roots \in Seq(Range(v.leaves))
  BY DEF Follows, Members, Answer, Jumped
<1>2. Ecs(w.backtrack) \subseteq Ecs(v.backtrack)
  BY <1>1, EcsOf
<1>3. /\ hoj' \in Members /\ hoj'.roots = w.roots /\ hoj'.backtrack = w.backtrack /\ hoj'.covered = w.covered
      /\ hoj'.leaves = w.leaves /\ hoj'.buffer = w.buffer
  BY <1>1, JumpedIs
<1>4. ready' = w.roots /\ requested' = {"CONTINUE"} /\ waiting' = {}
  BY DEF Jumped
<1>5. Range(w.roots) \subseteq Range(v.leaves)
  BY <1>1, RangeOf
<1>6. Range(<<>>) = {} /\ IsInjective(<<>>)
  BY SeqOfNothing DEF IsInjective
<1>7. Resting(hoj')
  BY <1>1, <1>2, <1>3, <1>6 DEF Resting, Answer
<1>8. ~ Backtracks => hoj'.backtrack = <<>>
  BY <1>1, <1>3, SeqOfNothing DEF Answer
<1>9. Range(w.roots) \cap Ecs(w.backtrack) = {}
  <2>1. CASE hit
    BY <1>2, <1>5, <2>1 DEF Answer
  <2>2. CASE ~ Backtracks
    BY <1>3, <1>6, <1>8, <2>2 DEF Ecs
  <2>3. CASE ~ hit /\ Backtracks
    <3>1. \A b \in Range(w.backtrack) : b.ec \notin Range(w.roots)
      BY <2>3 DEF Jumped, Once
    <3> QED
      BY <3>1 DEF Ecs
  <2> QED
    BY <2>1, <2>2, <2>3
<1>10. Range(hoj'.roots) \cap (Range(hoj'.buffer) \cup Range(hoj'.leaves) \cup Ecs(hoj'.backtrack)) = {}
  BY <1>1, <1>3, <1>5, <1>6, <1>9 DEF Answer
<1>11. Range(hoj'.roots) \subseteq Fringe
  BY <1>3, <1>5 DEF Answer
<1>12. hoj'.covered # config.points /\ (config.global => hoj'.buffer = <<>>)
  BY <1>1, <1>3 DEF Answer, Achieved
<1> QED
  BY <1>1, <1>3, <1>4, <1>7, <1>8, <1>10, <1>11, <1>12, RootedOnce

LEMMA OutcomeOnce ==
  ASSUME TypeInv, OpenInv, Once, NEW v \in Members, NEW hit \in BOOLEAN, Answer(v, hit), Outcome(v, hit),
         pc' \in {"run", "crashed"}, UNCHANGED <<config, open, limited>>, ready = <<>>, waiting = {}
  PROVE  OnceInv'
<1>0. PICK posted \in {{}, {"GOAL"}} : \E w :
       /\ Follows(v, w, hit /\ Achieved(v))
       /\ GivenUp(w) \/ Backtracked(w, posted) \/ Jumped(v, w, posted, hit)
       /\ hit /\ Achieved(v) /\ ~ Backtracked(w, posted) =>
            requested' = {"GOAL"} \/ (posted = {"GOAL"} /\ ~ config.final /\ ~ config.max /\ ~ config.stop)
       /\ posted = {"GOAL"} => hit /\ Achieved(v)
       /\ hit /\ Achieved(v) /\ (config.final \/ config.max) => w.leaves = <<>>
       /\ Backtracked(w, posted) /\ posted = {"GOAL"} => ~ config.final /\ ~ config.max /\ ~ config.stop
  BY DEF Outcome
<1>1. PICK w :
       /\ Follows(v, w, hit /\ Achieved(v))
       /\ GivenUp(w) \/ Backtracked(w, posted) \/ Jumped(v, w, posted, hit)
       /\ hit /\ Achieved(v) /\ ~ Backtracked(w, posted) =>
            requested' = {"GOAL"} \/ (posted = {"GOAL"} /\ ~ config.final /\ ~ config.max /\ ~ config.stop)
       /\ posted = {"GOAL"} => hit /\ Achieved(v)
       /\ hit /\ Achieved(v) /\ (config.final \/ config.max) => w.leaves = <<>>
       /\ Backtracked(w, posted) /\ posted = {"GOAL"} => ~ config.final /\ ~ config.max /\ ~ config.stop
  BY <1>0
<1>2. CASE GivenUp(w)
  BY <1>1, <1>2, GivenUpOnce
<1>3. CASE Backtracked(w, posted) /\ posted = {}
  <2>1. requested' = {"CONTINUE"}
    BY <1>1, <1>3, BacktrackedIs DEF Follows
  <2> QED
    BY <1>1, <1>3, <2>1, BacktrackedOnce
<1>5. Backtracked(w, posted) => posted = {}
  BY <1>1 DEF Once
<1>4. CASE Jumped(v, w, posted, hit) /\ ~ Backtracked(w, posted)
  <2>1. ~ (hit /\ Achieved(v))
    <3>1. requested' = posted \cup {"CONTINUE"}
      BY <1>4 DEF Jumped
    <3>2. requested' # {"GOAL"}
      BY <3>1
    <3> QED
      BY <1>1, <1>4, <3>2 DEF Once
  <2>2. posted = {}
    BY <1>1, <2>1
  <2> QED
    BY <1>1, <1>4, <2>1, <2>2, JumpedOnce
<1> QED
  BY <1>1, <1>2, <1>3, <1>4, <1>5

LEMMA SameUnder ==
  ASSUME UNCHANGED config
  PROVE  /\ (Once' <=> Once) /\ (Backtracks' <=> Backtracks) /\ Contexts' = Contexts
         /\ \A c, r : Under(c, r)' <=> Under(c, r)
         /\ \A c : Above(c)' = Above(c) /\ Height(c)' = Height(c)
         /\ \A h : Clear(h)' <=> Clear(h)
<1>1. Contexts' = Contexts /\ (\A c : Above(c)' = Above(c)) /\ (Backtracks' <=> Backtracks)
  BY DEF Contexts, Above, Backtracks
<1>2. Once' <=> Once
  BY <1>1 DEF Once
<1>3. \A c, r : Under(c, r)' <=> Under(c, r)
  BY <1>1 DEF Under
<1>4. \A c : Height(c)' = Height(c)
  BY <1>1 DEF Height
<1>5. \A h : Clear(h)' <=> Clear(h)
  BY <1>3 DEF Clear
<1> QED
  BY <1>1, <1>2, <1>3, <1>4, <1>5

LEMMA InjectiveConcat ==
  ASSUME NEW T, NEW s \in Seq(T), NEW t \in Seq(T), IsInjective(s), IsInjective(t), Range(s) \cap Range(t) = {}
  PROVE  IsInjective(s \o t)
<1>1. /\ Len(s) \in Nat /\ Len(t) \in Nat /\ DOMAIN s = 1 .. Len(s) /\ DOMAIN t = 1 .. Len(t)
      /\ s \o t \in Seq(T) /\ Len(s \o t) = Len(s) + Len(t)
      /\ \A i \in 1 .. Len(s) + Len(t) : (s \o t)[i] = IF i <= Len(s) THEN s[i] ELSE t[i - Len(s)]
  BY LenProperties, ConcatProperties
<1> DEFINE u == s \o t
<1>2. DOMAIN u = 1 .. Len(s) + Len(t)
  BY <1>1, LenProperties
<1>3. /\ \A i \in DOMAIN s : s[i] \in Range(s)
      /\ \A i \in DOMAIN t : t[i] \in Range(t)
  BY DEF Range
<1> HIDE DEF u
<1>4. ASSUME NEW i \in DOMAIN u, NEW j \in DOMAIN u, (s \o t)[i] = (s \o t)[j] PROVE i = j
  <2>1. CASE i <= Len(s) /\ j <= Len(s)
    BY <1>1, <1>2, <1>4, <2>1 DEF IsInjective
  <2>2. CASE ~ i <= Len(s) /\ ~ j <= Len(s)
    <3>1. i - Len(s) \in DOMAIN t /\ j - Len(s) \in DOMAIN t
      BY <1>1, <1>2, <2>2
    <3>2. t[i - Len(s)] = t[j - Len(s)]
      BY <1>1, <1>2, <1>4, <2>2
    <3>3. i - Len(s) = j - Len(s)
      BY <3>1, <3>2 DEF IsInjective
    <3> QED
      BY <1>1, <1>2, <3>3
  <2>3. CASE i <= Len(s) /\ ~ j <= Len(s)
    BY <1>1, <1>2, <1>3, <1>4, <2>3
  <2>4. CASE ~ i <= Len(s) /\ j <= Len(s)
    BY <1>1, <1>2, <1>3, <1>4, <2>4
  <2> QED
    BY <2>1, <2>2, <2>3, <2>4
<1>5. \A i, j \in DOMAIN u : u[i] = u[j] => i = j
  BY <1>4 DEF u
<1> QED
  BY <1>5 DEF IsInjective, u

LEMMA ExploreOnce ==
  ASSUME TypeInv, Once, OnceInv, Explore
  PROVE  OnceInv'
<1>1. PICK batch : Explored(batch)
  BY ExploreIs
<1> DEFINE E == Evaluated(batch)
           D == { d \in Contexts : config.parent[d] \in E }
           deep == TooDeep(batch)
<1>2. requested = {"CONTINUE"} /\ pc = "run" /\ UNCHANGED <<config, requested>>
  BY <1>1 DEF Explored, OnceInv
<1>3. OpenInv /\ Resting(hoj) /\ Going(hoj) /\ Queued /\ ~ Achieved(hoj) /\ Clear(hoj)
  BY <1>2 DEF OnceInv
<1>4. /\ hoj \in Members /\ hoj' \in Members
      /\ hoj'.roots = hoj.roots /\ hoj'.buffer = hoj.buffer /\ hoj'.backtrack = hoj.backtrack
      /\ hoj'.covered = hoj.covered /\ hoj'.height = hoj.height /\ hoj'.leaves = hoj.leaves \o deep
      /\ hoj.leaves \in Seq(Contexts) /\ deep \in Seq(Contexts)
  BY <1>1 DEF TypeInv, Explored, Members
<1>5. /\ batch \in Seq(Contexts) /\ ready' = <<>> /\ waiting' = (waiting \ Range(batch)) \cup D
      /\ limited' = limited \cup (Range(batch) \cap config.beyond) /\ open' = open \cup E
      /\ pc' = IF E \cap open = {} /\ IsInjective(Those(batch, E)) THEN "run" ELSE "again"
  BY <1>1 DEF Explored
<1>6. Range(batch) \subseteq Range(ready) \cup waiting /\ IsInjective(batch)
  <2>1. CASE batch = ready
    BY <1>3, <2>1 DEF Queued
  <2>2. CASE \E c \in waiting : batch = <<c>>
    BY <2>2 DEF Range, IsInjective
  <2> QED
    BY <1>1, <2>1, <2>2 DEF Explored
<1>7. E \subseteq Range(batch) \ config.beyond /\ (\A c \in E : Height(c) < hoj.height) /\ open \subseteq Contexts
  BY DEF Evaluated, Main, TypeInv
<1>8. /\ Range(deep) \subseteq Range(batch) \ E /\ IsInjective(deep)
      /\ IsInjective(Those(batch, E))
  <2>1. \A S : /\ Range(Those(batch, S)) = Range(batch) \cap S
               /\ IsInjective(Those(batch, S))
    BY <1>5, <1>6, ThoseOwn
  <2> QED
    BY <2>1 DEF TooDeep
<1> HIDE DEF deep, E
<1>9. \A c \in Range(batch) : c \in Fringe /\ Under(c, hoj.roots) /\ c \notin Range(hoj.leaves)
  BY <1>3, <1>6 DEF Queued
<1>10. E \subseteq Fringe /\ E \subseteq Contexts /\ E \cap open = {}
  BY <1>7, <1>9 DEF Fringe
<1>11. pc' = "run"
  BY <1>5, <1>8, <1>10
<1>12. \A d \in Contexts : config.parent[d] \in Contexts \cup {0} /\ Above(d) = Above(config.parent[d]) \cup {d}
  BY GraphFacts DEF TypeInv
<1>13. 0 \notin Contexts
  BY GraphFacts DEF TypeInv
<1>14. OpenInv'
  <2>1. \A c \in open' : config.parent[c] \in open' \cup {0}
    BY <1>3, <1>5, <1>10 DEF OpenInv, Fringe
  <2>2. limited' \cap open' = {}
    <3>1. limited \subseteq config.beyond
      BY DEF TypeInv
    <3>2. \A c \in Range(batch) : c \notin open
      BY <1>9 DEF Fringe
    <3> QED
      BY <1>3, <1>5, <1>7, <3>1, <3>2 DEF OpenInv
  <2> QED
    BY <1>2, <2>1, <2>2 DEF OpenInv
<1>15. /\ Fringe' = { c \in Contexts : c \notin open' /\ config.parent[c] \in open' \cup {0} }
       /\ Contexts' = Contexts
  BY <1>2 DEF Fringe, Contexts
<1>16. Fringe \ E \subseteq Fringe'
  BY <1>5, <1>15 DEF Fringe
<1>17. D \subseteq Fringe' /\ D \cap Fringe = {}
  <2>1. ASSUME NEW d \in D PROVE d \notin open /\ d \notin E /\ d \notin Fringe /\ config.parent[d] \in E
    <3>1. config.parent[d] \in E /\ config.parent[d] \notin open /\ config.parent[d] # 0
      BY <1>10, <1>13
    <3>2. d \notin open /\ d \notin Fringe
      BY <1>3, <3>1 DEF OpenInv, Fringe
    <3> QED
      BY <1>10, <3>1, <3>2
  <2> QED
    BY <1>5, <1>15, <2>1
<1> HIDE DEF D
<1>18. \A c \in E : Under(c, hoj.roots)
  BY <1>7, <1>9
<1>19. /\ Range(hoj.buffer) \cap E = {} /\ Range(hoj.leaves) \cap E = {} /\ Ecs(hoj.backtrack) \cap E = {}
       /\ Range(hoj.buffer) \cap Range(deep) = {} /\ Range(hoj.leaves) \cap Range(deep) = {}
  BY <1>3, <1>7, <1>8, <1>9, <1>18 DEF Going, Clear
<1>20. Range(hoj'.leaves) = Range(hoj.leaves) \cup Range(deep) /\ IsInjective(hoj'.leaves)
  <2>1. IsInjective(hoj.leaves)
    BY <1>3 DEF Resting
  <2> QED
    BY <1>4, <1>8, <1>19, <2>1, RangeOf, InjectiveConcat
<1>21. Range(deep) \subseteq Fringe'
  BY <1>8, <1>9, <1>16
<1>22. Resting(hoj)'
  <2>1. Range(hoj.buffer) \subseteq Fringe' /\ Range(hoj'.leaves) \subseteq Fringe' /\ Ecs(hoj.backtrack) \subseteq Fringe'
    BY <1>3, <1>16, <1>19, <1>20, <1>21 DEF Resting
  <2>2. Range(hoj.buffer) \cap (Range(hoj'.leaves) \cup Ecs(hoj.backtrack)) = {}
    BY <1>3, <1>19, <1>20 DEF Resting
  <2>3. Ecs(hoj.backtrack)' = Ecs(hoj.backtrack)
    BY <1>4 DEF Ecs
  <2>4. IsInjective(hoj.buffer) /\ DistinctEntries(hoj.backtrack)
    BY <1>3 DEF Resting
  <2> QED
    BY <1>4, <1>20, <2>1, <2>2, <2>3, <2>4 DEF Resting
<1>23. \A c, r : Under(c, r)' <=> Under(c, r)
  BY <1>2, SameUnder
<1>24. Going(hoj)'
  <2>1. \A c : Above(c)' = Above(c) /\ Height(c)' = Height(c)
    BY <1>2, SameUnder
  <2>2. \A c \in open' : Under(c, hoj.roots) => Height(c) < hoj.height
    BY <1>3, <1>5, <1>7, <1>10 DEF Going, Evaluated
  <2>3. /\ \A i, j \in DOMAIN hoj.roots : hoj.roots[i] \in Above(hoj.roots[j]) => i = j
        /\ \A r \in Range(hoj.roots) : config.parent[r] \in open' \cup {0}
        /\ \A c \in Range(hoj.buffer) : ~ Under(c, hoj.roots)
    BY <1>3, <1>5 DEF Going
  <2> QED
    BY <1>2, <1>4, <1>23, <2>1, <2>2, <2>3 DEF Going
<1>25. Queued'
  <2>1. Range(<<>>) = {} /\ IsInjective(<<>>)
    BY SeqOfNothing DEF IsInjective
  <2>2. ASSUME NEW c \in waiting \ Range(batch)
        PROVE  c \in Fringe' /\ Under(c, hoj.roots) /\ c \notin Range(hoj'.leaves)
    BY <1>3, <1>7, <1>8, <1>16, <1>20, <2>2 DEF Queued
  <2>3. ASSUME NEW d \in D
        PROVE  d \in Fringe' /\ Under(d, hoj.roots) /\ d \notin Range(hoj'.leaves)
    <3>1. Above(config.parent[d]) \subseteq Above(d) /\ Under(config.parent[d], hoj.roots)
      BY <1>12, <1>18 DEF D
    <3>2. Under(d, hoj.roots)
      BY <3>1 DEF Under
    <3>3. Range(hoj'.leaves) \subseteq Fringe
      BY <1>3, <1>8, <1>9, <1>20 DEF Resting
    <3> QED
      BY <1>17, <3>2, <3>3
  <2> QED
    BY <1>4, <1>5, <1>23, <2>1, <2>2, <2>3 DEF Queued
<1>26. Clear(hoj)' /\ ~ Achieved(hoj)'
  <2>1. Ecs(hoj.backtrack)' = Ecs(hoj.backtrack)
    BY <1>4 DEF Ecs
  <2>2. Clear(hoj)'
    BY <1>3, <1>4, <1>23, <2>1 DEF Clear
  <2> QED
    BY <1>2, <1>3, <1>4, <2>2 DEF Achieved
<1>27. /\ ~ Backtracks' => hoj'.backtrack = <<>>
       /\ config.global => hoj'.buffer = <<>>
  BY <1>2, <1>4, SameUnder DEF OnceInv
<1> QED
  BY <1>2, <1>11, <1>14, <1>22, <1>24, <1>25, <1>26, <1>27 DEF OnceInv

LEMMA HandleGoalOnce ==
  ASSUME TypeInv, Once, OnceInv, HandleGoalAchieved
  PROVE  OnceInv'
<1> DEFINE r == Head(hoj.buffer)
<1>1. /\ TypeInv' /\ "GOAL" \in requested /\ ready = <<>> /\ pc = "run"
      /\ \/ hoj' = hoj /\ requested' = (requested \ {"GOAL"}) \cup {"STOP"} /\ waiting' = waiting
         \/ /\ hoj.buffer # <<>> /\ requested' = (requested \ {"GOAL"}) \cup {"CONTINUE"}
            /\ waiting' = {r} /\ r \in Contexts
            /\ hoj'.roots = <<r>> /\ hoj'.buffer = Tail(hoj.buffer) /\ hoj'.covered = 0
            /\ hoj'.leaves = hoj.leaves /\ hoj'.backtrack = hoj.backtrack
  BY GoalIs
<1>2. UNCHANGED <<config, open, ready, limited, pc>>
  BY DEF HandleGoalAchieved
<1>3. requested = {"GOAL"} /\ OpenInv /\ (hoj.buffer # <<>> => Resting(hoj))
  BY <1>1 DEF OnceInv
<1>4. CASE hoj' = hoj /\ requested' = (requested \ {"GOAL"}) \cup {"STOP"} /\ waiting' = waiting
  <2>1. requested' = {"STOP"}
    BY <1>3, <1>4
  <2>2. hoj'.buffer # <<>> => Resting(hoj)'
    BY <1>2, <1>3, <1>4, SameGraph
  <2>3. OpenInv' /\ (Backtracks' <=> Backtracks)
    BY <1>2, <1>3, SameGraph
  <2>4. pc' = "run" /\ requested' # {"CONTINUE"} /\ requested' # {"GOAL"}
    BY <1>1, <1>2, <2>1
  <2> QED
    BY <1>2, <1>4, <2>1, <2>2, <2>3, <2>4 DEF OnceInv
<1>5. CASE hoj.buffer # <<>> /\ requested' = (requested \ {"GOAL"}) \cup {"CONTINUE"}
  <2>1. /\ requested' = {"CONTINUE"} /\ waiting' = {r} /\ r \in Contexts
        /\ hoj'.roots = <<r>> /\ hoj'.buffer = Tail(hoj.buffer) /\ hoj'.covered = 0
        /\ hoj'.leaves = hoj.leaves /\ hoj'.backtrack = hoj.backtrack /\ hoj' \in Members
    <3>1. requested' = {"CONTINUE"}
      BY <1>3, <1>5
    <3>2. ~ (requested' = (requested \ {"GOAL"}) \cup {"STOP"})
      BY <3>1
    <3>3. hoj' \in Members
      <4>1. Members' = Members
        BY <1>2, SameConfig
      <4>2. (hoj \in Members)'
        BY <1>1 DEF TypeInv
      <4> QED
        BY <4>1, <4>2
    <3> HIDE DEF r
    <3> QED
      BY <1>1, <3>1, <3>2, <3>3
  <2>2. hoj.buffer \in Seq(Contexts)
    BY DEF TypeInv, Members
  <2>3. /\ r \in Range(hoj.buffer) /\ Range(Tail(hoj.buffer)) \subseteq Range(hoj.buffer) \ {r}
        /\ IsInjective(Tail(hoj.buffer))
    <3> DEFINE s == hoj.buffer
               t == Tail(s)
    <3>1. /\ Len(s) \in Nat \ {0} /\ DOMAIN s = 1 .. Len(s) /\ s[1] = r
          /\ t \in Seq(Contexts) /\ Len(t) = Len(s) - 1 /\ \A i \in 1 .. Len(t) : t[i] = s[i + 1]
      BY <1>5, <2>2
    <3>2. IsInjective(s)
      BY <1>3, <1>5 DEF Resting
    <3> HIDE DEF s, t, r
    <3>3. DOMAIN t = 1 .. Len(s) - 1
      BY <3>1, LenProperties
    <3>4. \A i \in DOMAIN t : i + 1 \in DOMAIN s /\ t[i] = s[i + 1] /\ i \in Nat /\ 1 # i + 1 /\ 1 \in DOMAIN s
      BY <3>1, <3>3
    <3>5. r \in Range(s) /\ \A i \in DOMAIN t : t[i] \in Range(s) /\ t[i] # r
      BY <3>1, <3>2, <3>4 DEF Range, IsInjective
    <3>6. IsInjective(t)
      <4>1. ASSUME NEW i \in DOMAIN t, NEW j \in DOMAIN t, t[i] = t[j] PROVE i = j
        <5>1. i + 1 = j + 1
          BY <3>2, <3>4, <4>1 DEF IsInjective
        <5> QED
          BY <3>4, <5>1
      <4> QED
        BY <4>1 DEF IsInjective
    <3>7. Range(t) = { t[i] : i \in DOMAIN t }
      BY DEF Range
    <3> QED
      BY <3>5, <3>6, <3>7 DEF s, t
  <2>4. Range(<<r>>) = {r} /\ IsInjective(<<r>>)
    BY DEF Range, IsInjective
  <2> HIDE DEF r
  <2>5. Resting(hoj)
    BY <1>3, <1>5
  <2>6. Resting(hoj')
    BY <2>1, <2>3, <2>5 DEF Resting
  <2>7. /\ Range(hoj'.roots) \subseteq Fringe
        /\ Range(hoj'.roots) \cap (Range(hoj'.buffer) \cup Range(hoj'.leaves) \cup Ecs(hoj'.backtrack)) = {}
    BY <2>1, <2>3, <2>4, <2>5 DEF Resting
  <2>8. hoj'.covered # config.points
    BY <2>1, GoodConfig DEF TypeInv
  <2>9. (~ Backtracks => hoj'.backtrack = <<>>) /\ (config.global => hoj'.buffer = <<>>)
    BY <1>5, <2>1 DEF OnceInv
  <2>10. ready' = <<>> /\ waiting' = Range(hoj'.roots) /\ pc' \in {"run", "crashed"}
    BY <1>1, <1>2, <2>1, <2>4
  <2> QED
    BY <1>2, <1>3, <2>1, <2>4, <2>6, <2>7, <2>8, <2>9, <2>10, RootedOnce
<1> QED
  BY <1>1, <1>4, <1>5

LEMMA InitOnce ==
  ASSUME Init
  PROVE  OnceInv
<1> DEFINE I == Range(config.initial)
<1>1. /\ TypeInv /\ hoj.covered = 0 /\ hoj.backtrack = <<>> /\ hoj.leaves = <<>>
      /\ hoj.roots = IF config.global THEN config.initial ELSE <<Head(config.initial)>>
      /\ hoj.buffer = IF config.global THEN <<>> ELSE Tail(config.initial)
  BY InitTyped
<1>2. /\ config \in Configs /\ limited = {} /\ ready = <<>> /\ requested = {"CONTINUE"} /\ pc = "run"
      /\ open = UNION { Above(config.parent[c]) : c \in I } /\ waiting = Range(hoj.roots)
  BY DEF Init
<1>3. /\ config.initial # <<>> /\ config.initial \in Seq(Contexts) /\ config.points \in Nat \ {0} /\ Good(config)
  BY <1>2, GoodConfig
<1>4. I \subseteq Contexts /\ DOMAIN config.initial = 1 .. Len(config.initial) /\ Len(config.initial) \in Nat
  BY <1>3, RangeOf
<1>5. /\ \A d \in Contexts :
           /\ config.parent[d] \in Contexts \cup {0} /\ config.parent[d] < d /\ config.parent[d] \in Nat
           /\ Above(d) = Above(config.parent[d]) \cup {d} /\ d \in Nat
      /\ Above(0) = {} /\ 0 \notin Contexts
  BY <1>2, GraphFacts
<1>6. \A d \in Contexts : \A e \in Above(d) :
        e \in Contexts /\ e <= d /\ Above(e) \subseteq Above(d) /\ e \in Above(e)
  BY <1>2, PathFacts
<1>7. \A i, j \in DOMAIN config.initial : config.initial[i] \in Above(config.initial[j]) => i = j
  <2>1. \A j \in DOMAIN config.initial : config.initial[j] \in I
    BY DEF Range
  <2>2. \A j \in DOMAIN config.initial : Above(config.initial[j]) = config.path[config.initial[j]]
    BY <1>4, <1>5, <2>1 DEF Above
  <2> QED
    BY <1>3, <2>2 DEF Good
<1> HIDE DEF I
<1>8. OpenInv
  <2>1. ASSUME NEW c \in open PROVE config.parent[c] \in open \cup {0}
    <3>1. PICK d \in I : c \in Above(config.parent[d])
      BY <1>2
    <3> DEFINE p == config.parent[d]
    <3>2. p \in Contexts
      BY <1>4, <1>5, <3>1
    <3> HIDE DEF p
    <3>3. c \in Contexts /\ Above(c) \subseteq Above(p)
      BY <1>6, <3>1, <3>2 DEF p
    <3>4. config.parent[c] # 0 => config.parent[c] \in Above(c)
      BY <1>5, <3>3
    <3> QED
      BY <1>2, <3>1, <3>3, <3>4 DEF p
  <2> QED
    BY <1>2, <2>1 DEF OpenInv
<1>9. \A c, d \in I : c \in Above(d) => c = d
  BY <1>7 DEF I, Range
<1>10. I \subseteq Fringe
  <2>1. ASSUME NEW c \in I PROVE c \in Fringe
    <3>1. c \in Contexts
      BY <1>4
    <3>2. config.parent[c] \in open \cup {0}
      <4>1. config.parent[c] # 0 => config.parent[c] \in Above(config.parent[c])
        BY <1>5, <3>1
      <4> QED
        BY <1>2, <4>1
    <3>3. ASSUME c \in open PROVE FALSE
      <4>1. PICK d \in I : c \in Above(config.parent[d])
        BY <1>2, <3>3
      <4>2. c \in Above(d) /\ config.parent[d] # 0
        BY <1>4, <1>5, <4>1
      <4>3. c = d
        BY <1>9, <4>2
      <4>4. c <= config.parent[c]
        BY <1>5, <1>6, <3>1, <4>1, <4>2, <4>3
      <4> QED
        BY <1>5, <3>1, <4>4
    <3> QED
      BY <3>1, <3>2, <3>3 DEF Fringe
  <2> QED
    BY <2>1
<1>11. IsInjective(config.initial)
  <2>1. \A j \in DOMAIN config.initial : config.initial[j] \in I
    BY DEF Range, I
  <2>2. \A c \in Contexts : c \in Above(c)
    BY <1>5
  <2> QED
    BY <1>4, <1>7, <2>1, <2>2 DEF IsInjective
<1>12. /\ Range(hoj.roots) \subseteq I /\ Range(hoj.buffer) \subseteq I
       /\ IsInjective(hoj.roots) /\ IsInjective(hoj.buffer) /\ Range(hoj.roots) \cap Range(hoj.buffer) = {}
  <2>1. CASE config.global
    <3>1. Range(<<>>) = {} /\ IsInjective(<<>>)
      BY SeqOfNothing DEF IsInjective
    <3> QED
      BY <1>1, <1>11, <2>1, <3>1 DEF I
  <2>2. CASE ~ config.global
    <3> DEFINE s == config.initial
               t == Tail(s)
               r == Head(s)
    <3>1. /\ Len(s) \in Nat \ {0} /\ DOMAIN s = 1 .. Len(s) /\ s[1] = r
          /\ t \in Seq(Contexts) /\ Len(t) = Len(s) - 1 /\ \A i \in 1 .. Len(t) : t[i] = s[i + 1]
      BY <1>3
    <3>2. IsInjective(s) /\ I = Range(s)
      BY <1>11 DEF I
    <3>8. hoj.roots = <<r>> /\ hoj.buffer = t
      BY <1>1, <2>2
    <3> HIDE DEF s, t, r
    <3>3. DOMAIN t = 1 .. Len(s) - 1
      BY <3>1, LenProperties
    <3>4. \A i \in DOMAIN t : i + 1 \in DOMAIN s /\ t[i] = s[i + 1] /\ i \in Nat /\ 1 # i + 1 /\ 1 \in DOMAIN s
      BY <3>1, <3>3
    <3>5. r \in Range(s) /\ \A i \in DOMAIN t : t[i] \in Range(s) /\ t[i] # r
      BY <3>1, <3>2, <3>4 DEF Range, IsInjective
    <3>6. IsInjective(t)
      <4>1. ASSUME NEW i \in DOMAIN t, NEW j \in DOMAIN t, t[i] = t[j] PROVE i = j
        <5>1. i + 1 = j + 1
          BY <3>2, <3>4, <4>1 DEF IsInjective
        <5> QED
          BY <3>4, <5>1
      <4> QED
        BY <4>1 DEF IsInjective
    <3>7. Range(t) = { t[i] : i \in DOMAIN t }
      BY DEF Range
    <3>9. Range(<<r>>) = {r} /\ IsInjective(<<r>>)
      BY DEF Range, IsInjective
    <3> QED
      BY <3>2, <3>5, <3>6, <3>7, <3>8, <3>9
  <2> QED
    BY <2>1, <2>2
<1>13. Range(<<>>) = {} /\ IsInjective(<<>>) /\ DistinctEntries(<<>>) /\ Ecs(<<>>) = {}
  BY SeqOfNothing DEF IsInjective, DistinctEntries, Ecs
<1>14. Resting(hoj)
  BY <1>1, <1>10, <1>12, <1>13 DEF Resting
<1>15. hoj \in Members
  BY <1>1 DEF TypeInv
<1>16. Going(hoj) /\ \A c \in Fringe : Under(c, hoj.roots) <=> c \in Range(hoj.roots)
  BY <1>1, <1>8, <1>10, <1>12, <1>15, NewRoots
<1>17. Queued
  BY <1>1, <1>2, <1>10, <1>12, <1>13, <1>16 DEF Queued
<1>18. Clear(hoj) /\ ~ Achieved(hoj)
  BY <1>1, <1>3, <1>13 DEF Clear, Achieved
<1>19. config.global => hoj.buffer = <<>>
  BY <1>1
<1> QED
  BY <1>1, <1>2, <1>8, <1>14, <1>16, <1>17, <1>18, <1>19 DEF OnceInv


\* What the traversal changes keeps the rest.
Adds(c) ==
  \/ hoj'.leaves = hoj.leaves
  \/ /\ c \in Contexts /\ Under(c, hoj.roots) /\ config.parent[c] \in open \cup {0}
     /\ c \in limited /\ c \notin Range(hoj.leaves) /\ hoj'.leaves = Append(hoj.leaves, c)
LEMMA HitKeeps ==
  ASSUME TypeInv, OnceInv, pc = "hit", UNCHANGED <<config, open, limited, requested, ready, waiting, pc>>,
         hoj'.roots = hoj.roots, hoj'.buffer = hoj.buffer, hoj'.covered = hoj.covered, hoj'.height = hoj.height,
         NEW c, Adds(c),
         \A e \in Ecs(hoj'.backtrack) : e \in Ecs(hoj.backtrack) \/ (e \in Fringe /\ Under(e, hoj.roots)),
         DistinctEntries(hoj'.backtrack), ~ Backtracks => hoj'.backtrack = hoj.backtrack,
         FoundOnce(hoj', saves'), Toured(hoj', saves', todo')
  PROVE  OnceInv'
<1>1. /\ requested = {"CONTINUE"} /\ ready = <<>> /\ waiting = {} /\ hoj \in Members
      /\ hoj.leaves \in Seq(Contexts)
  BY DEF TypeInv, Members
<1>2. OpenInv /\ Resting(hoj) /\ Going(hoj) /\ ~ Achieved(hoj)
  BY <1>1 DEF OnceInv
<1>3. \A d \in Range(hoj.buffer) : ~ Under(d, hoj.roots)
  BY <1>2 DEF Going
<1>4. IsInjective(<<c>>) /\ Range(<<c>>) = {c} /\ (c \in Contexts => <<c>> \in Seq(Contexts))
  BY DEF Range, IsInjective
<1>5. /\ Range(hoj'.leaves) \subseteq Fringe /\ IsInjective(hoj'.leaves)
      /\ Range(hoj.buffer) \cap Range(hoj'.leaves) = {}
  <2>1. CASE hoj'.leaves = hoj.leaves
    BY <1>2, <2>1 DEF Resting
  <2>2. CASE /\ c \in Contexts /\ Under(c, hoj.roots) /\ config.parent[c] \in open \cup {0}
             /\ c \in limited /\ c \notin Range(hoj.leaves) /\ hoj'.leaves = Append(hoj.leaves, c)
    <3>1. Append(hoj.leaves, c) = hoj.leaves \o <<c>>
      BY <1>1, <2>2
    <3>2. Range(hoj'.leaves) = Range(hoj.leaves) \cup {c}
      BY <1>1, <2>2, RangeOf
    <3>3. IsInjective(hoj'.leaves)
      <4>1. IsInjective(hoj.leaves) /\ Range(hoj.leaves) \cap Range(<<c>>) = {}
        BY <1>2, <1>4, <2>2 DEF Resting
      <4>2. IsInjective(hoj.leaves \o <<c>>)
        BY <1>1, <1>4, <2>2, <4>1, InjectiveConcat
      <4> QED
        BY <2>2, <3>1, <4>2
    <3>4. c \in Fringe
      BY <1>2, <2>2 DEF OpenInv, Fringe
    <3> QED
      BY <1>2, <1>3, <2>2, <3>2, <3>3, <3>4 DEF Resting
  <2> QED
    BY <2>1, <2>2 DEF Adds
<1>6. /\ Ecs(hoj'.backtrack) \subseteq Fringe
      /\ Range(hoj.buffer) \cap Ecs(hoj'.backtrack) = {}
  BY <1>2, <1>3 DEF Resting
<1>7. Resting(hoj')
  BY <1>2, <1>5, <1>6 DEF Resting
<1>8. Going(hoj')
  BY <1>2 DEF Going
<1>9. /\ Resting(hoj)' /\ Going(hoj)' /\ OpenInv' /\ (Backtracks' <=> Backtracks)
  BY <1>2, <1>7, <1>8, SameGraph
<1>10. FoundOnce(hoj, saves)'
  BY SameGraph
<1>11. Toured(hoj, saves, todo)'
  BY SameGraph
<1>12. Queued'
  <2>1. Range(<<>>) = {} /\ IsInjective(<<>>)
    BY SeqOfNothing DEF IsInjective
  <2> QED
    BY <1>1, <2>1 DEF Queued
<1>13. ~ Achieved(hoj)'
  BY <1>2 DEF Achieved
<1>14. /\ ~ Backtracks' => hoj'.backtrack = <<>>
       /\ config.global' => hoj'.buffer = <<>>
  BY <1>9 DEF OnceInv
<1>15. pc' = "hit" /\ requested' = {"CONTINUE"} /\ ready' = <<>>
  BY <1>1
<1> QED
  BY <1>9, <1>10, <1>11, <1>12, <1>13, <1>14, <1>15 DEF OnceInv


LEMMA TourFewer ==
  ASSUME NEW t, NEW roots, NEW found, NEW fewer, fewer \subseteq found, Tour(t, roots, found)
  PROVE  Tour(t, roots, fewer)
  BY DEF Tour, Due

\* A context that is looked at is above none of the others, and may be found.
LEMMA TurnOnce ==
  ASSUME TypeInv, Looks, Head(todo).left # {}, NEW found, Tour(todo, hoj.roots, found)
  PROVE  Due(Turn, hoj.roots, found) /\ Tour(Others, hoj.roots, found \cup {Turn})
         /\ \A i \in 1 .. Len(Others) : \A d \in Others[i].left : Turn \notin Above(d)
<1>1. /\ Turn \in Contexts /\ Turn \in Head(todo).left
      /\ Len(todo) \in Nat \ {0} /\ Len(Others) = Len(todo)
      /\ Others[1] = [Head(todo) EXCEPT !.left = @ \ {Turn}]
      /\ \A i \in 2 .. Len(todo) : Others[i] = todo[i]
  BY TurnIs
<1>2. Head(todo) = todo[1] /\ todo[1] \in TaskSet /\ 1 \in 1 .. Len(todo)
  BY <1>1 DEF TypeInv
<1>3. Others[1].left = todo[1].left \ {Turn}
  BY <1>1, <1>2 DEF TaskSet
<1>4. ASSUME NEW i \in 1 .. Len(Others), NEW d \in Others[i].left
      PROVE  i \in 1 .. Len(todo) /\ d \in todo[i].left /\ (i = 1 => d # Turn)
  <2>1. i = 1 \/ i \in 2 .. Len(todo)
    BY <1>1
  <2> QED
    BY <1>1, <1>3, <1>4, <2>1
<1>5. Due(Turn, hoj.roots, found)
  BY <1>1, <1>2 DEF Tour
<1>6. ASSUME NEW i \in 1 .. Len(Others), NEW d \in Others[i].left
      PROVE  d \notin Above(Turn) /\ Turn \notin Above(d) /\ Due(d, hoj.roots, found)
  BY <1>1, <1>2, <1>4, <1>6 DEF Tour
<1>7. \A i \in 1 .. Len(Others) : \A d \in Others[i].left : Due(d, hoj.roots, found \cup {Turn})
  BY <1>6 DEF Due
<1>8. \A i, j \in 1 .. Len(Others) : \A d \in Others[i].left, e \in Others[j].left : d \in Above(e) => d = e /\ i = j
  BY <1>4 DEF Tour
<1> QED
  BY <1>5, <1>6, <1>7, <1>8 DEF Tour

\* What is below a context comes before the others.
LEMMA DescentOnce ==
  ASSUME TypeInv, NEW c \in Contexts, NEW roots, NEW found \in SUBSET Contexts, NEW done, NEW count,
         NEW t \in Seq(TaskSet),
         Due(c, roots, found), Tour(t, roots, found), ~ Childless(c),
         \A i \in 1 .. Len(t) : \A d \in t[i].left : c \notin Above(d) /\ d \notin Above(c)
  PROVE  Tour(<<Task(Children(c), done, count)>> \o t, roots, found)
<1> DEFINE k == Task(Children(c), done, count)
           s == <<k>> \o t
<1>1. k.left = Children(c)
  BY DEF Task
<1>2. \A d \in Children(c) : d \in Contexts /\ config.parent[d] = c /\ c \in open
  BY DEF Children
<1>3. \A d \in Contexts :
        /\ d \in Nat /\ config.parent[d] < d /\ Above(d) = Above(config.parent[d]) \cup {d} /\ d # 0
  BY GraphFacts DEF TypeInv
<1>4. c \in open /\ c \in Nat /\ c \in Above(c) /\ \A d \in Above(c) : d <= c
  <2>1. \A d \in Above(c) : d <= c
    BY PathFacts DEF TypeInv
  <2> QED
    BY <1>2, <1>3, <2>1 DEF Childless
<1>5. \A d \in Children(c) : Above(d) = Above(c) \cup {d} /\ d \notin Above(c) /\ c \in Above(d)
  BY <1>2, <1>3, <1>4
<1> HIDE DEF k
<1>6. /\ Len(t) \in Nat /\ Len(s) = Len(t) + 1 /\ s[1] = k
      /\ \A i \in 1 .. Len(t) : s[i + 1] = t[i]
  OBVIOUS
<1> HIDE DEF s
<1>7. ASSUME NEW i \in 1 .. Len(s), i # 1 PROVE i - 1 \in 1 .. Len(t) /\ s[i] = t[i - 1]
  <2>1. i - 1 \in 1 .. Len(t) /\ (i - 1) + 1 = i
    BY <1>6, <1>7
  <2>2. s[(i - 1) + 1] = t[i - 1]
    BY <1>6, <2>1
  <2> QED
    BY <2>1, <2>2
<1>8. \A d \in Children(c) : Due(d, roots, found)
  <2>1. ASSUME NEW d \in Children(c) PROVE Under(d, roots)
    BY <1>5 DEF Due, Under
  <2>2. ASSUME NEW d \in Children(c), NEW e \in found PROVE d \notin Above(e)
    <3>1. c \notin Above(e)
      BY DEF Due
    <3>2. ASSUME d \in Above(e) PROVE c \in Above(e)
      <4>1. Above(d) \subseteq Above(e)
        BY <3>2, PathFacts DEF TypeInv
      <4> QED
        BY <1>5, <4>1
    <3> QED
      BY <3>1, <3>2
  <2> QED
    BY <1>2, <1>4, <2>1, <2>2 DEF Due
<1>9. ASSUME NEW i \in 1 .. Len(s), NEW d \in s[i].left PROVE Due(d, roots, found)
  BY <1>1, <1>6, <1>7, <1>8 DEF Tour
<1>10. ASSUME NEW d \in Children(c), NEW i \in 1 .. Len(t), NEW e \in t[i].left
       PROVE  d \notin Above(e) /\ e \notin Above(d)
  <2>1. c \notin Above(e) /\ e \notin Above(c)
    BY <1>10
  <2>2. e \in Contexts
    <3>1. t[i] \in TaskSet
      OBVIOUS
    <3> QED
      BY <1>10, <3>1 DEF TaskSet
  <2>3. d \in Above(e) => Above(d) \subseteq Above(e)
    BY <2>2, PathFacts DEF TypeInv
  <2>4. e # d
    BY <1>5, <2>1
  <2> QED
    BY <1>5, <2>1, <2>3, <2>4
<1>11. ASSUME NEW i \in 1 .. Len(s), NEW j \in 1 .. Len(s), NEW d \in s[i].left, NEW e \in s[j].left, d \in Above(e)
       PROVE  d = e /\ i = j
  <2>1. CASE i = 1 /\ j = 1
    BY <1>1, <1>5, <1>6, <1>11, <2>1
  <2>2. CASE i # 1 /\ j # 1
    <3>1. d \in t[i - 1].left /\ e \in t[j - 1].left /\ i - 1 \in 1 .. Len(t) /\ j - 1 \in 1 .. Len(t)
      BY <1>7, <1>11, <2>2
    <3>2. d = e /\ i - 1 = j - 1
      BY <1>11, <3>1 DEF Tour
    <3> QED
      BY <3>2
  <2>3. CASE i = 1 /\ j # 1
    BY <1>1, <1>6, <1>7, <1>10, <1>11, <2>3
  <2>4. CASE i # 1 /\ j = 1
    BY <1>1, <1>6, <1>7, <1>10, <1>11, <2>4
  <2> QED
    BY <2>1, <2>2, <2>3, <2>4
<1> QED
  BY <1>9, <1>11 DEF Tour, s, k


LEMMA EcsWith ==
  /\ Ecs(<<>>) = {} /\ DistinctEntries(<<>>)
  /\ \A e : Ecs(<<e>>) = {e.ec} /\ DistinctEntries(<<e>>)
  /\ \A s \in Seq(Entries), e \in Entries :
       /\ Ecs(Append(s, e)) = Ecs(s) \cup {e.ec}
       /\ DistinctEntries(s) /\ e.ec \notin Ecs(s) => DistinctEntries(Append(s, e))
<1>1. Ecs(<<>>) = {} /\ DistinctEntries(<<>>)
  BY SeqOfNothing DEF Ecs, DistinctEntries
<1>2. ASSUME NEW e PROVE Ecs(<<e>>) = {e.ec} /\ DistinctEntries(<<e>>)
  <2>1. Range(<<e>>) = {e}
    BY DEF Range
  <2> QED
    BY <2>1 DEF Ecs, DistinctEntries
<1>3. ASSUME NEW s \in Seq(Entries), NEW e \in Entries
      PROVE  /\ Ecs(Append(s, e)) = Ecs(s) \cup {e.ec}
             /\ DistinctEntries(s) /\ e.ec \notin Ecs(s) => DistinctEntries(Append(s, e))
  <2>1. Range(Append(s, e)) = Range(s) \cup {e}
    BY RangeOf
  <2>2. Ecs(Append(s, e)) = Ecs(s) \cup {e.ec}
    BY <2>1 DEF Ecs
  <2> DEFINE t == Append(s, e)
  <2>3. /\ Len(s) \in Nat /\ DOMAIN s = 1 .. Len(s) /\ DOMAIN t = 1 .. Len(s) + 1
        /\ t[Len(s) + 1] = e /\ \A i \in 1 .. Len(s) : t[i] = s[i]
    BY AppendProperties, LenProperties
  <2>4. \A i \in DOMAIN s : s[i].ec \in Ecs(s)
    BY EcsOf
  <2> HIDE DEF t
  <2>5. ASSUME DistinctEntries(s), e.ec \notin Ecs(s), NEW i \in DOMAIN t, NEW j \in DOMAIN t, t[i].ec = t[j].ec
        PROVE  i = j
    <3>1. \A k \in DOMAIN t : (k \in DOMAIN s /\ t[k] = s[k]) \/ (k = Len(s) + 1 /\ t[k] = e)
      BY <2>3
    <3> QED
      BY <2>4, <2>5, <3>1 DEF DistinctEntries
  <2>6. DistinctEntries(s) /\ e.ec \notin Ecs(s) => DistinctEntries(t)
    BY <2>5 DEF DistinctEntries
  <2> QED
    BY <2>2, <2>6 DEF t
<1> QED
  BY <1>1, <1>2, <1>3

\* The traversal, where what it finds does not cover more than there is.
LEMMA VisitOnce ==
  ASSUME TypeInv, OnceInv, Visit, hoj.covered + hoj.most <= config.points, hoj.covered + Total <= config.points
  PROVE  OnceInv'
<1> DEFINE c == Turn
           F == Ecs(hoj.best) \cup Ecs(saves) \cup Ecs(hoj.backtrack)
           G == Ecs(hoj'.best) \cup Ecs(saves') \cup Ecs(hoj'.backtrack)
<1>1. PICK g : Noted(hoj, g, c) /\ (Passed(g) \/ Descended(g) \/ Chose(g) \/ Kept(g))
  BY VisitIs
<1>2. /\ Looks /\ Head(todo).left # {} /\ pc = "hit" /\ saves = <<>>
      /\ UNCHANGED <<config, open, limited, requested, ready, waiting, pc>>
  BY DEF Visit, Looks, aroundVars
<1>3. /\ c \in Contexts /\ Now \in SUBSET Nat /\ Total \in Nat /\ Others \in Seq(TaskSet)
      /\ Children(c) \in SUBSET Contexts
  BY <1>2, TurnIs
<1>4. /\ hoj \in Members /\ hoj.covered \in Nat /\ config.points \in Nat /\ hoj.most \in Nat
      /\ hoj.best \in Seq(Entries) /\ hoj.backtrack \in Seq(Entries) /\ hoj.leaves \in Seq(Contexts)
  BY GoodConfig DEF TypeInv, Members
<1>5. /\ OpenInv /\ Resting(hoj) /\ Going(hoj) /\ FoundOnce(hoj, <<>>) /\ Tour(todo, hoj.roots, F)
      /\ ~ Backtracks => hoj.backtrack = <<>>
  <2>1. requested = {"CONTINUE"}
    BY <1>2 DEF TypeInv
  <2> QED
    BY <1>2, <2>1 DEF OnceInv, Toured
<1>6. /\ Due(c, hoj.roots, F) /\ Tour(Others, hoj.roots, F \cup {c})
      /\ \A i \in 1 .. Len(Others) : \A d \in Others[i].left : c \notin Above(d)
  BY <1>2, <1>5, TurnOnce
<1>7. Under(c, hoj.roots) /\ config.parent[c] \in open \cup {0} /\ c \notin F
  <2>1. \A e \in F : c \notin Above(e)
    BY <1>6 DEF Due
  <2>2. c \in Above(c)
    BY <1>3, GraphFacts DEF TypeInv
  <2> QED
    BY <1>6, <2>1, <2>2 DEF Due
<1>8. Childless(c) /\ ~ IsAbsolute(hoj, c) => c \in Fringe
  <2> HIDE DEF c
  <2>1. ASSUME Childless(c), c \in open PROVE IsAbsolute(hoj, c)
    <3>1. Height(c) < hoj.height
      BY <1>5, <1>7, <2>1 DEF Going
    <3>2. c \notin limited /\ c \notin Range(hoj.leaves)
      BY <1>5, <2>1 DEF OpenInv, Resting, Fringe
    <3> QED
      BY <2>1, <3>1, <3>2 DEF IsAbsolute
  <2> QED
    BY <1>3, <1>7, <2>1 DEF Fringe
<1>9. /\ g \in Members /\ g.covered = hoj.covered /\ g.roots = hoj.roots /\ g.buffer = hoj.buffer
      /\ g.most = hoj.most /\ g.best = hoj.best /\ g.backtrack = hoj.backtrack /\ g.height = hoj.height
      /\ \/ g.leaves = hoj.leaves
         \/ c \in limited /\ c \notin Range(hoj.leaves) /\ g.leaves = Append(hoj.leaves, c)
  BY <1>1, <1>4 DEF Noted, Members
<1>10. Ecs(<<>>) = {} /\ DistinctEntries(<<>>)
  BY EcsWith
<1>11. F = Ecs(hoj.best) \cup Ecs(hoj.backtrack)
  BY <1>2, <1>10
<1> HIDE DEF c, F
<1>12. CASE Passed(g) \/ Descended(g)
  <2>1. hoj' = g /\ saves' = <<>>
    BY <1>12 DEF Passed, Descended
  <2>2. FoundOnce(hoj', saves')
    BY <1>5, <1>9, <2>1 DEF FoundOnce
  <2>3. Tour(Others, hoj.roots, F)
    BY <1>6, TourFewer
  <2>4. Tour(todo', hoj.roots, F)
    <3>1. CASE Passed(g)
      BY <2>3, <3>1 DEF Passed
    <3>2. CASE Descended(g)
      <4>1. ~ Childless(c) /\ todo' = <<Task(Children(c), Now, Total)>> \o Others
        BY <3>2 DEF Descended, c
      <4>2. F \in SUBSET Contexts
        BY <1>4, <1>11, EcsOf
      <4>3. \A i \in 1 .. Len(Others) : \A d \in Others[i].left : c \notin Above(d) /\ d \notin Above(c)
        BY <1>6 DEF Tour, Due
      <4> QED
        BY <1>3, <1>6, <2>3, <4>1, <4>2, <4>3, DescentOnce
    <3> QED
      BY <1>12, <3>1, <3>2
  <2>5. Toured(hoj', saves', todo')
    BY <1>9, <1>10, <1>11, <2>1, <2>4 DEF Toured
  <2>6. Adds(c)
    BY <1>3, <1>7, <1>9, <2>1 DEF Adds
  <2>7. DistinctEntries(hoj.backtrack)
    BY <1>5 DEF Resting
  <2> QED
    BY <1>2, <1>9, <2>1, <2>2, <2>5, <2>6, <2>7, HitKeeps
<1>13. CASE Chose(g)
  <2> DEFINE b == Entry(c, Total, Now)
             k == Candidate(g, c, Now, Total)
  <2>1. /\ hoj' = k /\ saves' = Replaced(g, Total) /\ todo' = Others
        /\ Total = config.points - hoj.covered \/ (Total >= hoj.most /\ c \in Fringe)
    BY <1>8, <1>13 DEF Chose, c
  <2>2. /\ b \in Entries
        /\ Total > g.most => k.most = Total /\ k.best = <<b>>
        /\ ~ Total > g.most => k.most = g.most /\ k.best = Append(g.best, b)
        /\ k.roots = g.roots /\ k.backtrack = g.backtrack /\ k.covered = g.covered
        /\ k.height = g.height /\ k.buffer = g.buffer /\ k.leaves = g.leaves
    <3>1. g \in Members
      BY <1>9
    <3>2. b \in Entries /\ Chooses(k, g, b, Total)
      BY <1>3, <3>1, CandidateIs
    <3> HIDE DEF b, k
    <3> QED
      BY <3>2 DEF Chooses
  <2> HIDE DEF k
  <2>3. /\ Total > hoj.most => hoj'.most = Total /\ hoj'.best = <<b>>
        /\ ~ Total > hoj.most => hoj'.most = hoj.most /\ hoj'.best = Append(hoj.best, b)
        /\ hoj'.roots = hoj.roots /\ hoj'.backtrack = hoj.backtrack /\ hoj'.covered = hoj.covered
        /\ hoj'.height = hoj.height /\ hoj'.buffer = hoj.buffer /\ hoj'.leaves = g.leaves
    BY <1>9, <2>1, <2>2
  <2>4. b.ec = c
    BY DEF Entry
  <2> HIDE DEF b
  <2>5. hoj.covered + Total # config.points => c \in Fringe
    BY <1>3, <1>4, <2>1
  <2>6. FoundOnce(hoj', saves') /\ Ecs(hoj'.best) \cup Ecs(saves') \subseteq Ecs(hoj.best) \cup {c}
    <3>1. CASE Total > hoj.most
      <4>1. Ecs(hoj'.best) = {c} /\ DistinctEntries(hoj'.best)
        BY <2>3, <2>4, <3>1, EcsWith
      <4>2. saves' = <<>> \/ (saves' = hoj.best /\ Backtracks)
        BY <1>9, <2>1 DEF Replaced
      <4>3. hoj.covered + hoj.most # config.points
        BY <1>3, <1>4, <3>1
      <4>4. /\ Ecs(saves') \subseteq Ecs(hoj.best) /\ Ecs(saves') \subseteq Fringe /\ DistinctEntries(saves')
            /\ saves' # <<>> => Backtracks
        BY <1>5, <1>10, <4>2, <4>3 DEF FoundOnce
      <4>5. hoj'.covered + hoj'.most # config.points => Ecs(hoj'.best) \subseteq Fringe
        BY <2>3, <2>5, <3>1, <4>1
      <4>6. \A e \in Ecs(hoj'.best) \cup Ecs(saves') : Under(e, hoj'.roots)
        BY <1>5, <1>7, <2>3, <4>1, <4>4 DEF FoundOnce
      <4>7. /\ Ecs(hoj'.best) \cap (Ecs(saves') \cup Ecs(hoj'.backtrack)) = {}
            /\ Ecs(saves') \cap Ecs(hoj'.backtrack) = {}
        BY <1>5, <1>7, <1>11, <2>3, <4>1, <4>4 DEF FoundOnce
      <4> QED
        BY <4>1, <4>4, <4>5, <4>6, <4>7 DEF FoundOnce
    <3>2. CASE ~ Total > hoj.most
      <4>1. Total = hoj.most
        BY <1>3, <1>4, <2>1, <3>2
      <4>2. hoj'.most = hoj.most /\ hoj'.best = Append(hoj.best, b) /\ saves' = <<>>
        BY <1>9, <2>1, <2>3, <3>2 DEF Replaced
      <4>3. DistinctEntries(hoj.best) /\ c \notin Ecs(hoj.best)
        BY <1>5, <1>7, <1>11 DEF FoundOnce
      <4>4. Ecs(hoj'.best) = Ecs(hoj.best) \cup {c} /\ DistinctEntries(hoj'.best)
        BY <1>4, <2>2, <2>4, <4>2, <4>3, EcsWith
      <4>5. hoj'.covered + hoj'.most # config.points => Ecs(hoj'.best) \subseteq Fringe
        BY <1>5, <2>3, <2>5, <4>1, <4>2, <4>4 DEF FoundOnce
      <4>6. \A e \in Ecs(hoj'.best) : Under(e, hoj'.roots)
        BY <1>5, <1>7, <2>3, <4>4 DEF FoundOnce
      <4>7. Ecs(hoj'.best) \cap Ecs(hoj'.backtrack) = {}
        BY <1>5, <1>7, <1>11, <2>3, <4>4 DEF FoundOnce
      <4> QED
        BY <1>10, <4>2, <4>4, <4>5, <4>6, <4>7 DEF FoundOnce
    <3> QED
      BY <3>1, <3>2
  <2>7. G \subseteq F \cup {c}
    BY <1>11, <2>3, <2>6
  <2>8. Toured(hoj', saves', todo')
    BY <1>6, <2>1, <2>3, <2>7, TourFewer DEF Toured
  <2>9. Adds(c)
    BY <1>3, <1>7, <1>9, <2>3 DEF Adds
  <2>10. DistinctEntries(hoj.backtrack)
    BY <1>5 DEF Resting
  <2> QED
    BY <1>2, <2>3, <2>6, <2>8, <2>9, <2>10, HitKeeps
<1>14. CASE Kept(g)
  <2> DEFINE b == Saved(c, Now, Total, hoj)
  <2>1. /\ hoj' = [g EXCEPT !.backtrack = Append(@, b)] /\ saves' = <<>> /\ todo' = Others /\ Backtracks
        /\ c \in Fringe
    BY <1>8, <1>14 DEF Kept, c
  <2>2. b.ec = c /\ b \in Entries
    <3> QED
      BY <1>3, <1>4, SavedIs
  <2> HIDE DEF b
  <2>3. /\ hoj'.covered = hoj.covered /\ hoj'.roots = hoj.roots /\ hoj'.buffer = hoj.buffer /\ hoj'.height = hoj.height
        /\ hoj'.most = hoj.most /\ hoj'.best = hoj.best /\ hoj'.leaves = g.leaves
        /\ hoj'.backtrack = Append(hoj.backtrack, b)
    BY <1>9, <2>1 DEF Members
  <2>4. Ecs(hoj'.backtrack) = Ecs(hoj.backtrack) \cup {c} /\ DistinctEntries(hoj'.backtrack)
    <3>1. DistinctEntries(hoj.backtrack) /\ c \notin Ecs(hoj.backtrack)
      BY <1>5, <1>7, <1>11 DEF Resting
    <3> QED
      BY <1>4, <2>2, <2>3, <3>1, EcsWith
  <2>5. FoundOnce(hoj', saves')
    <3>1. Ecs(hoj'.best) \cap Ecs(hoj'.backtrack) = {}
      BY <1>5, <1>7, <1>11, <2>3, <2>4 DEF FoundOnce
    <3> QED
      BY <1>5, <1>10, <2>1, <2>3, <3>1 DEF FoundOnce
  <2>6. G \subseteq F \cup {c}
    BY <1>10, <1>11, <2>1, <2>3, <2>4
  <2>7. Toured(hoj', saves', todo')
    BY <1>6, <2>1, <2>3, <2>6, TourFewer DEF Toured
  <2>8. Adds(c)
    BY <1>3, <1>7, <1>9, <2>3 DEF Adds
  <2> QED
    BY <1>2, <1>7, <2>1, <2>3, <2>4, <2>5, <2>7, <2>8, HitKeeps
<1> QED
  BY <1>1, <1>12, <1>13, <1>14


LEMMA TailDistinct ==
  ASSUME NEW s \in Seq(Entries), s # <<>>, DistinctEntries(s)
  PROVE  /\ DistinctEntries(Tail(s)) /\ Head(s).ec \in Ecs(s) /\ Head(s).ec \notin Ecs(Tail(s))
         /\ Ecs(Tail(s)) \subseteq Ecs(s)
<1> DEFINE t == Tail(s)
           b == Head(s)
<1>1. /\ Len(s) \in Nat \ {0} /\ DOMAIN s = 1 .. Len(s) /\ s[1] = b
      /\ t \in Seq(Entries) /\ Len(t) = Len(s) - 1 /\ \A i \in 1 .. Len(t) : t[i] = s[i + 1]
  OBVIOUS
<1> HIDE DEF t, b
<1>2. DOMAIN t = 1 .. Len(s) - 1
  BY <1>1, LenProperties
<1>3. \A i \in DOMAIN t : i + 1 \in DOMAIN s /\ t[i] = s[i + 1] /\ i \in Nat /\ 1 # i + 1
  BY <1>1, <1>2
<1>4. 1 \in DOMAIN s /\ \A i \in DOMAIN s : s[i].ec \in Ecs(s)
  BY <1>1, EcsOf
<1>5. \A i \in DOMAIN t : t[i].ec \in Ecs(s) /\ t[i].ec # b.ec
  BY <1>1, <1>3, <1>4 DEF DistinctEntries
<1>6. Ecs(t) = { t[i].ec : i \in DOMAIN t }
  BY DEF Ecs, Range
<1>7. ASSUME NEW i \in DOMAIN t, NEW j \in DOMAIN t, t[i].ec = t[j].ec PROVE i = j
  <2>1. i + 1 = j + 1
    BY <1>3, <1>7 DEF DistinctEntries
  <2> QED
    BY <1>3, <2>1
<1>8. DistinctEntries(t)
  BY <1>7 DEF DistinctEntries
<1> QED
  BY <1>1, <1>4, <1>5, <1>6, <1>8 DEF t, b

LEMMA SaveBestOnce ==
  ASSUME TypeInv, OnceInv, SaveBest
  PROVE  OnceInv'
<1> DEFINE b == Head(saves)
           c == b.ec
           e == Saved(c, b.bits, b.covered, hoj)
           F == Ecs(hoj.best) \cup Ecs(saves) \cup Ecs(hoj.backtrack)
           G == Ecs(hoj'.best) \cup Ecs(saves') \cup Ecs(hoj'.backtrack)
<1>1. b \in Entries /\ KeptOrNoted(hoj, hoj', c, e) /\ saves \in Seq(Entries) /\ saves # <<>>
  BY SaveBestTyped DEF TypeInv, SaveBest
<1>2. /\ pc = "hit" /\ saves' = Tail(saves) /\ todo' = todo
      /\ UNCHANGED <<config, open, limited, requested, ready, waiting, pc>>
  BY DEF SaveBest, aroundVars
<1>3. /\ hoj \in Members /\ hoj.covered \in Nat /\ hoj.bits \in SUBSET Nat
      /\ hoj.backtrack \in Seq(Entries) /\ hoj.leaves \in Seq(Contexts)
  BY DEF TypeInv, Members
<1>4. /\ OpenInv /\ Resting(hoj) /\ Going(hoj) /\ FoundOnce(hoj, saves) /\ Tour(todo, hoj.roots, F)
      /\ ~ Backtracks => hoj.backtrack = <<>>
  <2>1. requested = {"CONTINUE"}
    BY <1>2 DEF TypeInv
  <2> QED
    BY <1>2, <2>1 DEF OnceInv, Toured
<1>5. /\ c \in Contexts /\ e.ec = c /\ e \in Entries
  <2>1. b.ec \in Contexts /\ b.covered \in Nat /\ b.bits \in SUBSET Nat
    BY <1>1 DEF Entries
  <2> QED
    BY <1>3, <2>1, SavedIs
<1> HIDE DEF e
<1>6. /\ DistinctEntries(Tail(saves)) /\ c \in Ecs(saves) /\ c \notin Ecs(Tail(saves))
      /\ Ecs(Tail(saves)) \subseteq Ecs(saves)
  BY <1>1, <1>4, TailDistinct DEF FoundOnce
<1> HIDE DEF b, c, F
<1>7. Backtracks /\ c \in Fringe /\ Under(c, hoj.roots) /\ config.parent[c] \in open \cup {0} /\ c \notin Ecs(hoj.backtrack)
      /\ c \notin Ecs(hoj.best)
  BY <1>1, <1>4, <1>6 DEF FoundOnce, Fringe
<1>8. PICK g : Noted(hoj, g, c) /\ (hoj' = g \/ hoj' = [g EXCEPT !.backtrack = Append(@, e)])
  BY <1>1 DEF KeptOrNoted
<1>9. /\ g \in Members /\ g.covered = hoj.covered /\ g.roots = hoj.roots /\ g.buffer = hoj.buffer
      /\ g.most = hoj.most /\ g.best = hoj.best /\ g.backtrack = hoj.backtrack /\ g.height = hoj.height
      /\ \/ g.leaves = hoj.leaves
         \/ c \in limited /\ c \notin Range(hoj.leaves) /\ g.leaves = Append(hoj.leaves, c)
  BY <1>3, <1>8 DEF Noted, Members
<1>10. /\ hoj'.covered = hoj.covered /\ hoj'.roots = hoj.roots /\ hoj'.buffer = hoj.buffer
       /\ hoj'.most = hoj.most /\ hoj'.best = hoj.best /\ hoj'.height = hoj.height /\ hoj'.leaves = g.leaves
       /\ (hoj'.backtrack = hoj.backtrack \/ hoj'.backtrack = Append(hoj.backtrack, e))
  BY <1>8, <1>9 DEF Members
<1>11. Adds(c)
  BY <1>5, <1>7, <1>9, <1>10 DEF Adds
<1>12. DistinctEntries(hoj.backtrack)
  BY <1>4 DEF Resting
<1>13. Ecs(hoj'.backtrack) \subseteq Ecs(hoj.backtrack) \cup {c} /\ DistinctEntries(hoj'.backtrack)
  BY <1>3, <1>5, <1>7, <1>10, <1>12, EcsWith
<1>14. FoundOnce(hoj', saves')
  <2>1. Ecs(hoj'.best) \cap (Ecs(saves') \cup Ecs(hoj'.backtrack)) = {} /\ Ecs(saves') \cap Ecs(hoj'.backtrack) = {}
    BY <1>2, <1>4, <1>6, <1>7, <1>10, <1>13 DEF FoundOnce
  <2> QED
    BY <1>2, <1>4, <1>6, <1>7, <1>10, <2>1 DEF FoundOnce
<1>15. G \subseteq F
  BY <1>2, <1>6, <1>10, <1>13 DEF F
<1>16. Toured(hoj', saves', todo')
  BY <1>2, <1>4, <1>10, <1>15, TourFewer DEF Toured
<1> QED
  BY <1>2, <1>7, <1>10, <1>11, <1>13, <1>14, <1>16, HitKeeps

LEMMA TourTail ==
  ASSUME NEW t \in Seq(TaskSet), t # <<>>, NEW roots, NEW found, Tour(t, roots, found)
  PROVE  Tour(Tail(t), roots, found)
<1> DEFINE u == Tail(t)
<1>1. \A i \in 1 .. Len(u) : i + 1 \in 1 .. Len(t) /\ u[i] = t[i + 1] /\ i \in Nat
  OBVIOUS
<1> HIDE DEF u
<1>2. \A i \in 1 .. Len(u) : \A c \in u[i].left : Due(c, roots, found)
  BY <1>1 DEF Tour
<1>3. ASSUME NEW i \in 1 .. Len(u), NEW j \in 1 .. Len(u), NEW c \in u[i].left, NEW d \in u[j].left, c \in Above(d)
      PROVE  c = d /\ i = j
  <2>1. c = d /\ i + 1 = j + 1
    BY <1>1, <1>3 DEF Tour
  <2> QED
    BY <1>1, <2>1
<1> QED
  BY <1>2, <1>3 DEF Tour, u

LEMMA ReturnOnce ==
  ASSUME TypeInv, OnceInv, Return
  PROVE  OnceInv'
<1>1. /\ pc = "hit" /\ todo # <<>> /\ todo' = Tail(todo) /\ hoj' = hoj /\ saves' = saves
      /\ UNCHANGED <<config, open, limited, requested, ready, waiting, pc>>
  BY DEF Return, Looks, aroundVars
<1>2. FoundOnce(hoj, saves) /\ Toured(hoj, saves, todo) /\ Resting(hoj)
  <2>1. requested = {"CONTINUE"}
    BY <1>1 DEF TypeInv
  <2> QED
    BY <1>1, <2>1 DEF OnceInv
<1>5. Toured(hoj', saves', todo')
  <2>1. todo \in Seq(TaskSet)
    BY DEF TypeInv
  <2> QED
    BY <1>1, <1>2, <2>1, TourTail DEF Toured
<1>6. Adds(0)
  BY <1>1 DEF Adds
<1>7. DistinctEntries(hoj'.backtrack)
  BY <1>1, <1>2 DEF Resting
<1> QED
  BY <1>1, <1>2, <1>5, <1>6, <1>7, HitKeeps


\* Where hit begins.
LEMMA TasksOnce ==
  ASSUME TypeInv, hoj.roots # <<>>, Going(hoj), Clear(hoj)
  PROVE  Tour(Tasks(hoj), hoj.roots, Ecs(hoj.backtrack))
<1> DEFINE F == Ecs(hoj.backtrack)
<1>1. /\ hoj.roots \in Seq(Contexts) /\ Len(hoj.roots) \in Nat \ {0} /\ DOMAIN hoj.roots = 1 .. Len(hoj.roots)
      /\ hoj.backtrack \in Seq(Entries)
  BY LenProperties DEF TypeInv, Members
<1>2. \A i \in DOMAIN hoj.roots : hoj.roots[i] \in Contexts /\ hoj.roots[i] \in Range(hoj.roots)
  BY <1>1 DEF Range
<1>3. \A d \in Contexts :
        /\ d \in Nat /\ config.parent[d] < d /\ Above(d) = Above(config.parent[d]) \cup {d} /\ d # 0
  BY GraphFacts DEF TypeInv
<1>4. \A d \in Contexts : \A e \in Above(d) : e \in Contexts /\ e <= d /\ Above(e) \subseteq Above(d)
  BY PathFacts DEF TypeInv
<1>5. F \subseteq Contexts /\ \A e \in F : ~ Under(e, hoj.roots)
  BY <1>1, EcsOf DEF Clear
<1> HIDE DEF F
<1>6. ASSUME NEW d \in Contexts, NEW r \in Range(hoj.roots), r \in Above(d), NEW e \in F PROVE d \notin Above(e)
  BY <1>4, <1>5, <1>6 DEF Under
<1>7. CASE FromTop(hoj)
  <2> DEFINE r == hoj.roots[1]
             k == Task({r}, hoj.bits, 0)
  <2>1. Tasks(hoj) = <<k>> /\ k.left = {r}
    BY <1>7 DEF Tasks, Task
  <2>2. r \in Range(hoj.roots) /\ r \in Contexts
    BY <1>1, <1>2
  <2> HIDE DEF r, k
  <2>3. r \in Above(r) /\ config.parent[r] \in open \cup {0}
    BY <1>3, <2>2 DEF Going
  <2>4. Due(r, hoj.roots, F)
    BY <1>6, <2>2, <2>3 DEF Due, Under
  <2>5. Len(<<k>>) = 1 /\ <<k>>[1] = k
    OBVIOUS
  <2>6. \A i \in 1 .. Len(<<k>>) : i = 1
    BY <2>5
  <2>7. Tour(<<k>>, hoj.roots, F)
    BY <2>1, <2>4, <2>5, <2>6 DEF Tour
  <2> QED
    BY <2>1, <2>7 DEF F
<1>8. CASE ~ FromTop(hoj)
  <2> DEFINE t == Tasks(hoj)
  <2>1. Len(t) = Len(hoj.roots) /\ \A i \in 1 .. Len(hoj.roots) : t[i].left = Children(hoj.roots[i])
    BY <1>1, <1>8 DEF Tasks, Task
  <2> HIDE DEF t
  <2>2. ASSUME NEW i \in 1 .. Len(t), NEW d \in t[i].left
        PROVE  /\ i \in DOMAIN hoj.roots /\ d \in Contexts /\ config.parent[d] = hoj.roots[i] /\ hoj.roots[i] \in open
               /\ Above(d) = Above(hoj.roots[i]) \cup {d} /\ hoj.roots[i] \in Above(d)
    <3>1. i \in DOMAIN hoj.roots /\ d \in Children(hoj.roots[i])
      BY <1>1, <2>1
    <3>2. d \in Contexts /\ config.parent[d] = hoj.roots[i] /\ hoj.roots[i] \in open
      BY <3>1 DEF Children
    <3>3. hoj.roots[i] \in Above(hoj.roots[i])
      BY <1>2, <1>3, <3>1
    <3> QED
      BY <1>3, <3>1, <3>2, <3>3
  <2>3. ASSUME NEW i \in 1 .. Len(t), NEW d \in t[i].left PROVE Due(d, hoj.roots, F)
    <3>1. hoj.roots[i] \in Range(hoj.roots)
      BY <1>2, <2>2
    <3> QED
      BY <1>6, <2>2, <3>1 DEF Due, Under
  <2>4. ASSUME NEW i \in 1 .. Len(t), NEW j \in 1 .. Len(t), NEW d \in t[i].left, NEW e \in t[j].left, d \in Above(e)
        PROVE  d = e /\ i = j
    <3> DEFINE r == hoj.roots[i]
               s == hoj.roots[j]
    <3>1. /\ i \in DOMAIN hoj.roots /\ d \in Contexts /\ config.parent[d] = r /\ r \in Above(d)
          /\ j \in DOMAIN hoj.roots /\ e \in Contexts /\ config.parent[e] = s /\ Above(e) = Above(s) \cup {e}
          /\ s \in Above(s) /\ s \in Contexts
      BY <1>2, <1>3, <2>2
    <3>2. r \in Above(s) => i = j
      BY <3>1 DEF Going
    <3> HIDE DEF r, s
    <3>3. CASE d = e
      BY <3>1, <3>2, <3>3
    <3>4. CASE d \in Above(s)
      <4>1. i = j
        BY <1>4, <3>1, <3>2, <3>4
      <4>2. d <= config.parent[d] /\ config.parent[d] < d /\ d \in Nat /\ config.parent[d] \in Nat
        BY <1>3, <1>4, <3>1, <3>4, <4>1 DEF r, s
      <4> QED
        BY <4>2
    <3> QED
      BY <2>4, <3>1, <3>3, <3>4
  <2> QED
    BY <2>3, <2>4 DEF Tour, t, F
<1> QED
  BY <1>7, <1>8

LEMMA HandleContinueOnce ==
  ASSUME TypeInv, Unachieved, OnceInv, HandleContinue
  PROVE  OnceInv'
<1>1. /\ pc = "run" /\ requested = {"CONTINUE"} /\ ready = <<>> /\ waiting = {}
      /\ \/ /\ pc' = "hit" /\ hoj' = Started(hoj) /\ todo' = Tasks(hoj) /\ saves' = <<>>
            /\ hoj.roots # <<>> /\ UNCHANGED <<config, open, limited, ready, waiting, gone, requested>>
         \/ Achieved(hoj)
  BY HandleContinueIs
<1>2. /\ OpenInv /\ Resting(hoj) /\ Going(hoj) /\ Clear(hoj) /\ ~ Achieved(hoj)
      /\ ~ Backtracks => hoj.backtrack = <<>>
      /\ config.global => hoj.buffer = <<>>
  BY <1>1 DEF OnceInv
<1>3. /\ pc' = "hit" /\ todo' = Tasks(hoj) /\ saves' = <<>> /\ hoj.roots # <<>>
      /\ UNCHANGED <<config, open, limited, ready, waiting, requested>>
  BY <1>1, <1>2
<1>4. hoj \in Members /\ hoj' = Started(hoj)
  BY <1>1, <1>2 DEF TypeInv
<1>5. /\ hoj'.best = <<>> /\ hoj'.roots = hoj.roots /\ hoj'.backtrack = hoj.backtrack /\ hoj'.covered = hoj.covered
      /\ hoj'.height = hoj.height /\ hoj'.buffer = hoj.buffer /\ hoj'.leaves = hoj.leaves
  BY <1>4, StartedIs
<1>6. Ecs(<<>>) = {} /\ DistinctEntries(<<>>) /\ Range(<<>>) = {} /\ IsInjective(<<>>)
  BY EcsWith, SeqOfNothing DEF IsInjective
<1>7. Resting(hoj') /\ Going(hoj')
  BY <1>2, <1>5 DEF Resting, Going
<1>8. FoundOnce(hoj', saves')
  BY <1>3, <1>5, <1>6 DEF FoundOnce
<1>9. Toured(hoj', saves', todo')
  <2>1. Tour(todo', hoj.roots, Ecs(hoj.backtrack))
    BY <1>2, <1>3, TasksOnce
  <2> QED
    BY <1>3, <1>5, <1>6, <2>1 DEF Toured
<1>10. /\ Resting(hoj)' /\ Going(hoj)' /\ OpenInv' /\ (Backtracks' <=> Backtracks)
       /\ FoundOnce(hoj, saves)' /\ Toured(hoj, saves, todo)'
  BY <1>2, <1>3, <1>7, <1>8, <1>9, SameGraph
<1>11. Queued' /\ ~ Achieved(hoj)'
  BY <1>1, <1>2, <1>3, <1>5, <1>6 DEF Queued, Achieved
<1> QED
  BY <1>1, <1>2, <1>3, <1>5, <1>10, <1>11 DEF OnceInv

\* The rest of the handler, where nothing that was found or kept covers more than there is.
\* What hit answers.
LEMMA AnswerOnce ==
  ASSUME TypeInv, OnceInv, EndHit, \A b \in Range(hoj.backtrack) : b.covered # config.points
  PROVE  Answer(Covering(hoj), hoj.most > 0)
<1> DEFINE v == Covering(hoj)
           hit == hoj.most > 0
<1>1. pc = "hit" /\ requested = {"CONTINUE"} /\ v \in Members
  BY EndHitIs
<1>2. /\ OpenInv /\ Resting(hoj) /\ Going(hoj) /\ FoundOnce(hoj, saves) /\ ~ Achieved(hoj)
      /\ ~ Backtracks => hoj.backtrack = <<>>
      /\ config.global => hoj.buffer = <<>>
  BY <1>1 DEF OnceInv
<1>3. /\ hoj \in Members /\ hoj.best \in Seq(Entries) /\ hoj.most \in Nat
  BY DEF TypeInv, Members
<1>4. /\ hoj.most = 0 => v = hoj
      /\ hoj.most # 0 => /\ v.covered = hoj.covered + hoj.most
                         /\ v.leaves = [ i \in DOMAIN hoj.best |-> hoj.best[i].ec ]
      /\ v.backtrack = hoj.backtrack /\ v.buffer = hoj.buffer
  BY <1>3, CoveringIs
<1>5. hit <=> hoj.most # 0
  BY <1>3
<1>6. \A c \in Range(hoj.buffer) : ~ Under(c, hoj.roots)
  BY <1>2 DEF Going
<1> HIDE DEF v, hit
<1>7. CASE ~ hit
  <2>1. v = hoj
    BY <1>4, <1>5, <1>7
  <2>2. Answer(v, hit)
    BY <1>2, <1>7, <2>1 DEF Answer, Resting
  <2> QED
    BY <2>2 DEF v, hit
<1>8. CASE hit
  <2>1. v.covered = hoj.covered + hoj.most /\ v.leaves = [ i \in DOMAIN hoj.best |-> hoj.best[i].ec ]
    BY <1>4, <1>5, <1>8
  <2>2. Range(v.leaves) = Ecs(hoj.best)
    BY <2>1 DEF Ecs, Range
  <2>3. IsInjective(v.leaves)
    BY <1>2, <2>1 DEF FoundOnce, DistinctEntries, IsInjective
  <2>4. Achieved(v) \/ Range(v.leaves) \subseteq Fringe
    BY <1>2, <2>1, <2>2 DEF Achieved, FoundOnce
  <2>5. Range(v.leaves) \cap Ecs(v.backtrack) = {} /\ Range(v.buffer) \cap Range(v.leaves) = {}
    BY <1>2, <1>4, <1>6, <2>2 DEF FoundOnce
  <2>6. Answer(v, hit)
    BY <1>2, <1>4, <1>8, <2>3, <2>4, <2>5 DEF Answer, Resting
  <2> QED
    BY <2>6 DEF v, hit
<1> QED
  BY <1>7, <1>8

LEMMA EndHitOnce ==
  ASSUME TypeInv, Once, OnceInv, EndHit, \A b \in Range(hoj.backtrack) : b.covered # config.points
  PROVE  OnceInv'
<1>1. /\ pc = "hit" /\ requested = {"CONTINUE"} /\ ready = <<>> /\ waiting = {}
      /\ Covering(hoj) \in Members /\ Outcome(Covering(hoj), hoj.most > 0)
      /\ pc' \in {"run", "crashed"} /\ UNCHANGED <<config, open, limited>>
  BY EndHitIs
<1>2. OpenInv
  BY DEF OnceInv
<1>3. (hoj.most > 0) \in BOOLEAN
  OBVIOUS
<1>4. Answer(Covering(hoj), hoj.most > 0)
  BY AnswerOnce
<1> QED
  BY <1>1, <1>2, <1>3, <1>4, OutcomeOnce


LEMMA OnceOrdered ==
  ASSUME TypeInv, Unachieved, OrderedInv, config.ordered, Once, OnceInv, [Next]_vars
  PROVE  OnceInv'
<1>1. CASE Visit
  <2>1. pc = "hit"
    BY <1>1 DEF Visit, Looks
  <2>2. hoj.covered + hoj.most <= config.points
    BY <2>1 DEF OrderedInv, HitInv
  <2>3. hoj.covered + Total <= config.points
    BY <1>1, TurnHas
  <2> QED
    BY <1>1, <2>2, <2>3, VisitOnce
<1>2. CASE EndHit
  <2>1. \A b \in Range(hoj.backtrack) : b.covered # config.points
    <3>1. \A b \in Range(hoj.backtrack) : b \in Entries
      BY RangeOf DEF TypeInv, Members
    <3>2. \A b \in Range(hoj.backtrack) : b.covered \in Nat /\ b.covered < config.points
      BY <3>1 DEF OrderedInv, Entries
    <3> QED
      BY <3>2, GoodConfig DEF TypeInv
  <2> QED
    BY <1>2, <2>1, EndHitOnce
<1>3. CASE UNCHANGED vars
  <2>1. UNCHANGED <<config, open, limited>>
    BY <1>3 DEF vars
  <2>2. Queued' <=> Queued
    BY <1>3, <2>1, SameGraph DEF vars, Queued
  <2> QED
    BY <1>3, <2>1, <2>2, SameGraph DEF vars, OnceInv, Achieved
<1> QED
  BY <1>1, <1>2, <1>3, ExploreOnce, HandleContinueOnce, SaveBestOnce, ReturnOnce, HandleGoalOnce DEF Next

-----------------------------------------------------------------------------
(* The same in a search of an interleaving, where what hit covers are sets of points. *)

\* There are points enough for what is said to be covered.
Holds(b, n) == b \subseteq Points /\ n <= Cardinality(b)

\* What is kept for backtracking, and what hitSelect marked.
Told(h) == \A b \in Range(h.backtrack) : Holds(b.bits, b.covered)
Mark(s) == s.bits \subseteq Points /\ config.parent[s.ec] \in open \cup {0}
Marked(h) == \A s \in Range(h.selected) : Mark(s)

\* What was marked before a jump is not below a root, and a root that was marked has its points; what
\* is left of a jump that had covered points is below its roots.
Ahead(h, s) ==
  /\ \A r \in Range(h.roots) : r \in Above(s.ec) => r = s.ec
  /\ Len(h.roots) > 1 /\ s.ec \in Range(h.roots) => Holds(s.bits, h.covered)
Holding(h) ==
  /\ Holds(h.bits, h.covered)
  /\ \A s \in Range(h.selected) : Ahead(h, s)
  /\ h.covered = 0 \/ \A c \in Range(h.leaves) : Under(c, h.roots)

\* What hit has found has the points that were counted.
Best(h, e) == e.covered = h.most /\ Holds(e.bits, h.covered + h.most) /\ config.parent[e.ec] \in open \cup {0}
HitHolds(h, s, t) ==
  /\ h.covered + h.most <= config.points
  /\ \A e \in Range(h.best) : Best(h, e)
  /\ \A e \in Range(s) : Holds(e.bits, h.covered + e.covered)
  /\ \A i \in 1 .. Len(t) : Holds(t[i].done, h.covered + t[i].count)
  /\ Len(h.roots) = 1 \/ h.selected = <<>>

FreeInv ==
  /\ Told(hoj) /\ Marked(hoj)
  /\ requested = {"CONTINUE"} => Holding(hoj)
  /\ pc = "hit" => HitHolds(hoj, saves, todo)

LEMMA HoldsLess ==
  ASSUME config \in Configs, NEW b, NEW n \in Nat, Holds(b, n)
  PROVE  /\ n <= config.points /\ IsFiniteSet(b) /\ Cardinality(b) \in Nat
         /\ \A m \in Nat : m <= n => Holds(b, m)
<1>1. config.points \in Nat /\ b \subseteq Points /\ n <= Cardinality(b)
  BY GoodConfig DEF Holds
<1>2. IsFiniteSet(Points) /\ Cardinality(Points) = config.points
  BY <1>1, UpTo DEF Points
<1>3. IsFiniteSet(b) /\ Cardinality(b) <= config.points
  BY <1>1, <1>2, FS_Subset
<1>4. Cardinality(b) \in Nat
  BY <1>3, FS_CardinalityType
<1> QED
  BY <1>1, <1>3, <1>4 DEF Holds

LEMMA SameHolds ==
  ASSUME UNCHANGED <<config, open>>
  PROVE  /\ \A h : (Told(h)' <=> Told(h)) /\ (Marked(h)' <=> Marked(h)) /\ (Holding(h)' <=> Holding(h))
         /\ \A h, s, t : HitHolds(h, s, t)' <=> HitHolds(h, s, t)
<1>1. \A b, n : Holds(b, n)' <=> Holds(b, n)
  BY DEF Holds, Points
<1>2. \A c : Above(c)' = Above(c)
  BY DEF Above
<1>3. \A c, r : Under(c, r)' <=> Under(c, r)
  BY <1>2 DEF Under
<1>4. \A s : Mark(s)' <=> Mark(s)
  BY DEF Mark, Points
<1>5. \A h, s : Ahead(h, s)' <=> Ahead(h, s)
  BY <1>1, <1>2 DEF Ahead
<1>6. \A h, e : Best(h, e)' <=> Best(h, e)
  BY <1>1 DEF Best
<1> QED
  BY <1>1, <1>3, <1>4, <1>5, <1>6 DEF Told, Marked, Holding, HitHolds

LEMMA InitFree ==
  ASSUME Init
  PROVE  FreeInv
<1>1. /\ config \in Configs /\ hoj.covered = 0 /\ hoj.backtrack = <<>> /\ hoj.leaves = <<>>
      /\ pc = "run" /\ hoj.bits = {} /\ hoj.selected = <<>>
  BY InitTyped DEF Init, TypeInv
<1>2. Range(<<>>) = {}
  BY SeqOfNothing
<1>3. Holds({}, 0)
  BY FS_EmptySet DEF Holds
<1> QED
  BY <1>1, <1>2, <1>3 DEF FreeInv, Told, Marked, Holding

LEMMA ReturnFree ==
  ASSUME TypeInv, FreeInv, Return
  PROVE  FreeInv'
<1>1. /\ pc = "hit" /\ todo # <<>> /\ todo' = Tail(todo) /\ hoj' = hoj /\ saves' = saves
      /\ UNCHANGED <<config, open, requested, pc>> /\ todo \in Seq(TaskSet)
  BY DEF Return, Looks, aroundVars, TypeInv
<1>2. HitHolds(hoj, saves, todo)
  BY <1>1 DEF FreeInv
<1>3. \A i \in 1 .. Len(Tail(todo)) : i + 1 \in 1 .. Len(todo) /\ Tail(todo)[i] = todo[i + 1]
  BY <1>1
<1>4. HitHolds(hoj, saves, Tail(todo))
  BY <1>2, <1>3 DEF HitHolds
<1>5. HitHolds(hoj, saves, todo)'
  BY <1>1, <1>4, SameHolds
<1>6. Told(hoj)' /\ Marked(hoj)' /\ (requested' = {"CONTINUE"} => Holding(hoj)')
  BY <1>1, SameHolds DEF FreeInv
<1> QED
  BY <1>5, <1>6 DEF FreeInv

\* What the traversal adds, and what it leaves as it was.
LEMMA FreeHit ==
  ASSUME TypeInv, FreeInv, pc = "hit", UNCHANGED <<config, open, requested, pc>>,
         hoj'.roots = hoj.roots, hoj'.covered = hoj.covered, hoj'.bits = hoj.bits,
         hoj'.selected = hoj.selected, NEW c, Adds(c),
         Told(hoj'), HitHolds(hoj', saves', todo')
  PROVE  FreeInv'
<1>1. requested = {"CONTINUE"} /\ Holding(hoj) /\ Marked(hoj) /\ hoj.leaves \in Seq(Contexts)
  BY DEF TypeInv, FreeInv, Members
<1>2. \A d \in Range(hoj'.leaves) : d \in Range(hoj.leaves) \/ Under(d, hoj.roots)
  <2>1. CASE hoj'.leaves = hoj.leaves
    BY <2>1
  <2>2. CASE hoj'.leaves = Append(hoj.leaves, c) /\ c \in Contexts /\ Under(c, hoj.roots)
    <3>1. Range(Append(hoj.leaves, c)) = Range(hoj.leaves) \cup {c}
      BY <1>1, <2>2, RangeOf
    <3> QED
      BY <2>2, <3>1
  <2> QED
    BY <2>1, <2>2 DEF Adds
<1>3. \A s : Ahead(hoj', s) <=> Ahead(hoj, s)
  BY DEF Ahead
<1>4. Holding(hoj') /\ Marked(hoj')
  BY <1>1, <1>2, <1>3 DEF Holding, Marked
<1>5. Told(hoj)' /\ Marked(hoj)' /\ Holding(hoj)' /\ HitHolds(hoj, saves, todo)'
  BY <1>4, SameHolds
<1> QED
  BY <1>5 DEF FreeInv

\* An entry that is kept for backtracking, of a context whose path has these points.
LEMMA ToldMore ==
  ASSUME NEW h \in Members, Told(h), NEW b \in Entries, Holds(b.bits, b.covered), NEW k,
         k.backtrack = h.backtrack \/ k.backtrack = Append(h.backtrack, b)
  PROVE  Told(k)
<1>1. h.backtrack \in Seq(Entries)
  BY DEF Members
<1>2. Range(Append(h.backtrack, b)) = Range(h.backtrack) \cup {b}
  BY <1>1, RangeOf
<1>3. Range(k.backtrack) \subseteq Range(h.backtrack) \cup {b}
  BY <1>2
<1> QED
  BY <1>3 DEF Told

LEMMA SaveBestFree ==
  ASSUME TypeInv, OnceInv, FreeInv, ~ config.ordered, SaveBest
  PROVE  FreeInv'
<1> DEFINE b == Head(saves)
           c == b.ec
           e == Saved(c, b.bits, b.covered, hoj)
<1>1. b \in Entries /\ KeptOrNoted(hoj, hoj', c, e) /\ saves \in Seq(Entries) /\ saves # <<>>
  BY SaveBestTyped DEF TypeInv, SaveBest
<1>2. /\ pc = "hit" /\ saves' = Tail(saves) /\ todo' = todo
      /\ UNCHANGED <<config, open, limited, requested, ready, waiting, pc>>
  BY DEF SaveBest, aroundVars
<1>3. /\ hoj \in Members /\ hoj.covered \in Nat /\ hoj.leaves \in Seq(Contexts) /\ config \in Configs
  BY DEF TypeInv, Members
<1>4. FoundOnce(hoj, saves) /\ HitHolds(hoj, saves, todo) /\ Told(hoj)
  <2>1. requested = {"CONTINUE"}
    BY <1>2 DEF TypeInv
  <2> QED
    BY <1>2, <2>1 DEF OnceInv, FreeInv
<1>5. b \in Range(saves) /\ Range(Tail(saves)) \subseteq Range(saves)
  <2>1. Len(saves) \in Nat /\ Len(saves) # 0 /\ DOMAIN saves = 1 .. Len(saves) /\ b = saves[1]
    BY <1>1
  <2>2. \A i \in 1 .. Len(saves) - 1 : Tail(saves)[i] = saves[i + 1] /\ i + 1 \in 1 .. Len(saves)
    BY <1>1, <2>1
  <2>3. DOMAIN Tail(saves) = 1 .. Len(saves) - 1
    BY <1>1, <2>1
  <2>4. 1 \in 1 .. Len(saves)
    BY <2>1
  <2> QED
    BY <2>1, <2>2, <2>3, <2>4 DEF Range
<1>6. /\ c \in Contexts /\ b.covered \in Nat /\ b.bits \in SUBSET Nat
      /\ e \in Entries /\ e.covered = hoj.covered /\ e.bits = b.bits
  <2>1. b.ec \in Contexts /\ b.covered \in Nat /\ b.bits \in SUBSET Nat
    BY <1>1 DEF Entries
  <2> QED
    BY <1>3, <2>1, SavedIs
<1> HIDE DEF e
<1>7. Under(c, hoj.roots) /\ config.parent[c] \in open \cup {0}
  <2>1. c \in Ecs(saves)
    BY <1>5 DEF Ecs
  <2> QED
    BY <1>4, <2>1 DEF FoundOnce, Fringe
<1>8. Holds(e.bits, e.covered)
  <2>1. Holds(b.bits, hoj.covered + b.covered) /\ hoj.covered + b.covered \in Nat
    BY <1>3, <1>4, <1>5, <1>6 DEF HitHolds
  <2>2. hoj.covered <= hoj.covered + b.covered
    BY <1>3, <1>6
  <2> QED
    BY <1>3, <1>6, <2>1, <2>2, HoldsLess
<1> HIDE DEF b, c
<1>9. PICK g : Noted(hoj, g, c) /\ (hoj' = g \/ hoj' = [g EXCEPT !.backtrack = Append(@, e)])
  BY <1>1 DEF KeptOrNoted
<1>10. /\ g \in Members /\ g.covered = hoj.covered /\ g.roots = hoj.roots /\ g.bits = hoj.bits
       /\ g.selected = hoj.selected
       /\ g.most = hoj.most /\ g.best = hoj.best /\ g.backtrack = hoj.backtrack
       /\ \/ g.leaves = hoj.leaves
          \/ c \in limited /\ c \notin Range(hoj.leaves) /\ g.leaves = Append(hoj.leaves, c)
  BY <1>3, <1>9 DEF Noted, Members
<1>11. /\ hoj'.covered = hoj.covered /\ hoj'.roots = hoj.roots /\ hoj'.bits = hoj.bits
       /\ hoj'.selected = hoj.selected
       /\ hoj'.most = hoj.most /\ hoj'.best = hoj.best /\ hoj'.leaves = g.leaves
       /\ (hoj'.backtrack = hoj.backtrack \/ hoj'.backtrack = Append(hoj.backtrack, e))
  BY <1>9, <1>10 DEF Members
<1>12. Adds(c)
  BY <1>6, <1>7, <1>10, <1>11 DEF Adds
<1>13. Told(hoj')
  BY <1>3, <1>4, <1>6, <1>8, <1>11, ToldMore
<1>14. HitHolds(hoj', saves', todo')
  <2>1. \A x : Best(hoj', x) <=> Best(hoj, x)
    BY <1>11 DEF Best
  <2> QED
    BY <1>2, <1>4, <1>5, <1>11, <2>1 DEF HitHolds
<1> QED
  BY <1>2, <1>11, <1>12, <1>13, <1>14, FreeHit

\* The points down to a context are those done above it and those it hits.
LEMMA TurnHolds ==
  ASSUME TypeInv, FreeInv, Visit
  PROVE  /\ Holds(Now, hoj.covered + Total) /\ Holds(Now, hoj.covered) /\ hoj.covered + Total <= config.points
         /\ hoj.covered + hoj.most <= config.points
         /\ \A i \in 1 .. Len(Others) : Holds(Others[i].done, hoj.covered + Others[i].count)
<1>1. Looks /\ Head(todo).left # {} /\ pc = "hit"
  BY DEF Visit, Looks
<1>2. /\ Turn \in Contexts /\ Turn \in Head(todo).left /\ Total \in Nat
      /\ Len(todo) \in Nat \ {0} /\ Len(Others) = Len(todo)
      /\ Others[1] = [Head(todo) EXCEPT !.left = @ \ {Turn}]
      /\ \A i \in 2 .. Len(todo) : Others[i] = todo[i]
  BY <1>1, TurnIs
<1>3. HitHolds(hoj, saves, todo) /\ config \in Configs /\ hoj.covered \in Nat /\ todo \in Seq(TaskSet)
  BY <1>1 DEF FreeInv, TypeInv, Members
<1> DEFINE t == todo[1]
           H == Hits(Turn, t.done)
<1>4. Head(todo) = t /\ t \in TaskSet /\ Holds(t.done, hoj.covered + t.count) /\ 1 \in 1 .. Len(todo)
  BY <1>2, <1>3 DEF HitHolds
<1>5. t.count \in Nat /\ Others[1].done = t.done /\ Others[1].count = t.count
  BY <1>2, <1>4 DEF TaskSet
<1>6. H \subseteq Points \ t.done /\ IsFiniteSet(H) /\ Cardinality(H) \in Nat
  BY <1>3, HitsAre
<1> HIDE DEF t, H
<1>7. hoj.covered + t.count \in Nat
  BY <1>3, <1>5
<1>8. IsFiniteSet(t.done) /\ Cardinality(t.done) \in Nat /\ t.done \subseteq Points /\ hoj.covered + t.count <= Cardinality(t.done)
  BY <1>3, <1>4, <1>7, HoldsLess DEF Holds
<1>9. Now = t.done \cup H /\ Total = t.count + Cardinality(H)
  BY <1>4 DEF Now, Total, H
<1>10. Cardinality(t.done \cup H) = Cardinality(t.done) + Cardinality(H)
  <2>1. t.done \cap H = {}
    BY <1>6
  <2>2. Cardinality({}) = 0
    BY FS_EmptySet
  <2>3. Cardinality(t.done \cup H) = Cardinality(t.done) + Cardinality(H) - Cardinality(t.done \cap H)
    BY <1>6, <1>8, FS_Union
  <2>4. Cardinality(t.done \cap H) = 0
    BY <2>1, <2>2
  <2> QED
    BY <1>6, <1>8, <2>3, <2>4
<1>11. hoj.covered + Total <= Cardinality(Now)
  BY <1>3, <1>5, <1>6, <1>8, <1>9, <1>10
<1>12. Holds(Now, hoj.covered + Total)
  BY <1>6, <1>8, <1>9, <1>11 DEF Holds
<1>13. hoj.covered + Total \in Nat /\ hoj.covered <= hoj.covered + Total
  BY <1>2, <1>3
<1>14. Holds(Now, hoj.covered) /\ hoj.covered + Total <= config.points
  BY <1>3, <1>12, <1>13, HoldsLess
<1>15. ASSUME NEW i \in 1 .. Len(Others) PROVE Holds(Others[i].done, hoj.covered + Others[i].count)
  <2>1. CASE i = 1
    BY <1>4, <1>5, <2>1
  <2>2. CASE i # 1
    <3>1. i \in 2 .. Len(todo) /\ i \in 1 .. Len(todo)
      BY <1>2, <2>2
    <3> QED
      BY <1>2, <1>3, <3>1 DEF HitHolds
  <2> QED
    BY <2>1, <2>2
<1> QED
  BY <1>3, <1>12, <1>14, <1>15 DEF HitHolds

LEMMA VisitFree ==
  ASSUME TypeInv, OnceInv, FreeInv, ~ config.ordered, Visit
  PROVE  FreeInv'
<1> DEFINE c == Turn
<1>1. PICK g : Noted(hoj, g, c) /\ (Passed(g) \/ Descended(g) \/ Chose(g) \/ Kept(g))
  BY VisitIs
<1>2. /\ Looks /\ Head(todo).left # {} /\ pc = "hit" /\ saves = <<>>
      /\ UNCHANGED <<config, open, limited, requested, ready, waiting, pc>>
  BY DEF Visit, Looks, aroundVars
<1>3. /\ c \in Contexts /\ Now \in SUBSET Nat /\ Total \in Nat /\ Others \in Seq(TaskSet)
      /\ c \in Head(todo).left /\ 1 \in 1 .. Len(todo) /\ Head(todo) = todo[1]
      /\ Children(c) \in SUBSET Contexts
  <2>1. todo \in Seq(TaskSet) /\ todo # <<>>
    BY <1>2 DEF Looks, TypeInv
  <2> QED
    BY <1>2, <2>1, TurnIs
<1>4. /\ hoj \in Members /\ hoj.covered \in Nat /\ config.points \in Nat /\ hoj.most \in Nat
      /\ hoj.best \in Seq(Entries) /\ hoj.leaves \in Seq(Contexts) /\ config \in Configs
  BY GoodConfig DEF TypeInv, Members
<1>5. /\ Holds(Now, hoj.covered + Total) /\ Holds(Now, hoj.covered) /\ hoj.covered + Total <= config.points
      /\ hoj.covered + hoj.most <= config.points
      /\ \A i \in 1 .. Len(Others) : Holds(Others[i].done, hoj.covered + Others[i].count)
  BY TurnHolds
<1>6. Toured(hoj, saves, todo) /\ HitHolds(hoj, saves, todo) /\ Told(hoj)
  BY <1>2 DEF OnceInv, FreeInv
<1>7. Under(c, hoj.roots) /\ config.parent[c] \in open \cup {0}
  BY <1>3, <1>6 DEF Toured, Tour, Due
<1>8. /\ g \in Members /\ g.covered = hoj.covered /\ g.roots = hoj.roots /\ g.bits = hoj.bits
      /\ g.selected = hoj.selected
      /\ g.most = hoj.most /\ g.best = hoj.best /\ g.backtrack = hoj.backtrack
      /\ \/ g.leaves = hoj.leaves
         \/ c \in limited /\ c \notin Range(hoj.leaves) /\ g.leaves = Append(hoj.leaves, c)
  BY <1>1, <1>4 DEF Noted, Members
<1>9. Range(<<>>) = {}
  BY SeqOfNothing
<1>10. \A e \in Range(hoj.best) : Best(hoj, e)
  BY <1>6 DEF HitHolds
<1>11. Len(hoj.roots) = 1 \/ hoj.selected = <<>>
  BY <1>6 DEF HitHolds
<1> HIDE DEF c
<1>12. CASE Passed(g) \/ Descended(g)
  <2>1. hoj' = g /\ saves' = <<>>
    BY <1>12 DEF Passed, Descended
  <2>2. ASSUME NEW i \in 1 .. Len(todo') PROVE Holds(todo'[i].done, hoj.covered + todo'[i].count)
    <3>1. CASE Passed(g)
      BY <1>5, <2>2, <3>1 DEF Passed
    <3>2. CASE Descended(g)
      <4> DEFINE k == Task(Children(c), Now, Total)
      <4>1. todo' = <<k>> \o Others
        BY <3>2 DEF Descended, c
      <4>2. k.done = Now /\ k.count = Total
        BY DEF Task
      <4> HIDE DEF k
      <4>3. CASE i = 1
        BY <1>3, <1>5, <4>1, <4>2, <4>3
      <4>4. CASE i # 1
        <5>1. i - 1 \in 1 .. Len(Others) /\ todo'[i] = Others[i - 1]
          BY <1>3, <2>2, <4>1, <4>4
        <5> QED
          BY <1>5, <5>1
      <4> QED
        BY <4>3, <4>4
    <3> QED
      BY <1>12, <3>1, <3>2
  <2>3. \A e \in Range(g.best) : Best(g, e)
    BY <1>8, <1>10 DEF Best
  <2>4. HitHolds(hoj', saves', todo')
    BY <1>5, <1>8, <1>9, <1>11, <2>1, <2>2, <2>3 DEF HitHolds
  <2>5. Adds(c) /\ Told(hoj')
    BY <1>3, <1>6, <1>7, <1>8, <2>1 DEF Adds, Told
  <2> QED
    BY <1>2, <1>8, <2>1, <2>4, <2>5, FreeHit
<1>13. CASE Chose(g)
  <2> DEFINE b == Entry(c, Total, Now)
             k == Candidate(g, c, Now, Total)
  <2>1. /\ hoj' = k /\ saves' = Replaced(g, Total) /\ todo' = Others
        /\ Total = config.points - hoj.covered \/ Total >= hoj.most
    BY <1>13 DEF Chose, c
  <2>2. b \in Entries /\ Chooses(k, g, b, Total)
    BY <1>3, <1>8, CandidateIs
  <2>3. b.ec = c /\ b.covered = Total /\ b.bits = Now
    BY DEF Entry
  <2> HIDE DEF k, b
  <2>4. /\ Total > hoj.most => hoj'.most = Total /\ hoj'.best = <<b>>
        /\ ~ Total > hoj.most => hoj'.most = hoj.most /\ hoj'.best = Append(hoj.best, b)
        /\ hoj'.roots = hoj.roots /\ hoj'.backtrack = hoj.backtrack /\ hoj'.covered = hoj.covered
        /\ hoj'.bits = hoj.bits /\ hoj'.selected = hoj.selected /\ hoj'.leaves = g.leaves
    BY <1>8, <2>1, <2>2 DEF Chooses
  <2>5. ~ Total > hoj.most => Total = hoj.most
    BY <1>3, <1>4, <1>5, <2>1
  <2>6. hoj'.most = Total
    BY <2>4, <2>5
  <2>7. Best(hoj', b)
    BY <1>5, <1>7, <2>3, <2>4, <2>6 DEF Best
  <2>8. ASSUME NEW e \in Range(hoj'.best) PROVE Best(hoj', e)
    <3>1. CASE Total > hoj.most
      <4>1. e = b
        BY <2>4, <2>8, <3>1 DEF Range
      <4> QED
        BY <2>7, <4>1
    <3>2. CASE ~ Total > hoj.most
      <4>1. Range(Append(hoj.best, b)) = Range(hoj.best) \cup {b}
        BY <1>4, <2>2, RangeOf
      <4>2. e = b \/ e \in Range(hoj.best)
        BY <2>4, <2>8, <3>2, <4>1
      <4> QED
        BY <1>10, <2>4, <2>7, <3>2, <4>2 DEF Best
    <3> QED
      BY <3>1, <3>2
  <2>9. ASSUME NEW e \in Range(saves') PROVE Holds(e.bits, hoj.covered + e.covered)
    <3>1. saves' = <<>> \/ saves' = hoj.best
      BY <1>8, <2>1 DEF Replaced
    <3>2. e \in Range(hoj.best)
      BY <1>9, <2>9, <3>1
    <3> QED
      BY <1>10, <3>2 DEF Best
  <2>10. HitHolds(hoj', saves', todo')
    BY <1>5, <1>11, <2>1, <2>4, <2>6, <2>8, <2>9 DEF HitHolds
  <2>11. Adds(c) /\ Told(hoj')
    BY <1>3, <1>6, <1>7, <1>8, <2>4 DEF Adds, Told
  <2> QED
    BY <1>2, <2>4, <2>10, <2>11, FreeHit
<1>14. CASE Kept(g)
  <2> DEFINE b == Saved(c, Now, Total, hoj)
  <2>1. hoj' = [g EXCEPT !.backtrack = Append(@, b)] /\ saves' = <<>> /\ todo' = Others
    BY <1>14 DEF Kept, c
  <2>2. b \in Entries /\ b.covered = hoj.covered /\ b.bits = Now
    BY <1>3, <1>4, SavedIs
  <2> HIDE DEF b
  <2>3. /\ hoj'.roots = hoj.roots /\ hoj'.covered = hoj.covered /\ hoj'.bits = hoj.bits
        /\ hoj'.selected = hoj.selected
        /\ hoj'.most = hoj.most /\ hoj'.best = hoj.best /\ hoj'.leaves = g.leaves
        /\ hoj'.backtrack = Append(hoj.backtrack, b)
    BY <1>8, <2>1 DEF Members
  <2>4. Told(hoj')
    BY <1>4, <1>5, <1>6, <2>2, <2>3, ToldMore
  <2>5. \A e \in Range(hoj'.best) : Best(hoj', e)
    BY <1>10, <2>3 DEF Best
  <2>6. HitHolds(hoj', saves', todo')
    BY <1>5, <1>9, <1>11, <2>1, <2>3, <2>5 DEF HitHolds
  <2>7. Adds(c)
    BY <1>3, <1>7, <1>8, <2>3 DEF Adds
  <2> QED
    BY <1>2, <2>3, <2>4, <2>6, <2>7, FreeHit
<1> QED
  BY <1>1, <1>12, <1>13, <1>14

LEMMA ExploreFree ==
  ASSUME TypeInv, OnceInv, FreeInv, Explore
  PROVE  FreeInv'
<1>1. PICK batch : Explored(batch)
  BY ExploreIs
<1> DEFINE deep == TooDeep(batch)
<1>2. requested = {"CONTINUE"} /\ pc = "run" /\ UNCHANGED <<config, requested>>
  <2>1. UNCHANGED <<config, requested>>
    BY DEF Explore
  <2> QED
    BY <1>1, <2>1 DEF Explored, OnceInv
<1>3. Queued /\ Told(hoj) /\ Marked(hoj) /\ Holding(hoj)
  BY <1>2 DEF OnceInv, FreeInv
<1>4. /\ hoj \in Members /\ hoj' \in Members
      /\ hoj'.roots = hoj.roots /\ hoj'.backtrack = hoj.backtrack /\ hoj'.bits = hoj.bits
      /\ hoj'.covered = hoj.covered /\ hoj'.selected = hoj.selected /\ hoj'.leaves = hoj.leaves \o deep
      /\ hoj.leaves \in Seq(Contexts) /\ deep \in Seq(Contexts)
  BY <1>1 DEF TypeInv, Explored, Members
<1>5. open \subseteq open' /\ pc' # "hit" /\ batch \in Seq(Contexts) /\ Range(deep) \subseteq Range(batch)
  BY <1>1 DEF Explored
<1>6. Range(batch) \subseteq Range(ready) \cup waiting
  <2>1. \A c \in waiting : batch = <<c>> => Range(batch) \subseteq waiting
    BY DEF Range
  <2> QED
    BY <1>1, <2>1 DEF Explored
<1>7. \A c \in Range(deep) : Under(c, hoj.roots)
  BY <1>3, <1>5, <1>6 DEF Queued
<1> HIDE DEF deep
<1>8. Range(hoj'.leaves) = Range(hoj.leaves) \cup Range(deep)
  BY <1>4, RangeOf
<1>9. \A s : Ahead(hoj', s) <=> Ahead(hoj, s)
  BY <1>4 DEF Ahead
<1>10. Holding(hoj')
  BY <1>3, <1>4, <1>7, <1>8, <1>9 DEF Holding
<1>11. /\ \A b, n : Holds(b, n)' <=> Holds(b, n)
       /\ \A c : Above(c)' = Above(c)
  BY <1>2 DEF Holds, Points, Above
<1>12. \A s : Mark(s) => Mark(s)'
  BY <1>2, <1>5 DEF Mark, Points
<1>13. Told(hoj)' /\ Marked(hoj)'
  BY <1>3, <1>4, <1>11, <1>12 DEF Told, Marked
<1>14. Holding(hoj)'
  <2>1. \A c, r : Under(c, r)' <=> Under(c, r)
    BY <1>11 DEF Under
  <2>2. \A h, s : Ahead(h, s)' <=> Ahead(h, s)
    BY <1>11 DEF Ahead
  <2> QED
    BY <1>10, <1>11, <2>1, <2>2 DEF Holding
<1> QED
  BY <1>5, <1>13, <1>14 DEF FreeInv

\* Where hit begins: the points of a root that was marked are those of its mark.
LEMMA TasksHold ==
  ASSUME TypeInv, Holding(hoj), hoj.roots # <<>>, ~ config.ordered
  PROVE  \A i \in 1 .. Len(Tasks(hoj)) : Holds(Tasks(hoj)[i].done, hoj.covered + Tasks(hoj)[i].count)
<1>1. /\ hoj.roots \in Seq(Contexts) /\ Len(hoj.roots) \in Nat \ {0} /\ DOMAIN hoj.roots = 1 .. Len(hoj.roots)
      /\ hoj.selected \in Seq(Entries) /\ hoj.covered \in Nat
  BY LenProperties DEF TypeInv, Members
<1>2. hoj.covered + 0 = hoj.covered
  BY <1>1
<1>3. CASE FromTop(hoj)
  <2> DEFINE k == Task({hoj.roots[1]}, hoj.bits, 0)
  <2>1. Tasks(hoj) = <<k>> /\ k.done = hoj.bits /\ k.count = 0
    BY <1>3 DEF Tasks, Task
  <2> HIDE DEF k
  <2>2. \A i \in 1 .. Len(<<k>>) : <<k>>[i] = k
    OBVIOUS
  <2> QED
    BY <1>2, <2>1, <2>2 DEF Holding
<1>4. CASE ~ FromTop(hoj)
  <2> DEFINE t == Tasks(hoj)
  <2>1. /\ Len(t) = Len(hoj.roots)
        /\ \A i \in 1 .. Len(hoj.roots) : t[i].done = BitsOf(hoj, hoj.roots[i]) /\ t[i].count = 0
    BY <1>1, <1>4 DEF Tasks, Task
  <2> HIDE DEF t
  <2>2. Len(hoj.roots) > 1
    <3>1. Len(hoj.roots) # 1
      BY <1>4 DEF FromTop
    <3>2. \A n \in Nat \ {0} : n # 1 => n > 1
      OBVIOUS
    <3>3. Len(hoj.roots) \in Nat \ {0}
      BY <1>1
    <3> QED
      BY <3>1, <3>2, <3>3
  <2>3. ASSUME NEW r \in Range(hoj.roots) PROVE Holds(BitsOf(hoj, r), hoj.covered)
    <3> DEFINE known == { i \in DOMAIN hoj.selected : hoj.selected[i].ec = r }
               s == hoj.selected[Min(known)]
    <3>1. BitsOf(hoj, r) = IF known = {} THEN hoj.bits ELSE s.bits
      BY DEF BitsOf
    <3>2. known \subseteq Nat
      BY <1>1, LenProperties
    <3>3. known # {} => Min(known) \in known
      BY <3>2, MinIs
    <3>4. known # {} => s \in Range(hoj.selected) /\ s.ec = r
      BY <3>3 DEF Range
    <3> HIDE DEF known, s
    <3> QED
      BY <2>2, <2>3, <3>1, <3>4 DEF Holding, Ahead
  <2>4. \A i \in 1 .. Len(hoj.roots) : hoj.roots[i] \in Range(hoj.roots)
    BY <1>1 DEF Range
  <2> QED
    BY <1>2, <2>1, <2>3, <2>4 DEF t
<1> QED
  BY <1>3, <1>4

LEMMA HandleContinueFree ==
  ASSUME TypeInv, Unachieved, FreeInv, ~ config.ordered, HandleContinue
  PROVE  FreeInv'
<1>1. /\ pc = "run" /\ requested = {"CONTINUE"}
      /\ pc' = "hit" /\ hoj' = Started(hoj) /\ todo' = Tasks(hoj) /\ saves' = <<>>
      /\ hoj.roots # <<>> /\ UNCHANGED <<config, open, limited, ready, waiting, gone, requested>>
  BY HandleContinueIs
<1>2. Told(hoj) /\ Marked(hoj) /\ Holding(hoj)
  BY <1>1 DEF FreeInv
<1>3. /\ hoj \in Members /\ hoj.covered \in Nat /\ config \in Configs
  BY DEF TypeInv, Members
<1>4. /\ hoj'.best = <<>> /\ hoj'.roots = hoj.roots /\ hoj'.backtrack = hoj.backtrack /\ hoj'.covered = hoj.covered
      /\ hoj'.leaves = hoj.leaves /\ hoj'.bits = hoj.bits /\ hoj'.most = 0
      /\ hoj'.selected = IF FromTop(hoj) THEN hoj.selected ELSE <<>>
  BY <1>1, <1>3, StartedIs
<1>5. Range(<<>>) = {}
  BY SeqOfNothing
<1>6. Range(hoj'.selected) \subseteq Range(hoj.selected) /\ (Len(hoj'.roots) = 1 \/ hoj'.selected = <<>>)
  BY <1>4, <1>5 DEF FromTop
<1>7. Told(hoj') /\ Marked(hoj')
  BY <1>2, <1>4, <1>6 DEF Told, Marked
<1>8. Holding(hoj')
  <2>1. \A s : Ahead(hoj', s) <=> Ahead(hoj, s)
    BY <1>4 DEF Ahead
  <2> QED
    BY <1>2, <1>4, <1>6, <2>1 DEF Holding
<1>9. hoj.covered <= config.points /\ hoj.covered + 0 = hoj.covered
  BY <1>2, <1>3, HoldsLess DEF Holding
<1>10. \A i \in 1 .. Len(todo') : Holds(todo'[i].done, hoj.covered + todo'[i].count)
  BY <1>1, <1>2, TasksHold
<1>11. HitHolds(hoj', saves', todo')
  BY <1>1, <1>4, <1>5, <1>6, <1>9, <1>10 DEF HitHolds
<1>12. Told(hoj)' /\ Marked(hoj)' /\ Holding(hoj)' /\ HitHolds(hoj, saves, todo)'
  BY <1>1, <1>7, <1>8, <1>11, SameHolds
<1> QED
  BY <1>12 DEF FreeInv

LEMMA HandleGoalFree ==
  ASSUME TypeInv, OnceInv, FreeInv, HandleGoalAchieved
  PROVE  FreeInv'
<1> DEFINE r == Head(hoj.buffer)
<1>1. /\ "GOAL" \in requested /\ ready = <<>> /\ pc = "run"
      /\ \/ hoj' = hoj /\ requested' = (requested \ {"GOAL"}) \cup {"STOP"} /\ waiting' = waiting
         \/ /\ hoj.buffer # <<>> /\ r \in Contexts /\ hoj'.roots = <<r>> /\ hoj'.covered = 0
            /\ hoj'.leaves = hoj.leaves /\ hoj'.backtrack = hoj.backtrack
            /\ hoj'.bits = {} /\ hoj'.selected = hoj.selected
  BY GoalIs
<1>2. UNCHANGED <<config, open, pc>> /\ Told(hoj) /\ Marked(hoj)
  BY DEF HandleGoalAchieved, FreeInv
<1>3. CASE hoj' = hoj /\ requested' = (requested \ {"GOAL"}) \cup {"STOP"}
  <2>1. requested' # {"CONTINUE"}
    BY <1>3
  <2>2. Told(hoj)' /\ Marked(hoj)'
    BY <1>2, <1>3, SameHolds
  <2> QED
    BY <1>1, <1>2, <2>1, <2>2 DEF FreeInv
<1>4. CASE /\ hoj.buffer # <<>> /\ r \in Contexts /\ hoj'.roots = <<r>> /\ hoj'.covered = 0
           /\ hoj'.leaves = hoj.leaves /\ hoj'.backtrack = hoj.backtrack
           /\ hoj'.bits = {} /\ hoj'.selected = hoj.selected
  <2>1. r \in Fringe /\ OpenInv
    <3>1. r \in Range(hoj.buffer)
      <4>1. hoj.buffer \in Seq(Contexts)
        BY DEF TypeInv, Members
      <4>2. Len(hoj.buffer) \in Nat /\ Len(hoj.buffer) # 0 /\ DOMAIN hoj.buffer = 1 .. Len(hoj.buffer) /\ r = hoj.buffer[1]
        BY <1>4, <4>1
      <4>3. 1 \in DOMAIN hoj.buffer
        BY <4>2
      <4> QED
        BY <4>2, <4>3 DEF Range
    <3> QED
      BY <1>4, <3>1 DEF OnceInv, Resting
  <2> HIDE DEF r
  <2>2. Range(<<r>>) = {r} /\ Len(<<r>>) = 1
    BY DEF Range
  <2>3. ASSUME NEW s \in Range(hoj.selected) PROVE Ahead(hoj', s)
    <3>1. s.ec \in Contexts /\ config.parent[s.ec] \in open \cup {0}
      <4>1. Range(hoj.selected) \subseteq Entries
        BY RangeOf DEF TypeInv, Members
      <4> QED
        BY <1>2, <2>3, <4>1 DEF Entries, Marked, Mark
    <3>2. r \in Above(s.ec) => r = s.ec
      BY <2>1, <3>1, Reached DEF Fringe
    <3>3. Range(hoj'.roots) = {r} /\ Len(hoj'.roots) = 1
      BY <1>4, <2>2
    <3> QED
      BY <3>2, <3>3 DEF Ahead
  <2>4. Holds({}, 0)
    BY FS_EmptySet DEF Holds
  <2>5. Told(hoj') /\ Marked(hoj') /\ Holding(hoj')
    BY <1>2, <1>4, <2>3, <2>4 DEF Told, Marked, Holding
  <2>6. Told(hoj)' /\ Marked(hoj)' /\ Holding(hoj)'
    BY <1>2, <2>5, SameHolds
  <2> QED
    BY <1>1, <1>2, <2>6 DEF FreeInv
<1> QED
  BY <1>1, <1>3, <1>4

\* Contexts that are not evaluated are not above what was marked, unless they were marked.
LEMMA MarkedBelow ==
  ASSUME TypeInv, OpenInv, NEW h \in Members, Marked(h), NEW r \in Fringe, NEW s \in Range(h.selected), r \in Above(s.ec)
  PROVE  r = s.ec
<1>1. h.selected \in Seq(Entries)
  BY DEF Members
<1>2. s \in Entries
  BY <1>1, RangeOf
<1>3. s.ec \in Contexts /\ config.parent[s.ec] \in open \cup {0} /\ r \notin open
  BY <1>2 DEF Entries, Marked, Mark, Fringe
<1> QED
  BY <1>3, Reached

\* What the answer of hit leaves to go on from: where a leaf was marked before, with fewer points, it
\* is the only one.
Marks(v) ==
  \A s \in Range(v.selected) :
    s.ec \in Range(v.leaves) => Holds(s.bits, v.covered) \/ Range(v.leaves) = {s.ec}

LEMMA OutcomeFree ==
  ASSUME TypeInv, OpenInv, Once, ~ config.ordered,
         NEW v \in Members, NEW hit \in BOOLEAN, Answer(v, hit), Outcome(v, hit),
         pc' \in {"run", "crashed"}, UNCHANGED <<config, open, limited>>, ready = <<>>, waiting = {},
         Told(v), Marked(v), \A b \in Range(v.best) : Mark(b), (hit /\ Achieved(v)) \/ Marks(v),
         hit => \A b \in Range(v.best) : Holds(b.bits, v.covered),
         ~ hit => Holds(v.bits, v.covered)
  PROVE  FreeInv'
<1>0. PICK posted \in {{}, {"GOAL"}} : \E w :
       /\ Follows(v, w, hit /\ Achieved(v))
       /\ GivenUp(w) \/ Backtracked(w, posted) \/ Jumped(v, w, posted, hit)
       /\ hit /\ Achieved(v) /\ ~ Backtracked(w, posted) =>
            requested' = {"GOAL"} \/ (posted = {"GOAL"} /\ ~ config.final /\ ~ config.max /\ ~ config.stop)
  BY DEF Outcome
<1>1. PICK w :
       /\ Follows(v, w, hit /\ Achieved(v))
       /\ GivenUp(w) \/ Backtracked(w, posted) \/ Jumped(v, w, posted, hit)
       /\ hit /\ Achieved(v) /\ ~ Backtracked(w, posted) =>
            requested' = {"GOAL"} \/ (posted = {"GOAL"} /\ ~ config.final /\ ~ config.max /\ ~ config.stop)
  BY <1>0
<1>2. /\ w \in Members /\ w.covered = v.covered /\ w.backtrack \in Seq(Range(v.backtrack))
      /\ w.selected \in Seq(Range(v.selected) \cup Range(v.best))
  BY <1>1 DEF Follows
<1>3. Range(w.backtrack) \subseteq Range(v.backtrack) /\ Range(w.selected) \subseteq Range(v.selected) \cup Range(v.best)
  BY <1>2, RangeOf
<1>4. Told(w) /\ Marked(w)
  BY <1>3 DEF Told, Marked
<1>5. CASE GivenUp(w)
  <2>1. hoj' = w /\ requested' # {"CONTINUE"} /\ pc' # "hit"
    BY <1>5 DEF GivenUp
  <2>2. Told(hoj)' /\ Marked(hoj)'
    BY <1>4, <2>1, SameHolds
  <2> QED
    BY <2>1, <2>2 DEF FreeInv
<1>6. CASE Backtracked(w, posted)
  <2> DEFINE b == Last(w.backtrack)
  <2>1. /\ b \in Range(w.backtrack) /\ hoj' \in Members
        /\ hoj'.backtrack = Front(w.backtrack) /\ hoj'.roots = <<b.ec>>
        /\ hoj'.covered = b.covered /\ hoj'.leaves = w.leaves /\ hoj'.bits = b.bits
        /\ hoj'.selected = w.selected
    BY <1>2, <1>6, BacktrackedIs
  <2>2. w.leaves = <<>> /\ w.backtrack # <<>>
    BY <1>6 DEF Backtracked
  <2>3. Range(Front(w.backtrack)) \subseteq Range(w.backtrack)
    <3>1. w.backtrack \in Seq(Entries)
      BY <1>2 DEF Members
    <3> QED
      BY <2>2, <3>1, LastFront
  <2> HIDE DEF b
  <2>4. b.ec \in Fringe /\ Holds(b.bits, b.covered)
    <3>1. b \in Range(v.backtrack)
      BY <1>3, <2>1
    <3>2. b.ec \in Ecs(v.backtrack)
      BY <3>1 DEF Ecs
    <3> QED
      BY <1>4, <2>1, <3>2 DEF Answer, Told
  <2>5. Range(<<b.ec>>) = {b.ec} /\ Len(<<b.ec>>) = 1 /\ Range(<<>>) = {}
    BY DEF Range
  <2>6. Told(hoj') /\ Marked(hoj')
    BY <1>4, <2>1, <2>3 DEF Told, Marked
  <2>7. ASSUME NEW s \in Range(hoj'.selected) PROVE Ahead(hoj', s)
    <3>1. b.ec \in Above(s.ec) => b.ec = s.ec
      BY <2>1, <2>4, <2>6, <2>7, MarkedBelow
    <3>2. Range(hoj'.roots) = {b.ec} /\ Len(hoj'.roots) = 1
      BY <2>1, <2>5
    <3> QED
      BY <3>1, <3>2 DEF Ahead
  <2>8. Holding(hoj')
    BY <2>1, <2>2, <2>4, <2>5, <2>7 DEF Holding
  <2>9. Told(hoj)' /\ Marked(hoj)' /\ Holding(hoj)'
    BY <2>6, <2>8, SameHolds
  <2>10. pc' # "hit"
    OBVIOUS
  <2> QED
    BY <2>9, <2>10 DEF FreeInv
<1>7. CASE Jumped(v, w, posted, hit) /\ ~ Backtracked(w, posted)
  <2>1. ~ (hit /\ Achieved(v))
    <3>1. requested' = posted \cup {"CONTINUE"}
      BY <1>7 DEF Jumped
    <3>2. requested' # {"GOAL"}
      BY <3>1
    <3> QED
      BY <1>1, <1>7, <3>2 DEF Once
  <2>2. Range(v.leaves) \subseteq Fringe /\ IsInjective(v.leaves)
    BY <2>1 DEF Answer
  <2>3. /\ hoj' \in Members /\ hoj'.roots = w.roots /\ hoj'.backtrack = w.backtrack /\ hoj'.covered = v.covered
        /\ hoj'.leaves = w.leaves /\ hoj'.selected = w.selected /\ hoj'.bits = w.bits
    BY <1>2, <1>7, JumpedIs
  <2>4. /\ w.roots \in Seq(Range(v.leaves)) /\ w.leaves = <<>> /\ IsInjective(w.roots)
        /\ hit => \E b \in Range(v.best) : w.bits = b.bits
        /\ ~ hit => w.bits = v.bits /\ w.selected = v.selected
    BY <1>7, <2>2 DEF Jumped
  <2>5. Range(w.roots) \subseteq Range(v.leaves) /\ DOMAIN w.roots = 1 .. Len(w.roots) /\ Len(w.roots) \in Nat
    BY <2>4, RangeOf
  <2>6. Told(hoj') /\ Marked(hoj')
    BY <1>4, <2>3 DEF Told, Marked
  <2>7. Holds(hoj'.bits, hoj'.covered)
    BY <2>3, <2>4
  <2>8. ASSUME NEW s \in Range(hoj'.selected), Len(w.roots) > 1, s.ec \in Range(w.roots)
        PROVE  Holds(s.bits, v.covered)
    <3>1. CASE s \in Range(v.selected)
      <4>1. Holds(s.bits, v.covered) \/ Range(v.leaves) = {s.ec}
        BY <2>1, <2>5, <2>8, <3>1 DEF Marks
      <4>2. ASSUME Range(v.leaves) = {s.ec} PROVE FALSE
        <5>1. 1 \in DOMAIN w.roots /\ 2 \in DOMAIN w.roots
          BY <2>5, <2>8
        <5>2. w.roots[1] = s.ec /\ w.roots[2] = s.ec
          BY <2>5, <4>2, <5>1 DEF Range
        <5> QED
          BY <2>4, <5>1, <5>2 DEF IsInjective
      <4> QED
        BY <4>1, <4>2
    <3>2. CASE s \notin Range(v.selected)
      <4>1. s \in Range(v.best)
        BY <1>3, <2>3, <2>8, <3>2
      <4>2. hit
        BY <2>3, <2>4, <2>8, <3>2
      <4> QED
        BY <4>1, <4>2
    <3> QED
      BY <3>1, <3>2
  <2>9. ASSUME NEW s \in Range(hoj'.selected) PROVE Ahead(hoj', s)
    <3>1. \A r \in Range(w.roots) : r \in Above(s.ec) => r = s.ec
      BY <2>2, <2>3, <2>5, <2>6, <2>9, MarkedBelow
    <3> QED
      BY <2>3, <2>8, <2>9, <3>1 DEF Ahead
  <2>10. Holding(hoj')
    <3>1. Range(<<>>) = {}
      BY SeqOfNothing
    <3> QED
      BY <2>3, <2>4, <2>7, <2>9, <3>1 DEF Holding
  <2>11. Told(hoj)' /\ Marked(hoj)' /\ Holding(hoj)'
    BY <2>6, <2>10, SameHolds
  <2>12. pc' # "hit"
    OBVIOUS
  <2> QED
    BY <2>11, <2>12 DEF FreeInv
<1> QED
  BY <1>1, <1>5, <1>6, <1>7

LEMMA EndHitFree ==
  ASSUME TypeInv, Once, OnceInv, FreeInv, ~ config.ordered, EndHit,
         \A b \in Range(hoj.backtrack) : b.covered # config.points
  PROVE  FreeInv'
<1> DEFINE v == Covering(hoj)
           hit == hoj.most > 0
<1>1. /\ pc = "hit" /\ requested = {"CONTINUE"} /\ ready = <<>> /\ waiting = {}
      /\ v \in Members /\ Outcome(v, hit)
      /\ pc' \in {"run", "crashed"} /\ UNCHANGED <<config, open, limited>>
  BY EndHitIs
<1>2. /\ OpenInv /\ Resting(hoj) /\ Going(hoj) /\ FoundOnce(hoj, saves) /\ ~ Achieved(hoj)
      /\ HitHolds(hoj, saves, todo) /\ Told(hoj) /\ Marked(hoj) /\ Holding(hoj)
  BY <1>1 DEF OnceInv, FreeInv
<1>3. /\ hoj \in Members /\ hoj.best \in Seq(Entries) /\ hoj.most \in Nat /\ hoj.covered \in Nat
      /\ hit \in BOOLEAN /\ hoj.roots \in Seq(Contexts) /\ hoj.selected \in Seq(Entries) /\ config \in Configs
  BY DEF TypeInv, Members
<1>4. /\ hoj.most = 0 => v = hoj
      /\ hoj.most # 0 => /\ v.covered = hoj.covered + hoj.most
                         /\ v.leaves = [ i \in DOMAIN hoj.best |-> hoj.best[i].ec ]
      /\ v.backtrack = hoj.backtrack /\ v.selected = hoj.selected /\ v.best = hoj.best
  BY <1>3, CoveringIs
<1>5. hit <=> hoj.most # 0
  BY <1>3
<1>6. Answer(v, hit)
  BY AnswerOnce
<1> HIDE DEF v, hit
<1>7. Told(v) /\ Marked(v)
  BY <1>2, <1>4 DEF Told, Marked
<1>8. \A b \in Range(v.best) : Mark(b)
  BY <1>2, <1>4 DEF HitHolds, Best, Holds, Mark
<1>9. hit => \A b \in Range(v.best) : Holds(b.bits, v.covered)
  BY <1>2, <1>4, <1>5 DEF HitHolds, Best
<1>10. ~ hit => Holds(v.bits, v.covered)
  BY <1>2, <1>4, <1>5 DEF Holding
<1>11. ASSUME NEW s \in Range(v.selected), s.ec \in Range(v.leaves), \A c \in Range(v.leaves) : Under(c, hoj.roots),
              Range(v.leaves) \subseteq Fringe
       PROVE  Range(v.leaves) = {s.ec}
  <2>1. Len(hoj.roots) = 1
    <3>1. Range(<<>>) = {}
      BY SeqOfNothing
    <3> QED
      BY <1>2, <1>4, <1>11, <3>1 DEF HitHolds
  <2>2. PICK r : Range(hoj.roots) = {r}
    <3>1. \A x : x \in Range(hoj.roots) <=> \E i \in 1 .. Len(hoj.roots) : hoj.roots[i] = x
      BY <1>3, RangeOf
    <3>2. 1 .. Len(hoj.roots) = {1}
      BY <2>1
    <3>3. \A x : x \in Range(hoj.roots) <=> hoj.roots[1] = x
      BY <3>1, <3>2
    <3>4. Range(hoj.roots) = {hoj.roots[1]}
      BY <3>3
    <3> QED
      BY <3>4
  <2>3. \A c \in Range(v.leaves) : r \in Above(c)
    BY <1>11, <2>2 DEF Under
  <2>4. r = s.ec
    BY <1>2, <1>4, <1>11, <2>2, <2>3 DEF Holding, Ahead
  <2>5. r \in Fringe
    BY <1>11, <2>4
  <2>6. \A c \in Range(v.leaves) : c = r
    BY <1>2, <1>11, <2>3, <2>5, Reached DEF Fringe
  <2> QED
    BY <1>11, <2>4, <2>6
<1>12. (hit /\ Achieved(v)) \/ Marks(v)
  <2>1. CASE ~ hit
    <3>1. v = hoj
      BY <1>4, <1>5, <2>1
    <3>2. Range(v.leaves) \subseteq Fringe
      BY <1>2, <3>1 DEF Resting
    <3>3. CASE hoj.covered = 0
      <4>1. \A s \in Range(v.selected) : Holds(s.bits, 0)
        <5>1. \A s \in Range(v.selected) : s.bits \subseteq Points
          BY <1>7 DEF Marked, Mark
        <5>2. IsFiniteSet(Points)
          BY <1>3, GoodConfig, UpTo DEF Points
        <5>3. \A b : b \subseteq Points => IsFiniteSet(b) /\ Cardinality(b) \in Nat
          BY <5>2, FS_Subset, FS_CardinalityType
        <5>4. \A n \in Nat : 0 <= n
          OBVIOUS
        <5> QED
          BY <5>1, <5>3, <5>4 DEF Holds
      <4> QED
        BY <3>1, <3>3, <4>1 DEF Marks
    <3>4. CASE hoj.covered # 0
      <4>1. \A c \in Range(v.leaves) : Under(c, hoj.roots)
        BY <1>2, <3>1, <3>4 DEF Holding
      <4> QED
        BY <1>11, <3>2, <4>1 DEF Marks
    <3> QED
      BY <3>3, <3>4
  <2>2. CASE hit
    <3>1. v.leaves = [ i \in DOMAIN hoj.best |-> hoj.best[i].ec ] /\ v.covered = hoj.covered + hoj.most
      BY <1>4, <1>5, <2>2
    <3>2. Range(v.leaves) = Ecs(hoj.best)
      BY <3>1 DEF Ecs, Range
    <3>3. \A c \in Range(v.leaves) : Under(c, hoj.roots)
      BY <1>2, <3>2 DEF FoundOnce
    <3>4. Range(v.leaves) \subseteq Fringe \/ v.covered = config.points
      BY <1>2, <3>1, <3>2 DEF FoundOnce
    <3>5. v.covered = config.points => Achieved(v)
      BY DEF Achieved
    <3> QED
      BY <1>11, <2>2, <3>3, <3>4, <3>5 DEF Marks
  <2> QED
    BY <2>1, <2>2
<1> QED
  BY <1>1, <1>2, <1>3, <1>6, <1>7, <1>8, <1>9, <1>10, <1>12, OutcomeFree

\* The invariants go together in a search of an interleaving.
LEMMA OnceFree ==
  ASSUME TypeInv, Unachieved, ~ config.ordered, Once, OnceInv, FreeInv, [Next]_vars
  PROVE  OnceInv' /\ FreeInv'
<1>1. CASE Visit
  <2>1. hoj.covered + hoj.most <= config.points /\ hoj.covered + Total <= config.points
    BY <1>1, TurnHolds
  <2> QED
    BY <1>1, <2>1, VisitOnce, VisitFree
<1>2. CASE EndHit
  <2>1. \A b \in Range(hoj.backtrack) : b.covered # config.points
    BY DEF Unachieved
  <2> QED
    BY <1>2, <2>1, EndHitOnce, EndHitFree
<1>3. CASE UNCHANGED vars
  <2>1. UNCHANGED <<config, open, limited>> /\ UNCHANGED <<hoj, saves, todo, requested, pc, ready, waiting>>
    BY <1>3 DEF vars
  <2>2. Queued' <=> Queued
    BY <2>1, SameGraph DEF Queued
  <2>3. OnceInv'
    BY <2>1, <2>2, SameGraph DEF OnceInv, Achieved
  <2>4. FreeInv'
    BY <2>1, SameHolds DEF FreeInv
  <2> QED
    BY <2>3, <2>4
<1>4. CASE Explore
  BY <1>4, ExploreOnce, ExploreFree
<1>5. CASE HandleContinue
  BY <1>5, HandleContinueOnce, HandleContinueFree
<1>6. CASE SaveBest
  BY <1>6, SaveBestOnce, SaveBestFree
<1>7. CASE Return
  BY <1>7, ReturnOnce, ReturnFree
<1>8. CASE HandleGoalAchieved
  BY <1>8, HandleGoalOnce, HandleGoalFree
<1> QED
  BY <1>1, <1>2, <1>3, <1>4, <1>5, <1>6, <1>7, <1>8 DEF Next

\* No context is evaluated twice: a jump that keeps only what is below its roots never comes back
\* to what was evaluated, through the buffer, the leaves or the list kept for backtracking.
THEOREM OnlyOnce == Spec => []NothingTwice
<1> DEFINE Inv == /\ TypeInv /\ Unachieved
                  /\ config.ordered => OrderedInv
                  /\ Once => OnceInv
                  /\ Once /\ ~ config.ordered => FreeInv
<1>1. Init => Inv
  BY InitTyped, InitUnachieved, InitOrdered, InitOnce, InitFree
<1>2. Inv /\ [Next]_vars => Inv'
  <2> SUFFICES ASSUME Inv, [Next]_vars PROVE Inv'
    OBVIOUS
  <2>1. TypeInv' /\ Unachieved'
    BY TypedNext
  <2>2. config' = config
    BY DEF Next, Explore, HandleContinue, Return, SaveBest, Visit, EndHit, HandleGoalAchieved, aroundVars, vars
  <2>3. config.ordered => OrderedInv'
    BY OrderedNext
  <2>4. Once' <=> Once
    BY <2>2, SameUnder
  <2>5. Once /\ config.ordered => OnceInv'
    BY OnceOrdered
  <2>6. Once /\ ~ config.ordered => OnceInv' /\ FreeInv'
    BY OnceFree
  <2> QED
    BY <2>1, <2>2, <2>3, <2>4, <2>5, <2>6
<1>3. Inv => NothingTwice
  BY DEF NothingTwice, Once, OnceInv
<1> HIDE DEF Inv
<1> QED
  BY <1>1, <1>2, <1>3, PTL DEF Spec

-----------------------------------------------------------------------------
(* Nothing that was sliced off is used again. *)

\* Two contexts on a path.
LEMMA PathHeights ==
  ASSUME config \in Configs
  PROVE  \A d \in Contexts : \A a \in Above(d) :
           /\ a \in Contexts /\ Height(a) \in Nat /\ Height(d) \in Nat /\ Height(a) <= Height(d)
           /\ a # d => Height(a) < Height(d) /\ config.parent[d] \in Contexts /\ a \in Above(config.parent[d])
<1>1. ASSUME NEW d \in Contexts, NEW a \in Above(d)
      PROVE  a \in Contexts /\ Height(a) \in Nat /\ Height(d) \in Nat /\ Height(a) <= Height(d)
  <2>1. a \in Contexts /\ Above(a) \subseteq Above(d)
    BY <1>1, PathFacts
  <2>2. IsFiniteSet(Above(d)) /\ Height(a) \in Nat /\ Height(d) \in Nat
    BY <1>1, <2>1, HeightFacts
  <2>3. IsFiniteSet(Above(a)) /\ Cardinality(Above(a)) <= Cardinality(Above(d))
    BY <2>1, <2>2, FS_Subset
  <2>4. Cardinality(Above(a)) \in Nat /\ Cardinality(Above(d)) \in Nat
    BY <2>2, <2>3, FS_CardinalityType
  <2> QED
    BY <2>1, <2>2, <2>3, <2>4 DEF Height
<1>2. ASSUME NEW d \in Contexts, NEW a \in Above(d), a # d
      PROVE  Height(a) < Height(d) /\ config.parent[d] \in Contexts /\ a \in Above(config.parent[d])
  <2> DEFINE u == config.parent[d]
  <2>1. u \in Contexts \cup {0} /\ Above(d) = Above(u) \cup {d} /\ Above(0) = {}
    BY GraphFacts
  <2>2. Height(d) = Height(u) + 1
    BY HeightFacts
  <2> HIDE DEF u
  <2>3. a \in Above(u) /\ u \in Contexts
    BY <1>2, <2>1
  <2>4. Height(a) <= Height(u) /\ Height(a) \in Nat /\ Height(u) \in Nat
    BY <1>1, <2>3
  <2>5. Height(a) < Height(d)
    BY <2>2, <2>4
  <2> QED
    BY <2>3, <2>5 DEF u
<1> QED
  BY <1>1, <1>2

LEMMA Comparable ==
  ASSUME config \in Configs
  PROVE  \A d \in Contexts : \A a, b \in Above(d) : Height(a) <= Height(b) => a \in Above(b)
<1> DEFINE Fine(d) == \A a, b \in Above(d) : Height(a) <= Height(b) => a \in Above(b)
           T == { d \in Contexts : ~ Fine(d) }
<1>1. T \subseteq Nat
  BY GraphFacts
<1>2. ASSUME T # {} PROVE FALSE
  <2>1. PICK d \in T : \A y \in T : d <= y
    BY <1>1, <1>2, LeastNatural
  <2> DEFINE u == config.parent[d]
  <2>2. d \in Contexts /\ d \in Nat /\ u \in Nat /\ u < d /\ Above(d) = Above(u) \cup {d}
    BY GraphFacts
  <2>3. \A a \in Above(d) : a # d => Height(a) < Height(d) /\ u \in Contexts /\ a \in Above(u) /\ Height(a) \in Nat
    BY <2>2, PathHeights
  <2>4. Height(d) \in Nat
    BY <2>2, HeightFacts
  <2> HIDE DEF u
  <2>5. u \in Contexts => Fine(u)
    <3>1. u \notin T
      BY <2>1, <2>2
    <3> QED
      BY <3>1
  <2>6. ASSUME NEW a \in Above(d), NEW b \in Above(d), Height(a) <= Height(b) PROVE a \in Above(b)
    <3>1. CASE b = d
      BY <2>6, <3>1
    <3>2. CASE b # d /\ a = d
      <4>1. Height(b) < Height(d) /\ Height(b) \in Nat
        BY <2>3, <2>6, <3>2
      <4> QED
        BY <2>4, <2>6, <3>2, <4>1
    <3>3. CASE b # d /\ a # d
      <4>1. u \in Contexts /\ a \in Above(u) /\ b \in Above(u)
        BY <2>3, <2>6, <3>3
      <4>2. Fine(u)
        BY <2>5, <4>1
      <4> QED
        BY <2>6, <4>1, <4>2
    <3> QED
      BY <3>1, <3>2, <3>3
  <2>7. Fine(d)
    BY <2>6
  <2> QED
    BY <2>1, <2>7
<1> QED
  BY <1>2

\* On a path a height is that of one context.
LEMMA OneAtHeight ==
  ASSUME config \in Configs, NEW d \in Contexts, NEW a \in Above(d), NEW b \in Above(d), Height(a) = Height(b)
  PROVE  a = b
<1>1. a \in Contexts /\ b \in Contexts /\ a \in Nat /\ b \in Nat /\ Height(a) \in Nat
  BY PathHeights, GraphFacts
<1>2. a \in Above(b) /\ b \in Above(a)
  BY <1>1, Comparable
<1>3. a <= b /\ b <= a
  BY <1>1, <1>2, PathFacts
<1> QED
  BY <1>1, <1>3

\* All heights up to that of a context are on its path.
LEMMA AtHeight ==
  ASSUME config \in Configs
  PROVE  \A d \in Contexts : \A n \in 0 .. Height(d) : \E a \in Above(d) : Height(a) = n
<1> DEFINE Fine(d) == \A n \in 0 .. Height(d) : \E a \in Above(d) : Height(a) = n
           T == { d \in Contexts : ~ Fine(d) }
<1>1. T \subseteq Nat
  BY GraphFacts
<1>2. ASSUME T # {} PROVE FALSE
  <2>1. PICK d \in T : \A y \in T : d <= y
    BY <1>1, <1>2, LeastNatural
  <2> DEFINE u == config.parent[d]
  <2>2. /\ d \in Contexts /\ d \in Nat /\ u \in Nat /\ u < d /\ Above(d) = Above(u) \cup {d}
        /\ u \in Contexts \cup {0} /\ Above(0) = {}
    BY GraphFacts
  <2>3. Height(d) = Height(u) + 1 /\ Height(d) \in Nat /\ Height(u) \in Int
    BY <2>2, HeightFacts
  <2>4. Height(0) = -1
    BY <2>2, FS_EmptySet DEF Height
  <2> HIDE DEF u
  <2>5. u \in Contexts => Fine(u)
    <3>1. u \notin T
      BY <2>1, <2>2
    <3> QED
      BY <3>1
  <2>6. ASSUME NEW n \in 0 .. Height(d) PROVE \E a \in Above(d) : Height(a) = n
    <3>1. CASE n = Height(d)
      BY <2>2, <3>1
    <3>2. CASE n # Height(d)
      <4>1. n \in 0 .. Height(u)
        BY <2>3, <2>6, <3>2
      <4>2. u # 0
        BY <2>4, <4>1
      <4>3. \E a \in Above(u) : Height(a) = n
        BY <2>2, <2>5, <4>1, <4>2
      <4> QED
        BY <2>2, <4>3
    <3> QED
      BY <3>1, <3>2
  <2>7. Fine(d)
    BY <2>6
  <2> QED
    BY <2>1, <2>7
<1> QED
  BY <1>2

LEMMA AncestorIs ==
  ASSUME config \in Configs, NEW c \in Contexts, NEW k \in Nat
  PROVE  /\ k <= Height(c) => Ancestor(c, k) \in Above(c) /\ Height(Ancestor(c, k)) = Height(c) - k
         /\ ~ k <= Height(c) => Ancestor(c, k) = 0
         /\ \A a \in Above(c) : Height(a) = Height(c) - k => a = Ancestor(c, k)
<1>1. Height(c) \in Nat
  BY HeightFacts
<1>2. ASSUME k <= Height(c) PROVE Ancestor(c, k) \in Above(c) /\ Height(Ancestor(c, k)) = Height(c) - k
  <2>1. Height(c) - k \in 0 .. Height(c)
    BY <1>1, <1>2
  <2>2. \E a \in Above(c) : Height(a) = Height(c) - k
    BY <2>1, AtHeight
  <2> QED
    BY <1>2, <2>2 DEF Ancestor
<1>3. ~ k <= Height(c) => Ancestor(c, k) = 0
  BY DEF Ancestor
<1>4. ASSUME NEW a \in Above(c), Height(a) = Height(c) - k PROVE a = Ancestor(c, k)
  <2>1. Height(a) \in Nat
    BY PathHeights
  <2>2. k <= Height(c)
    BY <1>1, <1>4, <2>1
  <2> QED
    BY <1>2, <1>4, <2>2, OneAtHeight
<1> QED
  BY <1>2, <1>3, <1>4

\* Where the exploration begins, and which contexts are below the same beginning.
Starting == Range(config.initial)
Shares(c, d) == \E i \in Starting : i \in Above(c) /\ i \in Above(d)

LEMMA StartIs ==
  ASSUME config \in Configs
  PROVE  /\ Starting \subseteq Contexts
         /\ \A i, j \in Starting : i \in Above(j) => i = j
         /\ \A c \in Contexts : \A i, j \in Starting : i \in Above(c) /\ j \in Above(c) => i = j
<1>1. Good(config) /\ config.initial \in Seq(Contexts)
  BY GoodConfig
<1>2. Starting \subseteq Contexts
  BY <1>1, RangeOf DEF Starting
<1>3. ASSUME NEW i \in Starting, NEW j \in Starting, i \in Above(j) PROVE i = j
  <2>1. PICK m, n \in DOMAIN config.initial : config.initial[m] = i /\ config.initial[n] = j
    BY DEF Starting, Range
  <2>2. j # 0
    BY <1>2, GraphFacts
  <2>3. i \in config.path[j]
    BY <1>3, <2>2 DEF Above
  <2>4. m = n
    BY <1>1, <2>1, <2>3 DEF Good
  <2> QED
    BY <2>1, <2>4
<1>4. ASSUME NEW c \in Contexts, NEW i \in Starting, NEW j \in Starting, i \in Above(c), j \in Above(c)
      PROVE  i = j
  <2>1. Height(i) \in Nat /\ Height(j) \in Nat
    BY <1>4, PathHeights
  <2>2. i \in Above(j) \/ j \in Above(i)
    BY <1>4, <2>1, Comparable
  <2> QED
    BY <1>3, <2>2
<1> QED
  BY <1>2, <1>3, <1>4

LEMMA SharesOn ==
  ASSUME config \in Configs
  PROVE  /\ \A c, d : Shares(c, d) <=> Shares(d, c)
         /\ \A c, e : \A d \in Contexts : Shares(c, d) /\ Shares(d, e) => Shares(c, e)
         /\ \A d, e : \A c \in Contexts : \A b \in Above(c) :
              (Shares(b, d) => Shares(c, d)) /\ (Shares(c, d) /\ Shares(b, e) => Shares(b, d))
<1>1. \A c \in Contexts : \A i, j \in Starting : i \in Above(c) /\ j \in Above(c) => i = j
  BY StartIs
<1>2. \A c \in Contexts : \A b \in Above(c) : Above(b) \subseteq Above(c)
  BY PathFacts
<1>3. ASSUME NEW c, NEW d, NEW e, d \in Contexts, Shares(c, d), Shares(d, e) PROVE Shares(c, e)
  <2>1. PICK i \in Starting : i \in Above(c) /\ i \in Above(d)
    BY <1>3 DEF Shares
  <2>2. PICK j \in Starting : j \in Above(d) /\ j \in Above(e)
    BY <1>3 DEF Shares
  <2>3. i = j
    BY <1>1, <1>3, <2>1, <2>2
  <2> QED
    BY <2>1, <2>2, <2>3 DEF Shares
<1>4. ASSUME NEW d, NEW e, NEW c \in Contexts, NEW b \in Above(c)
      PROVE  (Shares(b, d) => Shares(c, d)) /\ (Shares(c, d) /\ Shares(b, e) => Shares(b, d))
  <2>1. Shares(b, d) => Shares(c, d)
    BY <1>2, <1>4 DEF Shares
  <2>2. ASSUME Shares(c, d), Shares(b, e) PROVE Shares(b, d)
    <3>1. PICK i \in Starting : i \in Above(c) /\ i \in Above(d)
      BY <2>2 DEF Shares
    <3>2. PICK j \in Starting : j \in Above(b) /\ j \in Above(e)
      BY <2>2 DEF Shares
    <3>3. j \in Above(c)
      BY <1>2, <1>4, <3>2
    <3>4. i = j
      BY <1>1, <1>4, <3>1, <3>3
    <3> QED
      BY <3>1, <3>2, <3>4 DEF Shares
  <2> QED
    BY <2>1, <2>2
<1> QED
  BY <1>3, <1>4 DEF Shares

\* The climb of jumpSlice ends at the latest where the exploration began.
LEMMA ClimbedBelow ==
  ASSUME config \in Configs, NEW c \in Contexts, NEW i \in Starting, i \in Above(c),
         NEW k \in Nat, Ancestor(c, k) \in Contexts, \A j \in 0 .. k : ~ Top(Ancestor(c, j))
  PROVE  /\ i \in Above(Ancestor(c, k)) /\ i # Ancestor(c, k)
         /\ Ancestor(c, k) \in Above(c) /\ Height(Ancestor(c, k)) = Height(c) - k
<1> DEFINE a == Ancestor(c, k)
<1>1. k <= Height(c)
  BY AncestorIs, GraphFacts
<1>2. a \in Above(c) /\ Height(a) = Height(c) - k
  BY <1>1, AncestorIs
<1>3. Height(i) \in Nat /\ Height(i) <= Height(c) /\ Height(a) \in Nat /\ Height(c) \in Nat
  BY <1>2, PathHeights
<1>4. Top(i)
  BY DEF Top, Starting
<1>5. ~ Top(a)
  OBVIOUS
<1> HIDE DEF a
<1>6. Height(i) <= Height(a)
  <2> SUFFICES ASSUME Height(i) > Height(a) PROVE FALSE
    BY <1>3
  <2> DEFINE j == Height(c) - Height(i)
  <2>1. j \in 0 .. k /\ Height(i) = Height(c) - j
    BY <1>2, <1>3
  <2> HIDE DEF j
  <2>2. i = Ancestor(c, j)
    BY <2>1, AncestorIs
  <2> QED
    BY <1>4, <2>1, <2>2
<1>7. i \in Above(a)
  BY <1>2, <1>6, Comparable
<1>8. i # a
  BY <1>4, <1>5
<1> QED
  BY <1>2, <1>7, <1>8 DEF a

\* Context c is sliced off, k above r.
Cut(roots, r, k, c) ==
  /\ Ancestor(r, k) \in Contexts /\ \A j \in 0 .. k : ~ Top(Ancestor(r, j))
  /\ c \in Children(Ancestor(r, k)) /\ c \notin Preserved(roots)

LEMMA SlicedIs ==
  ASSUME config \in Configs, open \subseteq Contexts, NEW roots, NEW x \in Sliced(roots)
  PROVE  /\ x \in Contexts
         /\ \E r \in Range(roots), k \in 1 .. config.delta, c \in Contexts :
              c \in Above(x) /\ Cut(roots, r, k, c)
         /\ config.parent[x] \in open \cup Sliced(roots)
<1> DEFINE Climbed == { a \in Contexts : \E r \in Range(roots), k \in 1 .. config.delta :
                          a = Ancestor(r, k) /\ \A j \in 0 .. k : ~ Top(Ancestor(r, j)) }
           cut == (UNION { Children(a) : a \in Climbed }) \ Preserved(roots)
<1>1. Sliced(roots) = cut \cup UNION { Below(c) : c \in cut }
  BY DEF Sliced
<1>2. ASSUME NEW c \in cut
      PROVE  /\ c \in Contexts /\ config.parent[c] \in open
             /\ \E r \in Range(roots), k \in 1 .. config.delta : Cut(roots, r, k, c)
  <2>1. PICK a \in Climbed : c \in Children(a)
    OBVIOUS
  <2>2. PICK r \in Range(roots), k \in 1 .. config.delta :
          a = Ancestor(r, k) /\ \A j \in 0 .. k : ~ Top(Ancestor(r, j))
    BY <2>1
  <2>3. a \in Contexts
    OBVIOUS
  <2>4. Cut(roots, r, k, c)
    BY <1>2, <2>1, <2>2, <2>3 DEF Cut
  <2>5. c \in Contexts /\ config.parent[c] \in open
    BY <2>1 DEF Children
  <2> QED
    BY <2>4, <2>5
<1> HIDE DEF cut
<1>3. CASE x \in cut
  <2>1. x \in Above(x)
    BY <1>2, <1>3, GraphFacts
  <2> QED
    BY <1>2, <1>3, <2>1
<1>4. CASE x \notin cut
  <2>1. PICK c \in cut : x \in Contexts /\ c \in Above(x) /\ x # c
    BY <1>1, <1>4 DEF Below
  <2>2. config.parent[x] \in Contexts /\ c \in Above(config.parent[x])
    BY <2>1, PathHeights
  <2>3. config.parent[x] = c \/ config.parent[x] \in Below(c)
    BY <2>2 DEF Below
  <2>4. config.parent[x] \in Sliced(roots)
    BY <1>1, <2>1, <2>3
  <2> QED
    BY <1>2, <2>1, <2>4
<1> QED
  BY <1>3, <1>4

\* What is sliced off is below where the search of a root began, and no beginning itself.
LEMMA CutBelow ==
  ASSUME config \in Configs, NEW roots, NEW r \in Contexts, NEW k \in 1 .. config.delta, NEW c \in Contexts,
         Cut(roots, r, k, c), NEW i \in Starting, i \in Above(r), NEW x \in Contexts, c \in Above(x)
  PROVE  /\ i \in Above(c) /\ i # c /\ i \in Above(x) /\ x \notin Starting /\ c \notin Starting
         /\ Height(c) = Height(r) - k + 1 /\ config.parent[c] # 0
<1> DEFINE a == Ancestor(r, k)
<1>1. k \in Nat /\ a \in Contexts /\ \A j \in 0 .. k : ~ Top(Ancestor(r, j))
  BY GoodConfig DEF Cut
<1>2. i \in Above(a) /\ Height(a) = Height(r) - k
  BY <1>1, ClimbedBelow
<1>3. config.parent[c] = a
  BY DEF Cut, Children
<1> HIDE DEF a
<1>4. Above(c) = Above(a) \cup {c} /\ Height(c) = Height(a) + 1
  BY <1>3, GraphFacts, HeightFacts
<1>5. Height(i) <= Height(a) /\ Height(a) \in Nat /\ Height(i) \in Nat /\ Height(r) \in Nat
  BY <1>1, <1>2, PathHeights, HeightFacts
<1>6. i # c
  BY <1>4, <1>5
<1>7. i \in Above(c) /\ Above(c) \subseteq Above(x)
  BY <1>2, <1>4, PathFacts
<1>8. Height(c) <= Height(x) /\ Height(c) \in Nat /\ Height(x) \in Nat
  BY PathHeights
<1>9. i # x
  BY <1>4, <1>5, <1>8
<1>10. x \notin Starting /\ c \notin Starting
  BY <1>6, <1>7, <1>9, StartIs
<1>11. Height(c) = Height(r) - k + 1
  BY <1>1, <1>2, <1>4, <1>5
<1>12. a # 0
  BY <1>1, GraphFacts
<1> QED
  BY <1>3, <1>6, <1>7, <1>10, <1>11, <1>12

LEMMA SliceBelow ==
  ASSUME config \in Configs, open \subseteq Contexts, NEW roots,
         \A r \in Range(roots) : r \in Contexts /\ Shares(r, r), NEW x \in Sliced(roots)
  PROVE  x \in Contexts /\ x \notin Starting /\ \E r \in Range(roots) : Shares(r, x)
<1>1. PICK r \in Range(roots), k \in 1 .. config.delta, c \in Contexts : c \in Above(x) /\ Cut(roots, r, k, c)
  BY SlicedIs
<1>2. x \in Contexts
  BY SlicedIs
<1>3. PICK i \in Starting : i \in Above(r)
  BY DEF Shares
<1>4. i \in Above(x) /\ x \notin Starting
  BY <1>1, <1>2, <1>3, CutBelow
<1> QED
  BY <1>2, <1>3, <1>4 DEF Shares

\* Contexts of one beginning are at one height.
Level(S) == \A c, d \in S : Shares(c, d) => Height(c) = Height(d)

\* Where all roots are as deep as each other, none is sliced off.
LEMMA SliceSpares ==
  ASSUME config \in Configs, open \subseteq Contexts, NEW roots,
         \A r \in Range(roots) : r \in Contexts /\ Shares(r, r), Level(Range(roots))
  PROVE  Sliced(roots) \cap Range(roots) = {}
<1> SUFFICES ASSUME NEW x \in Sliced(roots), x \in Range(roots) PROVE FALSE
  OBVIOUS
<1>1. PICK r \in Range(roots), k \in 1 .. config.delta, c \in Contexts : c \in Above(x) /\ Cut(roots, r, k, c)
  BY SlicedIs
<1>2. r \in Contexts /\ x \in Contexts
  OBVIOUS
<1>3. PICK i \in Starting : i \in Above(r)
  BY DEF Shares
<1>4. /\ i \in Above(c) /\ i # c /\ i \in Above(x) /\ x \notin Starting /\ c \notin Starting
      /\ Height(c) = Height(r) - k + 1 /\ config.parent[c] # 0
  BY <1>1, <1>2, <1>3, CutBelow
<1>5. Height(r) = Height(x)
  BY <1>3, <1>4 DEF Level, Shares
<1>6. Height(r) \in Nat /\ Height(x) \in Nat /\ Height(c) \in Nat /\ config.delta \in Nat /\ k \in Nat
  BY <1>2, HeightFacts, GoodConfig
<1>7. c \notin Preserved(roots)
  BY <1>1 DEF Cut
<1>8. CASE k = 1
  <2>1. Height(c) = Height(x)
    BY <1>4, <1>5, <1>6, <1>8
  <2>2. x \in Above(x)
    BY <1>2, GraphFacts
  <2>3. c = x
    BY <1>1, <1>2, <2>1, <2>2, OneAtHeight
  <2> QED
    BY <1>7, <2>3 DEF Preserved
<1>9. CASE k # 1
  <2> DEFINE j == k - 1
  <2>1. j \in 1 .. config.delta - 1 /\ j \in Nat /\ Height(c) = Height(x) - j
    BY <1>4, <1>5, <1>6, <1>9
  <2> HIDE DEF j
  <2>2. c = Ancestor(x, j)
    BY <1>1, <1>2, <2>1, AncestorIs
  <2>3. ~ Top(c)
    BY <1>4, GraphFacts DEF Top, Starting
  <2>4. ~ Top(x)
    <3>1. x # i
      BY <1>4
    <3>2. config.parent[x] \in Contexts
      BY <1>2, <1>4, <3>1, PathHeights
    <3> QED
      BY <1>2, <1>4, <3>2, GraphFacts DEF Top, Starting
  <2> QED
    BY <1>7, <2>1, <2>2, <2>3, <2>4 DEF Preserved
<1> QED
  BY <1>8, <1>9

-----------------------------------------------------------------------------
\* Deep enough for updatePreserved to climb from it, or a beginning.
Deep(c) == c \in Starting \/ Height(c) >= config.delta

\* What the exploration below the roots leads to is at the height of the jump, unless it is a root
\* that is below that already.
Fits(h, c) ==
  Under(c, h.roots) /\ Height(c) >= h.height /\ (Height(c) = h.height \/ c \in Range(h.roots))

\* What is kept between searches: the leaves of one beginning are at one height, and what achieved
\* the goal, what is left and what is still to begin with are below different beginnings.
Placed(h) ==
  /\ h.height >= config.delta
  /\ Level(Range(h.leaves))
  /\ \A c \in Range(h.leaves) : Deep(c) /\ Shares(c, c)
  /\ Range(h.buffer) \subseteq Starting
  /\ \A b \in Range(h.buffer) : \A c \in Range(h.leaves) \cup Range(h.positive) : b \notin Above(c)
  /\ \A p \in Range(h.positive), c \in Range(h.leaves) : ~ Shares(p, c)

\* What a search goes on from.
Poised(h) ==
  /\ Level(Range(h.roots))
  /\ \A r \in Range(h.roots) : Deep(r) /\ Shares(r, r)
  /\ \A b \in Range(h.buffer), r \in Range(h.roots) : b \notin Above(r)
  /\ \A p \in Range(h.positive), r \in Range(h.roots) : ~ Shares(p, r)
  /\ \A c \in Range(h.leaves), r \in Range(h.roots) : Shares(c, r) => Fits(h, c)

\* What comes to be evaluated is a root, or not below the height of the jump.
Coming(h, c) == c \in Range(h.roots) \/ Height(c) <= h.height

\* The lists hold nothing that was destroyed.
Unspoilt == gone \cap (waiting \cup Range(ready) \cup Range(hoj.roots) \cup Range(hoj.leaves)
                      \cup Range(hoj.buffer) \cup Range(hoj.positive)) = {}

\* What hit has found and has still to look at.
Spared(t) == \A i \in 1 .. Len(t) : t[i].left \cap gone = {}
FoundHeld(h, t) ==
  /\ Spared(t)
  /\ \A e \in Ecs(h.best) : e \notin gone /\ Under(e, h.roots)
  /\ h.covered + h.most # config.points => \A e \in Ecs(h.best) : Fits(h, e)

\* What is sliced off hangs on what was evaluated.
Closed(S) == \A d \in S : config.parent[d] \in open \cup S

HeldInv ==
  /\ limited = {} /\ pc # "crashed"
  /\ Closed(gone) /\ Unspoilt /\ Placed(hoj)
  /\ requested = {"CONTINUE"} =>
       /\ Poised(hoj)
       /\ \A c \in Range(ready) \cup waiting : Coming(hoj, c)
  /\ pc = "hit" => FoundHeld(hoj, todo)

-----------------------------------------------------------------------------
\* What a jump that does not backtrack keeps of the members.
Alike(g, t) ==
  /\ t \in Members /\ t.roots = g.roots /\ t.leaves = g.leaves /\ t.backtrack = g.backtrack
  /\ t.buffer = g.buffer /\ t.positive = g.positive /\ t.height = g.height

Went(t, posted) ==
  /\ t.roots # <<>> /\ hoj' = [t EXCEPT !.height = @ + config.delta, !.stopped = TRUE]
  /\ ready' = t.roots /\ waiting' = waiting /\ requested' = posted \cup {"CONTINUE"}

LEMMA TrySlid ==
  ASSUME NEW g \in Members, g.backtrack = <<>>, NEW posted, Try(g, posted)
  PROVE  \E t : Alike(g, t) /\ (GiveUp(t, posted) \/ Went(t, posted))
<1> DEFINE t == [g EXCEPT !.trials = @ + 1]
<1>1. g.trials + 1 \in Nat
  BY DEF Members
<1>2. t \in Members
  BY <1>1, MembersWith
<1>3. Alike(g, t)
  BY <1>2 DEF Alike, Members
<1>4. \/ GiveUp(t, posted)
      \/ BacktrackOrGiveUp(t, posted)
      \/ /\ t.roots # <<>>
         /\ hoj' = [t EXCEPT !.height = @ + config.delta, !.stopped = TRUE]
         /\ ready' = t.roots /\ requested' = posted \cup {"CONTINUE"} /\ waiting' = waiting
  BY DEF Try
<1> HIDE DEF t
<1>5. t.backtrack = <<>>
  BY <1>3 DEF Alike
<1>6. GiveUp(t, posted) \/ Went(t, posted)
  BY <1>4, <1>5 DEF BacktrackOrGiveUp, Went
<1> QED
  BY <1>3, <1>6

\* The two ways of a jump: around the leaves it selects, or around the roots where there is no leaf.
Selects(v, t, posted) ==
  /\ SliceAround(t.roots) /\ t.roots \in Seq(Range(v.leaves))
  /\ GiveUp(t, posted) \/ Went(t, posted)
Stuck(v, t, posted) ==
  v.leaves = <<>> /\ SliceAround(v.roots) /\ t.roots = <<>> /\ GiveUp(t, posted)

LEMMA JumpSlid ==
  ASSUME TypeInv, Slices, NEW v \in Members, v.backtrack = <<>>, NEW hit \in BOOLEAN, NEW posted,
         hit /\ ~ config.ordered => Len(v.leaves) <= Len(v.best), Jump(v, hit, posted)
  PROVE  \E t \in Members :
           /\ t.buffer = v.buffer /\ t.height = v.height /\ t.positive = v.positive /\ t.leaves = <<>>
           /\ Selects(v, t, posted) \/ Stuck(v, t, posted)
<1>1. \/ \E s \in Selections(v, hit) : SliceAround(s.roots) /\ Try(Cleared(s), posted)
      \/ /\ v.leaves = <<>>
         /\ SliceAround(v.roots) /\ Try([Cleared(v) EXCEPT !.stopped = TRUE, !.roots = <<>>], posted)
  BY DEF Jump, Slices
<1>2. CASE \E s \in Selections(v, hit) : SliceAround(s.roots) /\ Try(Cleared(s), posted)
  <2>1. PICK s \in Selections(v, hit) : SliceAround(s.roots) /\ Try(Cleared(s), posted)
    BY <1>2
  <2>2. Chosen(v, s, hit)
    BY SelectionsAre DEF TypeInv
  <2>3. /\ s \in Members /\ s.backtrack \in Seq(Range(v.backtrack)) /\ s.buffer = v.buffer /\ s.height = v.height
        /\ s.positive = v.positive /\ s.leaves = <<>> /\ s.roots \in Seq(Range(v.leaves))
    BY <2>2 DEF Chosen, Follows
  <2>4. s.backtrack = <<>>
    BY <2>3, SeqOfNothing
  <2> DEFINE g == Cleared(s)
  <2>5. g \in Members /\ g = [s EXCEPT !.black = g.black, !.absolute = g.absolute] /\ Try(g, posted)
    BY <2>1, <2>3, ClearedIs
  <2> HIDE DEF g
  <2>6. Alike(s, g)
    BY <2>3, <2>5 DEF Members, Alike
  <2>7. g.backtrack = <<>>
    BY <2>4, <2>6 DEF Alike
  <2>8. PICK t : Alike(g, t) /\ (GiveUp(t, posted) \/ Went(t, posted))
    BY <2>5, <2>7, TrySlid
  <2>9. t \in Members /\ t.roots = s.roots
    BY <2>6, <2>8 DEF Alike
  <2>10. Selects(v, t, posted)
    BY <2>1, <2>3, <2>8, <2>9 DEF Selects
  <2> QED
    BY <2>3, <2>6, <2>8, <2>9, <2>10 DEF Alike
<1>3. CASE /\ v.leaves = <<>>
           /\ SliceAround(v.roots) /\ Try([Cleared(v) EXCEPT !.stopped = TRUE, !.roots = <<>>], posted)
  <2> DEFINE g == Cleared(v)
             f == [g EXCEPT !.stopped = TRUE]
             k == [f EXCEPT !.roots = <<>>]
             t == [k EXCEPT !.trials = @ + 1]
  <2>1. g \in Members /\ g = [v EXCEPT !.black = g.black, !.absolute = g.absolute]
    BY ClearedIs
  <2>2. k = [Cleared(v) EXCEPT !.stopped = TRUE, !.roots = <<>>]
    OBVIOUS
  <2> HIDE DEF g
  <2>3. Alike(v, g)
    BY <2>1 DEF Members, Alike
  <2>4. f \in Members /\ f.stopped
    BY <2>1, MembersWith DEF Members
  <2>5. Alike(g, f)
    BY <2>1, <2>4 DEF Members, Alike
  <2>6. <<>> \in Seq(Contexts)
    OBVIOUS
  <2> HIDE DEF f
  <2>7. k \in Members
    BY <2>4, <2>6, MembersWith
  <2>8. /\ k.roots = <<>> /\ k.leaves = f.leaves /\ k.buffer = f.buffer /\ k.positive = f.positive
        /\ k.height = f.height /\ k.stopped
    BY <2>4 DEF Members
  <2>9. Try(k, posted)
    BY <1>3, <2>2
  <2> HIDE DEF k
  <2>10. k.trials + 1 \in Nat
    <3>1. k.trials \in Nat
      BY <2>7 DEF Members
    <3> QED
      BY <3>1
  <2>11. t \in Members
    BY <2>7, <2>10, MembersWith
  <2>12. /\ t.roots = k.roots /\ t.leaves = k.leaves /\ t.buffer = k.buffer /\ t.positive = k.positive
         /\ t.height = k.height /\ t.stopped
    BY <2>7, <2>8 DEF Members
  <2>13. GiveUp(t, posted)
    BY <2>9, <2>12 DEF Try
  <2> HIDE DEF t
  <2>14. Stuck(v, t, posted)
    BY <1>3, <2>8, <2>12, <2>13 DEF Stuck
  <2> QED
    BY <1>3, <2>3, <2>5, <2>8, <2>11, <2>12, <2>14 DEF Alike
<1> QED
  BY <1>1, <1>2, <1>3

\* What follows the answer of hit, in a search that slices and ends where it reaches the goal.
Slid(v, hit, t) ==
  /\ t \in Members /\ t.buffer = v.buffer /\ t.height = v.height
  /\ \/ gone' = gone /\ pc' = "run" /\ GiveUp(t, {}) /\ ~ hit /\ t = v
     \/ /\ gone' = gone /\ pc' = "run" /\ GiveUp(t, {})
        /\ t.leaves = <<>> /\ t.roots = <<>>
        /\ Range(t.positive) \subseteq Range(v.positive) \cup Range(v.leaves)
     \/ /\ t.positive = v.positive /\ t.leaves = <<>>
        /\ Stuck(v, t, {}) \/ (Selects(v, t, {}) /\ ~ (hit /\ Achieved(v)))

LEMMA NoRootNoSlice ==
  ASSUME TypeInv, SliceAround(<<>>)
  PROVE  gone' = gone /\ pc' = "run"
<1>1. Range(<<>>) = {}
  BY SeqOfNothing
<1>2. Sliced(<<>>) = {}
  BY <1>1, SlicedIs DEF TypeInv
<1> QED
  BY <1>1, <1>2 DEF SliceAround, Climbs

\* The answer that reaches the goal selects nothing to go on from.
LEMMA FoundSlid ==
  ASSUME TypeInv, Slices, config.final, NEW v \in Members, v.backtrack = <<>>, Found(v, {})
  PROVE  \E t : Slid(v, TRUE, t)
<1>1. PICK s \in FinalSelections(v) :
        LET f == Cleared(s)
        IN \/ config.max /\ f.backtrack # <<>> /\ Backtrack(f, {}) /\ Stays
           \/ GiveUp(f, {}) /\ Stays
           \/ Jump(f, TRUE, {"GOAL"})
  BY DEF Found
<1>2. Follows(v, s, TRUE) /\ s.leaves = <<>> /\ s.roots = <<>>
  BY FinalSelectionsAre DEF TypeInv
<1>3. /\ s \in Members /\ s.buffer = v.buffer /\ s.height = v.height
      /\ s.positive \in Seq(Range(v.positive) \cup Range(v.leaves)) /\ s.backtrack \in Seq(Range(v.backtrack))
  BY <1>2 DEF Follows
<1>4. Range(s.positive) \subseteq Range(v.positive) \cup Range(v.leaves)
  BY <1>3, RangeOf
<1>5. s.backtrack = <<>>
  BY <1>3, SeqOfNothing
<1> DEFINE f == Cleared(s)
<1>6. f \in Members /\ f = [s EXCEPT !.black = f.black, !.absolute = f.absolute]
  BY <1>3, ClearedIs
<1>7. (GiveUp(f, {}) /\ Stays) \/ Jump(f, TRUE, {"GOAL"})
  BY <1>1 DEF Slices, Backtracks
<1> HIDE DEF f
<1>8. Alike(s, f)
  BY <1>3, <1>6 DEF Members, Alike
<1>9. /\ f.buffer = v.buffer /\ f.height = v.height /\ f.leaves = <<>> /\ f.roots = <<>> /\ f.backtrack = <<>>
      /\ f.positive = s.positive
  BY <1>2, <1>3, <1>5, <1>8 DEF Alike
<1>10. CASE GiveUp(f, {}) /\ Stays
  <2>1. Slid(v, TRUE, f)
    BY <1>4, <1>6, <1>9, <1>10 DEF Slid, Stays
  <2> QED
    BY <2>1
<1>11. CASE Jump(f, TRUE, {"GOAL"})
  <2>1. Len(f.leaves) <= Len(f.best)
    <3>1. f.best \in Seq(Entries)
      BY <1>6 DEF Members
    <3>2. Len(f.best) \in Nat /\ Len(f.leaves) = 0
      BY <1>9, <3>1
    <3> QED
      BY <3>2
  <2>2. PICK t \in Members :
          /\ t.buffer = f.buffer /\ t.height = f.height /\ t.positive = f.positive /\ t.leaves = <<>>
          /\ Selects(f, t, {"GOAL"}) \/ Stuck(f, t, {"GOAL"})
    BY <1>6, <1>9, <1>11, <2>1, JumpSlid
  <2>3. t.roots = <<>> /\ SliceAround(<<>>) /\ GiveUp(t, {"GOAL"})
    <3>1. CASE Selects(f, t, {"GOAL"})
      <4>1. t.roots = <<>>
        BY <1>9, <3>1, SeqOfNothing DEF Selects
      <4> QED
        BY <3>1, <4>1 DEF Selects, Went
    <3>2. CASE Stuck(f, t, {"GOAL"})
      BY <1>9, <3>2 DEF Stuck
    <3> QED
      BY <2>2, <3>1, <3>2
  <2>4. gone' = gone /\ pc' = "run"
    BY <2>3, NoRootNoSlice
  <2>5. GiveUp(t, {})
    BY <2>3 DEF GiveUp
  <2>6. t.buffer = v.buffer /\ t.height = v.height /\ t.positive = s.positive
    BY <1>9, <2>2
  <2>7. Slid(v, TRUE, t)
    BY <1>4, <2>2, <2>3, <2>4, <2>5, <2>6 DEF Slid
  <2> QED
    BY <2>7
<1> QED
  BY <1>7, <1>10, <1>11

LEMMA AnsweredSlid ==
  ASSUME TypeInv, Slices, config.final, NEW v \in Members, v.backtrack = <<>>, NEW hit \in BOOLEAN,
         hit /\ ~ config.ordered => Len(v.leaves) <= Len(v.best), Answered(v, hit)
  PROVE  \E t : Slid(v, hit, t)
<1>1. CASE hit /\ Achieved(v)
  <2> DEFINE g == [v EXCEPT !.goal = TRUE]
  <2>1. g \in Members
    BY MembersWith
  <2>2. /\ g.buffer = v.buffer /\ g.height = v.height /\ g.positive = v.positive /\ g.leaves = v.leaves
        /\ g.backtrack = <<>> /\ g.roots = v.roots /\ Achieved(g)
    BY <1>1 DEF Members, Achieved
  <2>3. Found(g, {})
    BY <1>1 DEF Answered
  <2> HIDE DEF g
  <2>4. PICK t : Slid(g, TRUE, t)
    BY <2>1, <2>2, <2>3, FoundSlid
  <2>5. Slid(v, hit, t)
    BY <1>1, <2>2, <2>4 DEF Slid, Stuck, Selects
  <2> QED
    BY <2>5
<1>2. CASE ~ (hit /\ Achieved(v))
  <2>1. Jump(v, hit, {}) \/ (~ hit /\ GiveUp(v, {}) /\ Stays)
    BY <1>2 DEF Answered
  <2>2. CASE ~ hit /\ GiveUp(v, {}) /\ Stays
    <3>1. Slid(v, hit, v)
      BY <2>2 DEF Slid, Stays
    <3> QED
      BY <3>1
  <2>3. CASE Jump(v, hit, {})
    <3>1. PICK t \in Members :
            /\ t.buffer = v.buffer /\ t.height = v.height /\ t.positive = v.positive /\ t.leaves = <<>>
            /\ Selects(v, t, {}) \/ Stuck(v, t, {})
      BY <2>3, JumpSlid
    <3>2. Slid(v, hit, t)
      BY <1>2, <3>1 DEF Slid
    <3> QED
      BY <3>2
  <2> QED
    BY <2>1, <2>2, <2>3
<1> QED
  BY <1>1, <1>2

-----------------------------------------------------------------------------
\* A slice below roots that are deep enough stays in the graph, and takes whole branches.
LEMMA SliceHeld ==
  ASSUME TypeInv, Slices, Closed(gone), NEW roots, SliceAround(roots),
         \A r \in Range(roots) : r \in Contexts /\ Deep(r)
  PROVE  pc' = "run" /\ gone' = gone \cup Sliced(roots) /\ Closed(gone')
<1>1. ~ Climbs(roots)
  <2> SUFFICES ASSUME NEW r \in Range(roots), ~ Top(r), Height(r) < config.delta - 1 PROVE FALSE
    BY DEF Climbs
  <2>1. r \notin Starting
    BY DEF Top, Starting
  <2>2. Height(r) >= config.delta
    BY <2>1 DEF Deep
  <2>3. Height(r) \in Nat /\ config.delta \in Nat
    BY HeightFacts, GoodConfig DEF TypeInv
  <2> QED
    BY <2>2, <2>3
<1>2. pc' = "run" /\ gone' = gone \cup Sliced(roots)
  BY <1>1 DEF SliceAround
<1>3. \A x \in Sliced(roots) : config.parent[x] \in open \cup Sliced(roots)
  BY SlicedIs DEF TypeInv
<1> QED
  BY <1>2, <1>3 DEF Closed

LEMMA SamePlaced ==
  ASSUME UNCHANGED config
  PROVE  /\ \A h : (Placed(h)' <=> Placed(h)) /\ (Poised(h)' <=> Poised(h))
         /\ \A h, c : (Fits(h, c)' <=> Fits(h, c)) /\ (Coming(h, c)' <=> Coming(h, c))
         /\ (Slices' <=> Slices) /\ \A c : Height(c)' = Height(c)
<1>1. Contexts' = Contexts /\ Starting' = Starting /\ (Slices' <=> Slices)
  BY DEF Contexts, Starting, Slices, Backtracks
<1>2. \A c : Above(c)' = Above(c) /\ Height(c)' = Height(c)
  BY DEF Above, Height
<1>3. \A c, d : Shares(c, d)' <=> Shares(c, d)
  BY <1>1, <1>2 DEF Shares
<1>4. \A S : Level(S)' <=> Level(S)
  BY <1>2, <1>3 DEF Level
<1>5. \A c : Deep(c)' <=> Deep(c)
  BY <1>1, <1>2 DEF Deep
<1>6. \A c, r : Under(c, r)' <=> Under(c, r)
  BY <1>2 DEF Under
<1>7. \A h, c : Fits(h, c)' <=> Fits(h, c)
  BY <1>2, <1>6 DEF Fits
<1>8. \A h : Placed(h)' <=> Placed(h)
  BY <1>1, <1>2, <1>3, <1>4, <1>5 DEF Placed
<1>9. \A h : Poised(h)' <=> Poised(h)
  BY <1>2, <1>3, <1>4, <1>5, <1>7 DEF Poised
<1>10. \A h, c : Coming(h, c)' <=> Coming(h, c)
  BY <1>2 DEF Coming
<1> QED
  BY <1>1, <1>2, <1>7, <1>8, <1>9, <1>10

\* What is below a root shares its beginning, and nothing that is kept does.
LEMMA UnderHeld ==
  ASSUME TypeInv, Placed(hoj), Poised(hoj), NEW c \in Contexts, NEW r \in Range(hoj.roots), r \in Above(c)
  PROVE  /\ r \in Contexts /\ Shares(c, c) /\ Shares(c, r) /\ Shares(r, c)
         /\ \A d : Shares(c, d) => Shares(r, d)
         /\ \A b \in Range(hoj.buffer) : b \notin Above(c)
         /\ \A p \in Range(hoj.positive) : ~ Shares(p, c)
<1>1. config \in Configs /\ hoj.roots \in Seq(Contexts)
  BY DEF TypeInv, Members
<1>2. r \in Contexts
  BY <1>1, RangeOf
<1>3. PICK i \in Starting : i \in Above(r)
  BY DEF Poised, Shares
<1>4. i \in Above(c)
  BY <1>1, <1>3, PathFacts
<1>5. Shares(c, c) /\ Shares(c, r) /\ Shares(r, c)
  BY <1>3, <1>4 DEF Shares
<1>6. Shares(r, r)
  BY <1>3 DEF Shares
<1>7. \A d : Shares(c, d) => Shares(r, d)
  BY <1>1, <1>6, SharesOn
<1>8. ASSUME NEW b \in Range(hoj.buffer), b \in Above(c) PROVE FALSE
  <2>1. b \in Starting
    BY <1>8 DEF Placed
  <2>2. b = i
    BY <1>1, <1>4, <1>8, <2>1, StartIs
  <2> QED
    BY <1>3, <1>8, <2>2 DEF Poised
<1>9. ASSUME NEW p \in Range(hoj.positive), Shares(p, c) PROVE FALSE
  <2>1. Shares(r, p)
    BY <1>1, <1>7, <1>9, SharesOn
  <2>2. Shares(p, r)
    BY <1>1, <2>1, SharesOn
  <2> QED
    BY <1>9, <2>2 DEF Poised
<1> QED
  BY <1>2, <1>5, <1>7, <1>8, <1>9

\* What fits below the roots of one beginning is at one height.
LEMMA LevelFits ==
  ASSUME TypeInv, Placed(hoj), Poised(hoj), NEW c \in Contexts, NEW d \in Contexts,
         Fits(hoj, c), Fits(hoj, d), Shares(c, d)
  PROVE  Height(c) = Height(d)
<1>1. PICK r \in Range(hoj.roots) : r \in Above(c)
  BY DEF Fits, Under
<1>2. PICK s \in Range(hoj.roots) : s \in Above(d)
  BY DEF Fits, Under
<1>3. r \in Contexts /\ s \in Contexts /\ Shares(r, d) /\ Shares(c, r) /\ Shares(s, d) /\ Shares(d, s)
  BY <1>1, <1>2, UnderHeld
<1>4. Shares(s, r) /\ Shares(r, s) /\ Shares(c, s) /\ Shares(r, c)
  BY <1>3, SharesOn DEF TypeInv
<1>5. /\ Height(c) \in Nat /\ Height(d) \in Nat /\ Height(r) \in Nat /\ Height(s) \in Nat
      /\ Height(r) <= Height(c) /\ Height(s) <= Height(d)
  BY <1>1, <1>2, PathHeights DEF TypeInv
<1>6. hoj.height \in Int
  BY DEF TypeInv, Members
<1>7. Height(r) = Height(s)
  BY <1>4 DEF Poised, Level
<1>8. c \in Range(hoj.roots) => Height(c) = Height(r)
  BY <1>3 DEF Poised, Level
<1>9. d \in Range(hoj.roots) => Height(d) = Height(s)
  BY <1>3 DEF Poised, Level
<1>10. Height(c) >= hoj.height /\ (Height(c) = hoj.height \/ c \in Range(hoj.roots))
  BY DEF Fits
<1>11. Height(d) >= hoj.height /\ (Height(d) = hoj.height \/ d \in Range(hoj.roots))
  BY DEF Fits
<1> QED
  BY <1>5, <1>6, <1>7, <1>8, <1>9, <1>10, <1>11

\* What a step has to keep.
LEMMA HeldBy ==
  ASSUME UNCHANGED config, limited' = {}, pc' # "crashed", open \subseteq open', Closed(gone'),
         Placed(hoj'), Unspoilt',
         requested' = {"CONTINUE"} =>
           Poised(hoj') /\ \A c \in Range(ready') \cup waiting' : Coming(hoj', c),
         pc' = "hit" => gone' = gone /\ FoundHeld(hoj', todo')
  PROVE  HeldInv'
<1>1. /\ \A h : (Placed(h)' <=> Placed(h)) /\ (Poised(h)' <=> Poised(h))
      /\ \A h, c : (Fits(h, c)' <=> Fits(h, c)) /\ (Coming(h, c)' <=> Coming(h, c))
  BY SamePlaced
<1>2. Closed(gone)'
  BY DEF Closed
<1>3. Placed(hoj)' /\ (requested' = {"CONTINUE"} => Poised(hoj)')
  BY <1>1
<1>4. requested' = {"CONTINUE"} => \A c \in Range(ready') \cup waiting' : Coming(hoj, c)'
  BY <1>1
<1>5. ASSUME pc' = "hit" PROVE FoundHeld(hoj, todo)'
  <2>1. \A c, r : Under(c, r)' <=> Under(c, r)
    BY DEF Under, Above
  <2>2. \A h, t : gone' = gone => (FoundHeld(h, t)' <=> FoundHeld(h, t))
    BY <1>1, <2>1 DEF FoundHeld, Spared, Ecs
  <2> QED
    BY <1>5, <2>2
<1> QED
  BY <1>2, <1>3, <1>4, <1>5 DEF HeldInv

-----------------------------------------------------------------------------
\* What hit answers with: leaves that are left, and below beginnings that nothing else is below.
Graspable(v, hit) ==
  /\ v.roots = hoj.roots /\ v.buffer = hoj.buffer /\ v.positive = hoj.positive /\ v.height = hoj.height
  /\ \A c \in Range(v.leaves) :
       /\ c \notin gone /\ Shares(c, c)
       /\ \A b \in Range(hoj.buffer) : b \notin Above(c)
       /\ \A p \in Range(hoj.positive) : ~ Shares(p, c)
  /\ ~ (hit /\ Achieved(v)) => Level(Range(v.leaves)) /\ \A c \in Range(v.leaves) : Deep(c)

\* Where nothing that is kept is sliced off.
LEMMA KeptHeld ==
  ASSUME TypeInv, Slices, Closed(gone), Unspoilt, Placed(hoj), NEW roots \in Seq(Contexts), SliceAround(roots),
         \A r \in Range(roots) : Deep(r) /\ Shares(r, r) /\ \A p \in Range(hoj.positive) : ~ Shares(p, r)
  PROVE  /\ pc' = "run" /\ Closed(gone')
         /\ gone' \cap (Range(hoj.buffer) \cup Range(hoj.positive)) = {}
         /\ Level(Range(roots)) /\ gone \cap Range(roots) = {} => gone' \cap Range(roots) = {}
<1>1. config \in Configs /\ open \subseteq Contexts
  BY DEF TypeInv
<1>2. \A r \in Range(roots) : r \in Contexts /\ Shares(r, r)
  BY RangeOf
<1>3. pc' = "run" /\ gone' = gone \cup Sliced(roots) /\ Closed(gone')
  BY <1>2, SliceHeld
<1>4. ASSUME NEW x \in Sliced(roots) PROVE x \notin Range(hoj.buffer) /\ x \notin Range(hoj.positive)
  <2>1. x \in Contexts /\ x \notin Starting
    BY <1>1, <1>2, <1>4, SliceBelow
  <2>2. PICK r \in Range(roots) : Shares(r, x)
    BY <1>1, <1>2, <1>4, SliceBelow
  <2>3. Shares(x, r)
    BY <1>1, <2>2, SharesOn
  <2>4. x \notin Range(hoj.buffer)
    BY <2>1 DEF Placed
  <2> QED
    BY <2>3, <2>4
<1>5. gone \cap (Range(hoj.buffer) \cup Range(hoj.positive)) = {}
  BY DEF Unspoilt
<1>6. Level(Range(roots)) => Sliced(roots) \cap Range(roots) = {}
  BY <1>1, <1>2, SliceSpares
<1> QED
  BY <1>3, <1>4, <1>5, <1>6

\* Members without leaves are placed where the others were, beside what is achieved with its leaves.
LEMMA PlacedWithout ==
  ASSUME NEW v, Placed(hoj), NEW hit, Graspable(v, hit), NEW t, t.leaves = <<>>, NEW n \in Nat,
         hoj.height \in Int, config.delta \in Nat, t.height = hoj.height + n,
         Range(t.buffer) \subseteq Range(hoj.buffer),
         Range(t.positive) \subseteq Range(hoj.positive) \cup Range(v.leaves)
  PROVE  Placed(t)
<1>1. Range(t.leaves) = {}
  BY SeqOfNothing
<1>2. t.height >= config.delta
  BY DEF Placed
<1>3. \A b \in Range(hoj.buffer) : \A c \in Range(hoj.positive) \cup Range(v.leaves) : b \notin Above(c)
  BY DEF Placed, Graspable
<1>4. Range(t.buffer) \subseteq Starting
  BY DEF Placed
<1> QED
  BY <1>1, <1>2, <1>3, <1>4 DEF Placed, Level

LEMMA SlidHeld ==
  ASSUME TypeInv, HeldInv, Slices, requested = {"CONTINUE"}, ready = <<>>, waiting = {},
         UNCHANGED <<config, open, limited>>,
         NEW v \in Members, NEW hit \in BOOLEAN, Graspable(v, hit), NEW t, Slid(v, hit, t)
  PROVE  HeldInv'
<1>1. /\ limited = {} /\ pc # "crashed" /\ Closed(gone) /\ Unspoilt /\ Placed(hoj) /\ Poised(hoj)
  BY DEF HeldInv
<1>2. /\ hoj.height \in Int /\ config.delta \in Nat /\ config \in Configs
  BY GoodConfig DEF TypeInv, Members
<1>3. /\ v.roots \in Seq(Contexts) /\ v.leaves \in Seq(Contexts) /\ Range(v.leaves) \subseteq Contexts
  <2>1. /\ v.roots \in Seq(Contexts) /\ v.leaves \in Seq(Contexts)
    BY DEF Members
  <2> QED
    BY <2>1, RangeOf
<1>4. /\ gone \cap (Range(hoj.buffer) \cup Range(hoj.positive) \cup Range(hoj.roots)) = {}
      /\ gone \cap Range(v.leaves) = {}
  BY <1>1 DEF Unspoilt, Graspable
<1>5. /\ t \in Members /\ t.buffer = hoj.buffer /\ t.height = hoj.height
      /\ v.roots = hoj.roots /\ v.buffer = hoj.buffer /\ v.positive = hoj.positive /\ v.height = hoj.height
  BY DEF Slid, Graspable
<1>6. Range(<<>>) = {} /\ Seq({}) = {<<>>}
  BY SeqOfNothing
<1>7. CASE gone' = gone /\ pc' = "run" /\ GiveUp(t, {}) /\ ~ hit /\ t = v
  <2>1. hoj' = v /\ requested' = {"GOAL"} /\ ready' = <<>> /\ waiting' = {}
    BY <1>7 DEF GiveUp
  <2>2. Placed(v)
    BY <1>1, <1>5, <1>7 DEF Graspable, Placed
  <2>3. Unspoilt'
    BY <1>4, <1>5, <1>6, <1>7, <2>1 DEF Unspoilt
  <2>4. Closed(gone')
    BY <1>1, <1>7
  <2> QED
    BY <1>1, <1>7, <2>1, <2>2, <2>3, <2>4, HeldBy
<1>8. CASE /\ gone' = gone /\ pc' = "run" /\ GiveUp(t, {})
           /\ t.leaves = <<>> /\ t.roots = <<>>
           /\ Range(t.positive) \subseteq Range(v.positive) \cup Range(v.leaves)
  <2>1. hoj' = t /\ requested' = {"GOAL"} /\ ready' = <<>> /\ waiting' = {}
    BY <1>8 DEF GiveUp
  <2>2. Placed(t)
    <3>1. t.height = hoj.height + 0
      BY <1>2, <1>5
    <3> QED
      BY <1>1, <1>2, <1>5, <1>8, <3>1, PlacedWithout
  <2>3. Unspoilt'
    BY <1>4, <1>5, <1>6, <1>8, <2>1 DEF Unspoilt
  <2>4. Closed(gone')
    BY <1>1, <1>8
  <2> QED
    BY <1>1, <1>8, <2>1, <2>2, <2>3, <2>4, HeldBy
<1>9. CASE t.positive = v.positive /\ t.leaves = <<>> /\ Stuck(v, t, {})
  <2>1. SliceAround(hoj.roots) /\ t.roots = <<>> /\ GiveUp(t, {})
    BY <1>5, <1>9 DEF Stuck
  <2>2. hoj' = t /\ requested' = {"GOAL"} /\ ready' = <<>> /\ waiting' = {}
    BY <2>1 DEF GiveUp
  <2>3. /\ pc' = "run" /\ Closed(gone')
        /\ gone' \cap (Range(hoj.buffer) \cup Range(hoj.positive)) = {}
    <3>1. hoj.roots \in Seq(Contexts)
      BY <1>3, <1>5
    <3>2. \A r \in Range(hoj.roots) : Deep(r) /\ Shares(r, r) /\ \A p \in Range(hoj.positive) : ~ Shares(p, r)
      BY <1>1 DEF Poised
    <3> QED
      BY <1>1, <2>1, <3>1, <3>2, KeptHeld
  <2>4. Placed(t)
    <3>1. t.height = hoj.height + 0
      BY <1>2, <1>5
    <3> QED
      BY <1>1, <1>2, <1>5, <1>9, <3>1, PlacedWithout
  <2>5. Unspoilt'
    BY <1>5, <1>6, <1>9, <2>1, <2>2, <2>3 DEF Unspoilt
  <2> QED
    BY <1>1, <2>2, <2>3, <2>4, <2>5, HeldBy
<1>10. CASE t.positive = v.positive /\ t.leaves = <<>> /\ Selects(v, t, {}) /\ ~ (hit /\ Achieved(v))
  <2>1. /\ SliceAround(t.roots) /\ t.roots \in Seq(Range(v.leaves))
        /\ GiveUp(t, {}) \/ Went(t, {})
    BY <1>10 DEF Selects
  <2>2. Range(t.roots) \subseteq Range(v.leaves) /\ t.roots \in Seq(Contexts)
    <3>1. Range(t.roots) \subseteq Range(v.leaves)
      BY <2>1, RangeOf
    <3> QED
      BY <1>5, <3>1 DEF Members
  <2>3. /\ Level(Range(t.roots))
        /\ \A r \in Range(t.roots) :
             /\ Deep(r) /\ Shares(r, r)
             /\ \A b \in Range(hoj.buffer) : b \notin Above(r)
             /\ \A p \in Range(hoj.positive) : ~ Shares(p, r)
    BY <1>10, <2>2 DEF Graspable, Level
  <2>4. gone \cap Range(t.roots) = {}
    BY <1>4, <2>2
  <2>5. /\ pc' = "run" /\ Closed(gone')
        /\ gone' \cap (Range(hoj.buffer) \cup Range(hoj.positive)) = {}
        /\ gone' \cap Range(t.roots) = {}
    BY <1>1, <2>1, <2>2, <2>3, <2>4, KeptHeld
  <2>6. CASE GiveUp(t, {})
    <3>1. hoj' = t /\ requested' = {"GOAL"} /\ ready' = <<>> /\ waiting' = {}
      BY <2>6 DEF GiveUp
    <3>2. Placed(t)
      <4>1. t.height = hoj.height + 0
        BY <1>2, <1>5
      <4> QED
        BY <1>1, <1>2, <1>5, <1>10, <4>1, PlacedWithout
    <3>3. Unspoilt'
      BY <1>5, <1>6, <1>10, <2>5, <3>1 DEF Unspoilt
    <3> QED
      BY <1>1, <2>5, <3>1, <3>2, <3>3, HeldBy
  <2>7. CASE Went(t, {})
    <3> DEFINE k == [t EXCEPT !.height = @ + config.delta, !.stopped = TRUE]
    <3>1. hoj' = k /\ requested' = {"CONTINUE"} /\ ready' = t.roots /\ waiting' = {}
      BY <2>7 DEF Went
    <3>2. /\ k.roots = t.roots /\ k.leaves = <<>> /\ k.buffer = hoj.buffer /\ k.positive = hoj.positive
          /\ k.height = hoj.height + config.delta
      BY <1>5, <1>10 DEF Members
    <3> HIDE DEF k
    <3>3. Placed(k)
      BY <1>1, <1>2, <3>2, PlacedWithout
    <3>4. Poised(k)
      <4>1. Range(k.leaves) = {}
        BY <1>6, <3>2
      <4> QED
        BY <2>3, <3>2, <4>1 DEF Poised
    <3>5. \A c \in Range(ready') \cup waiting' : Coming(hoj', c)
      BY <3>1, <3>2 DEF Coming
    <3>6. Unspoilt'
      BY <1>6, <2>5, <3>1, <3>2 DEF Unspoilt
    <3>7. Placed(hoj') /\ Poised(hoj')
      BY <3>1, <3>3, <3>4
    <3> QED
      BY <1>1, <2>5, <3>1, <3>5, <3>6, <3>7, HeldBy
  <2> QED
    BY <2>1, <2>6, <2>7
<1>11. \/ gone' = gone /\ pc' = "run" /\ GiveUp(t, {}) /\ ~ hit /\ t = v
       \/ /\ gone' = gone /\ pc' = "run" /\ GiveUp(t, {})
          /\ t.leaves = <<>> /\ t.roots = <<>>
          /\ Range(t.positive) \subseteq Range(v.positive) \cup Range(v.leaves)
       \/ /\ t.positive = v.positive /\ t.leaves = <<>>
          /\ Stuck(v, t, {}) \/ (Selects(v, t, {}) /\ ~ (hit /\ Achieved(v)))
  BY DEF Slid
<1> QED
  BY <1>7, <1>8, <1>9, <1>10, <1>11

-----------------------------------------------------------------------------
\* A search that slices, where no limit rejects a context and the goal clears the leaves.
Sliding == config.beyond = {} /\ config.final /\ Slices

LEMMA SlidingOnce ==
  ASSUME Sliding
  PROVE  Once /\ ~ Backtracks
BY DEF Sliding, Slices, Once

LEMMA TailRange ==
  ASSUME NEW T, NEW s \in Seq(T), s # <<>>
  PROVE  /\ Head(s) = s[1] /\ DOMAIN s = 1 .. Len(s) /\ 1 \in DOMAIN s
         /\ \A x \in Range(Tail(s)) : \E i \in DOMAIN s : i # 1 /\ s[i] = x
<1>1. /\ Head(s) = s[1] /\ Len(s) \in Nat /\ Len(s) > 0
      /\ Tail(s) \in Seq(T) /\ Len(Tail(s)) = Len(s) - 1
      /\ \A i \in 1 .. Len(s) - 1 : Tail(s)[i] = s[i + 1]
      /\ DOMAIN s = 1 .. Len(s)
  OBVIOUS
<1>2. ASSUME NEW x \in Range(Tail(s)) PROVE \E i \in DOMAIN s : i # 1 /\ s[i] = x
  <2> DEFINE t == Tail(s)
  <2>1. t \in Seq(T) /\ x \in Range(t)
    BY <1>1, <1>2
  <2> HIDE DEF t
  <2>2. PICK i \in 1 .. Len(t) : t[i] = x
    BY <2>1, RangeOf
  <2>3. i \in 1 .. Len(s) - 1 /\ s[i + 1] = x
    BY <1>1, <2>2 DEF t
  <2>4. i + 1 \in DOMAIN s /\ i + 1 # 1
    BY <1>1, <2>3
  <2> QED
    BY <2>3, <2>4
<1> QED
  BY <1>1, <1>2

LEMMA InitHeld ==
  ASSUME Init, config.beyond = {}
  PROVE  HeldInv
<1>1. /\ TypeInv /\ hoj.positive = <<>> /\ hoj.leaves = <<>>
      /\ hoj.roots = IF config.global THEN config.initial ELSE <<Head(config.initial)>>
      /\ hoj.buffer = IF config.global THEN <<>> ELSE Tail(config.initial)
  BY InitTyped
<1>2. /\ gone = {} /\ limited = {} /\ pc = "run" /\ ready = <<>> /\ waiting = Range(hoj.roots)
      /\ hoj.height = IF config.global THEN config.delta
                      ELSE config.delta + Height(Head(config.initial))
  BY DEF Init
<1>3. /\ config \in Configs /\ config.delta \in Nat /\ config.initial # <<>> /\ config.initial \in Seq(Contexts)
  BY <1>1, GoodConfig DEF TypeInv
<1>4. /\ Head(config.initial) = config.initial[1] /\ DOMAIN config.initial = 1 .. Len(config.initial)
      /\ 1 \in DOMAIN config.initial
      /\ \A x \in Range(Tail(config.initial)) : \E i \in DOMAIN config.initial : i # 1 /\ config.initial[i] = x
  BY <1>3, TailRange
<1>5. Head(config.initial) \in Starting /\ Head(config.initial) \in Contexts
  BY <1>3, <1>4, RangeOf DEF Starting
<1>6. hoj.height >= config.delta
  <2>1. Height(Head(config.initial)) \in Nat
    BY <1>3, <1>5, HeightFacts
  <2> QED
    BY <1>2, <1>3, <2>1
<1>7. Range(hoj.leaves) = {} /\ Range(hoj.positive) = {} /\ Range(ready) = {}
  BY <1>1, <1>2, SeqOfNothing
<1>8. Range(<<Head(config.initial)>>) = {Head(config.initial)}
  BY DEF Range
<1>9. Range(hoj.roots) \subseteq Starting
  BY <1>1, <1>5, <1>8 DEF Starting
<1>10. Range(hoj.buffer) \subseteq Starting
  <2>1. CASE config.global
    BY <1>1, <2>1, SeqOfNothing
  <2>2. CASE ~ config.global
    <3> SUFFICES ASSUME NEW b \in Range(hoj.buffer) PROVE b \in Starting
      OBVIOUS
    <3>1. \E i \in DOMAIN config.initial : i # 1 /\ config.initial[i] = b
      BY <1>1, <1>4, <2>2
    <3> QED
      BY <1>3, <3>1, RangeOf DEF Starting
  <2> QED
    BY <2>1, <2>2
<1>11. ASSUME NEW b \in Range(hoj.buffer), NEW r \in Range(hoj.roots), b \in Above(r) PROVE FALSE
  <2>1. ~ config.global
    BY <1>1, <1>11, SeqOfNothing
  <2>2. r = config.initial[1]
    BY <1>1, <1>4, <1>8, <1>11, <2>1
  <2>3. PICK i \in DOMAIN config.initial : i # 1 /\ config.initial[i] = b
    BY <1>1, <1>4, <1>11, <2>1
  <2>4. r # 0
    BY <1>3, <1>4, <1>5, <2>2, GraphFacts
  <2>5. config.initial[i] \in config.path[config.initial[1]]
    BY <1>11, <2>2, <2>3, <2>4 DEF Above
  <2>6. i = 1
    BY <1>3, <1>4, <2>3, <2>5, GoodConfig DEF Good
  <2> QED
    BY <2>3, <2>6
<1>12. ASSUME NEW c \in Starting PROVE Deep(c) /\ Shares(c, c)
  <2>1. c \in Above(c)
    BY <1>3, StartIs, GraphFacts
  <2> QED
    BY <2>1 DEF Deep, Shares
<1>13. ASSUME NEW c \in Starting, NEW d \in Starting, Shares(c, d) PROVE c = d
  <2>1. PICK i \in Starting : i \in Above(c) /\ i \in Above(d)
    BY <1>13 DEF Shares
  <2> QED
    BY <1>3, <2>1, StartIs
<1>14. Placed(hoj)
  BY <1>6, <1>7, <1>10 DEF Placed, Level
<1>15. Poised(hoj)
  BY <1>7, <1>9, <1>11, <1>12, <1>13 DEF Poised, Level
<1>16. Unspoilt /\ Closed(gone)
  BY <1>2 DEF Unspoilt, Closed
<1>17. \A c \in Range(ready) \cup waiting : Coming(hoj, c)
  BY <1>2, <1>7 DEF Coming
<1> QED
  BY <1>2, <1>14, <1>15, <1>16, <1>17 DEF HeldInv

LEMMA HandleGoalHeld ==
  ASSUME TypeInv, Sliding, OnceInv, HeldInv, HandleGoalAchieved
  PROVE  HeldInv'
<1>1. /\ limited = {} /\ Closed(gone) /\ Unspoilt /\ Placed(hoj)
  BY DEF HeldInv
<1>2. /\ pc = "run" /\ ready = <<>> /\ "GOAL" \in requested
      /\ UNCHANGED <<config, open, ready, limited, gone, pc>>
      /\ \/ hoj' = hoj /\ requested' = (requested \ {"GOAL"}) \cup {"STOP"} /\ waiting' = waiting
         \/ /\ hoj.buffer # <<>> /\ requested' = (requested \ {"GOAL"}) \cup {"CONTINUE"}
            /\ waiting' = {Head(hoj.buffer)} /\ Head(hoj.buffer) \in Contexts
            /\ hoj'.roots = <<Head(hoj.buffer)>> /\ hoj'.buffer = Tail(hoj.buffer)
            /\ hoj'.height = config.delta + Height(Head(hoj.buffer))
            /\ hoj'.leaves = hoj.leaves /\ hoj'.positive = hoj.positive
  BY GoalIs DEF HandleGoalAchieved
<1>3. CASE hoj' = hoj /\ requested' = (requested \ {"GOAL"}) \cup {"STOP"} /\ waiting' = waiting
  <2>1. requested' # {"CONTINUE"}
    BY <1>3
  <2>2. Unspoilt'
    BY <1>1, <1>2, <1>3 DEF Unspoilt
  <2> QED
    BY <1>1, <1>2, <1>3, <2>1, <2>2, HeldBy
<1>4. CASE /\ hoj.buffer # <<>> /\ requested' = (requested \ {"GOAL"}) \cup {"CONTINUE"}
           /\ waiting' = {Head(hoj.buffer)} /\ Head(hoj.buffer) \in Contexts
           /\ hoj'.roots = <<Head(hoj.buffer)>> /\ hoj'.buffer = Tail(hoj.buffer)
           /\ hoj'.height = config.delta + Height(Head(hoj.buffer))
           /\ hoj'.leaves = hoj.leaves /\ hoj'.positive = hoj.positive
  <2> DEFINE b == Head(hoj.buffer)
  <2>1. config \in Configs /\ hoj.buffer \in Seq(Contexts) /\ config.delta \in Nat
    BY GoodConfig DEF TypeInv, Members
  <2>2. /\ b = hoj.buffer[1] /\ DOMAIN hoj.buffer = 1 .. Len(hoj.buffer) /\ 1 \in DOMAIN hoj.buffer
        /\ \A x \in Range(Tail(hoj.buffer)) : \E i \in DOMAIN hoj.buffer : i # 1 /\ hoj.buffer[i] = x
    BY <1>4, <2>1, TailRange
  <2>3. b \in Range(hoj.buffer) /\ b \in Contexts
    BY <1>4, <2>1, <2>2, RangeOf
  <2>4. ASSUME NEW x \in Range(Tail(hoj.buffer)) PROVE x \in Range(hoj.buffer) /\ x # b
    <3>1. PICK i \in DOMAIN hoj.buffer : i # 1 /\ hoj.buffer[i] = x
      BY <2>2, <2>4
    <3>2. x \in Range(hoj.buffer)
      BY <2>1, <2>2, <3>1, RangeOf
    <3>3. IsInjective(hoj.buffer)
      BY <1>4 DEF OnceInv, Resting
    <3>4. x # b
      BY <2>2, <3>1, <3>3 DEF IsInjective
    <3> QED
      BY <3>2, <3>4
  <2>5. b \in Starting /\ b \in Above(b) /\ Height(b) \in Nat
    BY <1>1, <2>1, <2>3, GraphFacts, HeightFacts DEF Placed
  <2>6. Range(hoj'.roots) = {b}
    BY <1>4 DEF Range
  <2> HIDE DEF b
  <2>7. hoj'.height >= config.delta
    BY <1>4, <2>1, <2>5 DEF b
  <2>8. Range(hoj'.buffer) \subseteq Range(hoj.buffer)
    BY <1>4, <2>4
  <2>9. Placed(hoj')
    BY <1>1, <1>4, <2>7, <2>8 DEF Placed
  <2>10. ASSUME NEW x, Shares(x, b) \/ Shares(b, x) PROVE b \in Above(x)
    <3>1. PICK i \in Starting : i \in Above(x) /\ i \in Above(b)
      BY <2>10 DEF Shares
    <3>2. i = b
      BY <2>1, <2>5, <3>1, StartIs
    <3> QED
      BY <3>1, <3>2
  <2>11. \A c \in Range(hoj.leaves) \cup Range(hoj.positive) : ~ Shares(c, b)
    BY <1>1, <2>3, <2>10 DEF Placed
  <2>12. \A x \in Range(hoj'.buffer) : x \notin Above(b)
    <3> SUFFICES ASSUME NEW x \in Range(hoj'.buffer), x \in Above(b) PROVE FALSE
      OBVIOUS
    <3>1. x \in Range(hoj.buffer) /\ x # b
      BY <1>4, <2>4
    <3>2. x \in Starting
      BY <1>1, <3>1 DEF Placed
    <3> QED
      BY <2>1, <2>5, <3>1, <3>2, StartIs
  <2>13. Deep(b) /\ Shares(b, b)
    BY <2>5 DEF Deep, Shares
  <2>14. Poised(hoj')
    BY <1>4, <2>6, <2>11, <2>12, <2>13 DEF Poised, Level
  <2>15. ready' = <<>> /\ waiting' = {b} /\ Range(<<>>) = {}
    BY <1>2, <1>4, SeqOfNothing DEF b
  <2>16. \A c \in Range(ready') \cup waiting' : Coming(hoj', c)
    BY <2>6, <2>15 DEF Coming
  <2>17. Unspoilt'
    <3>1. gone' = gone
      BY <1>2
    <3>2. gone \cap (Range(hoj.buffer) \cup Range(hoj.leaves) \cup Range(hoj.positive)) = {}
      BY <1>1 DEF Unspoilt
    <3> QED
      BY <1>4, <2>3, <2>6, <2>8, <2>15, <3>1, <3>2 DEF Unspoilt
  <2> QED
    BY <1>1, <1>2, <2>9, <2>14, <2>16, <2>17, HeldBy
<1> QED
  BY <1>2, <1>3, <1>4

-----------------------------------------------------------------------------
\* A step of the traversal, which changes neither what is gone nor what the lists hold.
LEMMA HitStepHeld ==
  ASSUME TypeInv, HeldInv, pc = "hit",
         UNCHANGED <<config, open, limited, gone, requested, ready, waiting, pc>>,
         hoj'.roots = hoj.roots, hoj'.leaves = hoj.leaves, hoj'.buffer = hoj.buffer,
         hoj'.positive = hoj.positive, hoj'.height = hoj.height, FoundHeld(hoj', todo')
  PROVE  HeldInv'
<1>1. /\ limited = {} /\ pc # "crashed" /\ Closed(gone) /\ Unspoilt /\ Placed(hoj) /\ Poised(hoj)
      /\ requested = {"CONTINUE"} /\ ready = <<>> /\ waiting = {}
  BY DEF HeldInv, TypeInv
<1>2. Placed(hoj')
  BY <1>1 DEF Placed
<1>3. Poised(hoj')
  <2>1. \A c : Fits(hoj, c) => Fits(hoj', c)
    BY DEF Fits
  <2> QED
    BY <1>1, <2>1 DEF Poised
<1>4. Unspoilt'
  BY <1>1 DEF Unspoilt
<1>5. \A c \in Range(ready') \cup waiting' : Coming(hoj', c)
  BY <1>1, SeqOfNothing
<1> QED
  BY <1>1, <1>2, <1>3, <1>4, <1>5, HeldBy

LEMMA ReturnHeld ==
  ASSUME TypeInv, HeldInv, Return
  PROVE  HeldInv'
<1>1. /\ pc = "hit" /\ todo # <<>> /\ todo' = Tail(todo) /\ hoj' = hoj
      /\ UNCHANGED <<config, open, limited, gone, requested, ready, waiting, pc>>
  BY DEF Return, Looks, aroundVars
<1>2. FoundHeld(hoj, todo) /\ todo \in Seq(TaskSet)
  BY <1>1 DEF HeldInv, TypeInv
<1>3. \A i \in 1 .. Len(Tail(todo)) : i + 1 \in 1 .. Len(todo) /\ Tail(todo)[i] = todo[i + 1]
  BY <1>1, <1>2
<1>4. Spared(todo')
  BY <1>1, <1>2, <1>3 DEF FoundHeld, Spared
<1>5. FoundHeld(hoj', todo')
  BY <1>1, <1>2, <1>4 DEF FoundHeld
<1> QED
  BY <1>1, <1>5, HitStepHeld

LEMMA HandleContinueHeld ==
  ASSUME TypeInv, Unachieved, Sliding, OnceInv, HeldInv, HandleContinue
  PROVE  HeldInv'
<1>1. /\ pc = "run" /\ requested = {"CONTINUE"} /\ ready = <<>> /\ waiting = {}
      /\ \/ /\ pc' = "hit" /\ hoj' = Started(hoj) /\ todo' = Tasks(hoj) /\ hoj.roots # <<>>
            /\ UNCHANGED <<config, open, limited, ready, waiting, gone, requested>>
         \/ Achieved(hoj)
  BY HandleContinueIs
<1>2. ~ Achieved(hoj)
  BY <1>1 DEF OnceInv
<1>3. /\ pc' = "hit" /\ hoj' = Started(hoj) /\ todo' = Tasks(hoj) /\ hoj.roots # <<>>
      /\ UNCHANGED <<config, open, limited, ready, waiting, gone, requested>>
  BY <1>1, <1>2
<1>4. limited = {} /\ Closed(gone) /\ Unspoilt /\ Placed(hoj) /\ Poised(hoj)
  BY <1>1 DEF HeldInv
<1>5. /\ hoj'.best = <<>> /\ hoj'.roots = hoj.roots /\ hoj'.height = hoj.height /\ hoj'.buffer = hoj.buffer
      /\ hoj'.positive = hoj.positive /\ hoj'.leaves = hoj.leaves
  BY <1>3, StartedIs DEF TypeInv
<1>6. Placed(hoj')
  BY <1>4, <1>5 DEF Placed
<1>7. Poised(hoj')
  <2>1. \A c : Fits(hoj, c) => Fits(hoj', c)
    BY <1>5 DEF Fits
  <2> QED
    BY <1>4, <1>5, <2>1 DEF Poised
<1>8. Unspoilt'
  BY <1>3, <1>4, <1>5 DEF Unspoilt
<1>9. \A c \in Range(ready') \cup waiting' : Coming(hoj', c)
  BY <1>1, <1>3, SeqOfNothing
<1>10. Spared(Tasks(hoj))
  <2>1. hoj.roots \in Seq(Contexts) /\ DOMAIN hoj.roots = 1 .. Len(hoj.roots) /\ Len(hoj.roots) \in Nat
    BY LenProperties DEF TypeInv, Members
  <2>2. CASE FromTop(hoj)
    <3> DEFINE k == Task({hoj.roots[1]}, hoj.bits, 0)
    <3>1. Tasks(hoj) = <<k>> /\ k.left = {hoj.roots[1]}
      BY <2>2 DEF Tasks, Task
    <3>2. hoj.roots[1] \in Range(hoj.roots)
      <4>1. 1 \in DOMAIN hoj.roots
        BY <2>1, <2>2 DEF FromTop
      <4> QED
        BY <4>1 DEF Range
    <3>3. hoj.roots[1] \notin gone
      BY <1>4, <3>2 DEF Unspoilt
    <3> HIDE DEF k
    <3>4. Len(<<k>>) = 1 /\ <<k>>[1] = k
      OBVIOUS
    <3>5. \A i \in 1 .. Len(<<k>>) : i = 1
      BY <3>4
    <3>6. Spared(<<k>>)
      BY <3>1, <3>3, <3>4, <3>5 DEF Spared
    <3> QED
      BY <3>1, <3>6
  <2>3. CASE ~ FromTop(hoj)
    <3> DEFINE t == Tasks(hoj)
    <3>1. Len(t) = Len(hoj.roots) /\ \A i \in 1 .. Len(hoj.roots) : t[i].left = Children(hoj.roots[i])
      BY <2>1, <2>3 DEF Tasks, Task
    <3>2. \A c : Children(c) \cap gone = {}
      BY DEF Children
    <3> HIDE DEF t
    <3>3. Spared(t)
      BY <3>1, <3>2 DEF Spared
    <3> QED
      BY <3>3 DEF t
  <2> QED
    BY <2>2, <2>3
<1>11. FoundHeld(hoj', todo')
  <2>1. Ecs(hoj'.best) = {}
    BY <1>5, EcsWith
  <2> QED
    BY <1>3, <1>10, <2>1 DEF FoundHeld
<1> QED
  BY <1>3, <1>4, <1>6, <1>7, <1>8, <1>9, <1>11, HeldBy

\* A context that is looked at below the roots, and is neither above the height of the jump nor left
\* there, fits.
LEMMA TurnFits ==
  ASSUME TypeInv, OnceInv, HeldInv, requested = {"CONTINUE"}, NEW c \in Contexts, Under(c, hoj.roots),
         config.parent[c] \in open \cup {0}, Childless(c), ~ IsAbsolute(hoj, c)
  PROVE  Fits(hoj, c)
<1>1. PICK r \in Range(hoj.roots) : r \in Above(c)
  BY DEF Under
<1>2. limited = {} /\ Placed(hoj) /\ Poised(hoj) /\ Going(hoj)
  BY DEF HeldInv, OnceInv
<1>3. c \in Range(hoj.leaves) \/ ~ Height(c) < hoj.height
  BY <1>2 DEF IsAbsolute
<1>4. CASE c \in Range(hoj.leaves)
  <2>1. Shares(c, r)
    BY <1>1, <1>2, UnderHeld
  <2> QED
    BY <1>2, <1>4, <2>1 DEF Poised
<1>5. CASE ~ Height(c) < hoj.height
  <2>1. Height(c) \in Nat /\ hoj.height \in Int /\ Height(c) = Height(config.parent[c]) + 1
    BY HeightFacts DEF TypeInv, Members
  <2>2. ASSUME c # r PROVE Height(c) <= hoj.height
    <3> DEFINE u == config.parent[c]
    <3>1. u \in Contexts /\ r \in Above(u)
      BY <1>1, <2>2, PathHeights DEF TypeInv
    <3>2. u \in open
      BY <3>1, GraphFacts DEF TypeInv
    <3>3. Height(u) < hoj.height
      BY <1>2, <3>1, <3>2 DEF Going, Under
    <3>4. Height(u) \in Nat
      BY <3>1, HeightFacts DEF TypeInv
    <3> HIDE DEF u
    <3> QED
      BY <2>1, <3>3, <3>4 DEF u
  <2>3. Height(c) = hoj.height \/ c \in Range(hoj.roots)
    BY <1>1, <1>5, <2>1, <2>2
  <2>4. Height(c) >= hoj.height
    BY <1>5, <2>1
  <2> QED
    BY <2>3, <2>4 DEF Fits
<1> QED
  BY <1>3, <1>4, <1>5

LEMMA VisitHeld ==
  ASSUME TypeInv, Sliding, OnceInv, HeldInv, Visit,
         hoj.covered + hoj.most <= config.points, hoj.covered + Total <= config.points
  PROVE  HeldInv'
<1>1. /\ pc = "hit" /\ Looks /\ Head(todo).left # {}
      /\ UNCHANGED <<config, open, limited, gone, requested, ready, waiting, pc>>
  BY DEF Visit, Looks, aroundVars
<1>2. PICK g : Noted(hoj, g, Turn) /\ (Passed(g) \/ Descended(g) \/ Chose(g) \/ Kept(g))
  BY VisitIs
<1>3. /\ Turn \in Contexts /\ Turn \in Head(todo).left /\ Now \in SUBSET Nat /\ Total \in Nat
      /\ Others \in Seq(TaskSet) /\ Len(todo) \in Nat \ {0} /\ Len(Others) = Len(todo)
      /\ Others[1] = [Head(todo) EXCEPT !.left = @ \ {Turn}]
      /\ \A i \in 2 .. Len(todo) : Others[i] = todo[i]
  BY <1>1, TurnIs
<1>4. /\ requested = {"CONTINUE"} /\ limited = {} /\ FoundHeld(hoj, todo) /\ Unspoilt
      /\ FoundOnce(hoj, saves) /\ Toured(hoj, saves, todo)
  BY <1>1 DEF TypeInv, HeldInv, OnceInv
<1>5. ~ Backtracks
  BY SlidingOnce
<1>6. Head(todo) = todo[1] /\ Head(todo) \in TaskSet /\ 1 \in 1 .. Len(todo)
  <2>1. todo \in Seq(TaskSet) /\ todo # <<>>
    BY <1>1 DEF TypeInv, Looks
  <2> QED
    BY <2>1
<1>7. Turn \notin gone /\ Under(Turn, hoj.roots) /\ config.parent[Turn] \in open \cup {0}
  <2>1. Turn \notin gone
    BY <1>3, <1>4, <1>6 DEF FoundHeld, Spared
  <2> QED
    BY <1>3, <1>4, <1>6, <2>1 DEF Toured, Tour, Due
<1>8. Spared(Others)
  <2>1. Others[1].left \subseteq todo[1].left
    BY <1>3, <1>6 DEF TaskSet
  <2>2. ASSUME NEW i \in 1 .. Len(Others) PROVE Others[i].left \cap gone = {}
    <3>1. CASE i = 1
      BY <1>4, <1>6, <2>1, <3>1 DEF FoundHeld, Spared
    <3>2. CASE i # 1
      <4>1. i \in 2 .. Len(todo) /\ i \in 1 .. Len(todo)
        BY <1>3, <3>2
      <4> QED
        BY <1>3, <1>4, <4>1 DEF FoundHeld, Spared
    <3> QED
      BY <3>1, <3>2
  <2> QED
    BY <2>2 DEF Spared
<1>9. /\ g \in Members /\ g.leaves = hoj.leaves /\ g.roots = hoj.roots /\ g.buffer = hoj.buffer
      /\ g.positive = hoj.positive /\ g.height = hoj.height /\ g.best = hoj.best /\ g.most = hoj.most
      /\ g.covered = hoj.covered
  <2>1. g \in Members /\ g = [hoj EXCEPT !.absolute = g.absolute, !.black = g.black, !.leaves = g.leaves]
    BY <1>2 DEF Noted
  <2>2. g.leaves = hoj.leaves
    BY <1>2, <1>4 DEF Noted
  <2>3. hoj \in Members
    BY DEF TypeInv
  <2> QED
    BY <2>1, <2>2, <2>3 DEF Members
<1>10. \A e \in Ecs(hoj.best) : e \notin gone /\ Under(e, hoj.roots)
  BY <1>4 DEF FoundHeld
<1>11. hoj.covered + hoj.most # config.points => \A e \in Ecs(hoj.best) : Fits(hoj, e)
  BY <1>4 DEF FoundHeld
<1>12. \A h, c : h.roots = hoj.roots /\ h.height = hoj.height => (Fits(h, c) <=> Fits(hoj, c))
  BY DEF Fits
<1>13. CASE Passed(g)
  <2>1. hoj' = g /\ todo' = Others
    BY <1>13 DEF Passed
  <2>2. FoundHeld(hoj', todo')
    BY <1>8, <1>9, <1>10, <1>11, <1>12, <2>1 DEF FoundHeld
  <2> QED
    BY <1>1, <1>9, <2>1, <2>2, HitStepHeld
<1>14. CASE Descended(g)
  <2> DEFINE k == Task(Children(Turn), Now, Total)
             s == <<k>> \o Others
  <2>1. hoj' = g /\ todo' = s
    BY <1>14 DEF Descended
  <2>2. k.left \cap gone = {}
    BY DEF Task, Children
  <2> HIDE DEF k
  <2>3. /\ Len(Others) \in Nat /\ Len(s) = Len(Others) + 1 /\ s[1] = k
        /\ \A i \in 1 .. Len(Others) : s[i + 1] = Others[i]
    BY <1>3
  <2> HIDE DEF s
  <2>4. ASSUME NEW i \in 1 .. Len(s) PROVE s[i].left \cap gone = {}
    <3>1. CASE i = 1
      BY <2>2, <2>3, <3>1
    <3>2. CASE i # 1
      <4>1. i - 1 \in 1 .. Len(Others) /\ (i - 1) + 1 = i
        BY <2>3, <3>2
      <4>2. s[(i - 1) + 1] = Others[i - 1]
        BY <2>3, <4>1
      <4> QED
        BY <1>8, <4>1, <4>2 DEF Spared
    <3> QED
      BY <3>1, <3>2
  <2>5. Spared(s)
    BY <2>4 DEF Spared
  <2>6. FoundHeld(hoj', todo')
    BY <1>9, <1>10, <1>11, <1>12, <2>1, <2>5 DEF FoundHeld
  <2> QED
    BY <1>1, <1>9, <2>1, <2>6, HitStepHeld
<1>15. CASE Chose(g)
  <2> DEFINE e == Entry(Turn, Total, Now)
  <2>1. /\ hoj' = Candidate(g, Turn, Now, Total) /\ todo' = Others
        /\ \/ Total = config.points - hoj.covered
           \/ Childless(Turn) /\ ~ IsAbsolute(hoj, Turn)
    BY <1>15 DEF Chose
  <2>2. e \in Entries /\ Chooses(hoj', g, e, Total) /\ e.ec = Turn
    BY <1>3, <1>9, <2>1, CandidateIs DEF Entry
  <2> HIDE DEF e
  <2>3. /\ Total > hoj.most => hoj'.most = Total /\ hoj'.best = <<e>>
        /\ ~ Total > hoj.most => hoj'.most = hoj.most /\ hoj'.best = Append(hoj.best, e)
        /\ hoj'.roots = hoj.roots /\ hoj'.covered = hoj.covered /\ hoj'.height = hoj.height
        /\ hoj'.buffer = hoj.buffer /\ hoj'.positive = hoj.positive /\ hoj'.leaves = hoj.leaves
    BY <1>9, <2>2 DEF Chooses
  <2>4. /\ Total > hoj.most => Ecs(hoj'.best) = {Turn}
        /\ ~ Total > hoj.most => Ecs(hoj'.best) = Ecs(hoj.best) \cup {Turn}
    <3>1. hoj.best \in Seq(Entries)
      BY DEF TypeInv, Members
    <3> QED
      BY <2>2, <2>3, <3>1, EcsWith
  <2>5. \A x \in Ecs(hoj'.best) : x \notin gone /\ Under(x, hoj.roots)
    BY <1>7, <1>10, <2>4
  <2>6. hoj.covered \in Nat /\ hoj.most \in Nat /\ config.points \in Nat
    BY GoodConfig DEF TypeInv, Members
  <2>7. ASSUME hoj'.covered + hoj'.most # config.points, NEW x \in Ecs(hoj'.best) PROVE Fits(hoj, x)
    <3>1. Total # config.points - hoj.covered
      BY <1>3, <2>3, <2>6, <2>7
    <3>2. Fits(hoj, Turn)
      BY <1>3, <1>4, <1>7, <2>1, <3>1, TurnFits
    <3>3. CASE x = Turn
      BY <3>2, <3>3
    <3>4. CASE x # Turn
      <4>1. ~ Total > hoj.most /\ x \in Ecs(hoj.best)
        BY <2>4, <2>7, <3>4
      <4>2. hoj.covered + hoj.most # config.points
        BY <2>3, <2>7, <4>1
      <4> QED
        BY <1>11, <4>1, <4>2
    <3> QED
      BY <3>3, <3>4
  <2>8. FoundHeld(hoj', todo')
    BY <1>8, <1>12, <2>1, <2>3, <2>5, <2>7 DEF FoundHeld
  <2> QED
    BY <1>1, <2>3, <2>8, HitStepHeld
<1>16. CASE Kept(g)
  BY <1>5, <1>16 DEF Kept
<1> QED
  BY <1>2, <1>13, <1>14, <1>15, <1>16

LEMMA EndHitHeld ==
  ASSUME TypeInv, Sliding, OnceInv, HeldInv, EndHit
  PROVE  HeldInv'
<1>1. /\ pc = "hit" /\ requested = {"CONTINUE"} /\ ready = <<>> /\ waiting = {}
      /\ Answered(Covering(hoj), hoj.most > 0) /\ UNCHANGED <<config, open, limited>>
  BY EndHitIs DEF EndHit
<1>2. /\ Placed(hoj) /\ Poised(hoj) /\ Unspoilt /\ FoundHeld(hoj, todo)
  BY <1>1 DEF HeldInv
<1>3. /\ hoj \in Members /\ hoj.most \in Nat /\ hoj.covered \in Nat /\ hoj.best \in Seq(Entries) /\ hoj.height \in Int
      /\ config.delta \in Nat /\ config \in Configs
  BY GoodConfig DEF TypeInv, Members
<1> DEFINE v == Covering(hoj)
           hit == hoj.most > 0
<1>4. /\ v \in Members
      /\ hoj.most = 0 => v = hoj
      /\ hoj.most # 0 => /\ v.covered = hoj.covered + hoj.most /\ Len(v.leaves) = Len(hoj.best)
                         /\ v.leaves = [ i \in DOMAIN hoj.best |-> hoj.best[i].ec ]
      /\ v.roots = hoj.roots /\ v.backtrack = hoj.backtrack /\ v.best = hoj.best
      /\ v.height = hoj.height /\ v.buffer = hoj.buffer /\ v.positive = hoj.positive
  BY <1>3, CoveringIs
<1>5. v.backtrack = <<>>
  BY <1>4, SlidingOnce DEF OnceInv
<1>6. hit \in BOOLEAN /\ (hit => hoj.most # 0) /\ (~ hit => v = hoj) /\ Answered(v, hit)
  BY <1>1, <1>3, <1>4
<1> HIDE DEF v, hit
<1>7. hit => Range(v.leaves) = Ecs(hoj.best)
  <2> SUFFICES ASSUME hit PROVE Range(v.leaves) = Ecs(hoj.best)
    OBVIOUS
  <2>1. v.leaves = [ i \in DOMAIN hoj.best |-> hoj.best[i].ec ]
    BY <1>4, <1>6
  <2>2. DOMAIN v.leaves = DOMAIN hoj.best /\ \A i \in DOMAIN hoj.best : v.leaves[i] = hoj.best[i].ec
    BY <2>1
  <2> HIDE DEF Entries
  <2> QED
    BY <2>2 DEF Range, Ecs
<1>8. hit /\ ~ config.ordered => Len(v.leaves) <= Len(v.best)
  <2>1. Len(hoj.best) \in Nat
    BY <1>3
  <2> QED
    BY <1>4, <1>6, <2>1
<1>9. CASE ~ hit
  <2>1. v = hoj
    BY <1>6, <1>9
  <2>2. gone \cap Range(hoj.leaves) = {}
    BY <1>2 DEF Unspoilt
  <2>3. Graspable(v, hit)
    BY <1>2, <2>1, <2>2 DEF Graspable, Placed
  <2>4. PICK t : Slid(v, hit, t)
    BY <1>4, <1>5, <1>6, <1>8, AnsweredSlid DEF Sliding
  <2> QED
    BY <1>1, <1>4, <1>6, <2>3, <2>4, SlidHeld DEF Sliding
<1>10. CASE hit
  <2>1. ASSUME NEW c \in Range(v.leaves)
        PROVE  /\ c \in Contexts /\ c \notin gone /\ Shares(c, c) /\ Under(c, hoj.roots)
               /\ \A b \in Range(hoj.buffer) : b \notin Above(c)
               /\ \A p \in Range(hoj.positive) : ~ Shares(p, c)
    <3>1. c \in Ecs(hoj.best) /\ c \in Contexts
      BY <1>3, <1>7, <1>10, <2>1, EcsOf
    <3>2. c \notin gone /\ Under(c, hoj.roots)
      BY <1>2, <3>1 DEF FoundHeld
    <3>3. PICK r \in Range(hoj.roots) : r \in Above(c)
      BY <3>2 DEF Under
    <3> QED
      BY <1>2, <3>1, <3>2, <3>3, UnderHeld
  <2>2. ASSUME ~ Achieved(v), NEW c \in Range(v.leaves) PROVE Fits(hoj, c)
    <3>1. hoj.covered + hoj.most # config.points
      BY <1>4, <1>6, <1>10, <2>2 DEF Achieved
    <3> QED
      BY <1>2, <1>7, <1>10, <2>2, <3>1 DEF FoundHeld
  <2>3. ASSUME ~ Achieved(v), NEW c \in Range(v.leaves) PROVE Deep(c)
    <3>1. Height(c) >= hoj.height /\ Height(c) \in Nat
      BY <1>3, <2>1, <2>2, <2>3, HeightFacts DEF Fits
    <3>2. hoj.height >= config.delta
      BY <1>2 DEF Placed
    <3>3. Height(c) >= config.delta
      BY <1>3, <3>1, <3>2
    <3> QED
      BY <3>3 DEF Deep
  <2>4. ASSUME ~ Achieved(v) PROVE Level(Range(v.leaves))
    <3>1. ASSUME NEW c \in Range(v.leaves), NEW d \in Range(v.leaves), Shares(c, d)
          PROVE  Height(c) = Height(d)
      <4>1. c \in Contexts /\ d \in Contexts /\ Fits(hoj, c) /\ Fits(hoj, d)
        BY <2>1, <2>2, <2>4
      <4> QED
        BY <1>2, <3>1, <4>1, LevelFits
    <3> QED
      BY <3>1 DEF Level
  <2>5. Graspable(v, hit)
    BY <1>4, <1>10, <2>1, <2>3, <2>4 DEF Graspable
  <2>6. PICK t : Slid(v, hit, t)
    BY <1>4, <1>5, <1>6, <1>8, AnsweredSlid DEF Sliding
  <2> QED
    BY <1>1, <1>4, <1>6, <2>5, <2>6, SlidHeld DEF Sliding
<1> QED
  BY <1>6, <1>9, <1>10

LEMMA ExploreHeld ==
  ASSUME TypeInv, Sliding, OnceInv, HeldInv, Explore
  PROVE  HeldInv'
<1>1. PICK batch : Explored(batch)
  BY ExploreIs
<1>2. /\ pc = "run" /\ "STOP" \notin requested
      /\ \/ ready # <<>> /\ batch = ready
         \/ ready = <<>> /\ "GOAL" \notin requested /\ \E c \in waiting : batch = <<c>>
      /\ limited' = limited \cup (Range(batch) \cap config.beyond)
      /\ open' = open \cup Evaluated(batch) /\ pc' \in {"run", "again"} /\ ready' = <<>>
      /\ waiting' = (waiting \ Range(batch)) \cup { d \in Contexts : config.parent[d] \in Evaluated(batch) }
      /\ hoj' \in Members
      /\ hoj' = [hoj EXCEPT !.stopped = hoj'.stopped, !.black = hoj'.black, !.leaves = hoj'.leaves]
      /\ hoj'.leaves = hoj.leaves \o TooDeep(batch)
      /\ batch \in Seq(Contexts) /\ TooDeep(batch) \in Seq(Contexts) /\ Range(batch) \subseteq Contexts
      /\ UNCHANGED <<config, gone, requested>>
  BY <1>1 DEF Explored
<1>3. requested = {"CONTINUE"}
  <2>1. requested \in {{"CONTINUE"}, {"GOAL"}, {"STOP"}} /\ (requested = {"GOAL"} => ready = <<>>)
    BY DEF OnceInv
  <2> QED
    BY <1>2, <2>1
<1>4. /\ limited = {} /\ Closed(gone) /\ Unspoilt /\ Placed(hoj) /\ Poised(hoj)
      /\ \A c \in Range(ready) \cup waiting : Coming(hoj, c)
      /\ Queued
  BY <1>3 DEF HeldInv, OnceInv
<1>5. /\ hoj'.roots = hoj.roots /\ hoj'.buffer = hoj.buffer /\ hoj'.positive = hoj.positive
      /\ hoj'.height = hoj.height
  <2>1. hoj \in Members
    BY DEF TypeInv
  <2> QED
    BY <1>2, <2>1 DEF Members
<1>6. Range(batch) \subseteq Range(ready) \cup waiting
  <2>1. \A c : Range(<<c>>) = {c}
    BY DEF Range
  <2> QED
    BY <1>2, <2>1
<1>7. limited' = {}
  BY <1>2, <1>4 DEF Sliding
<1>8. \A c \in Range(ready) \cup waiting : c \notin gone /\ c \notin open /\ Under(c, hoj.roots) /\ c \in Contexts
  BY <1>4 DEF Unspoilt, Queued, Fringe
<1>9. Evaluated(batch) \subseteq Range(batch) /\ \A c \in Evaluated(batch) : Height(c) < hoj.height
  BY DEF Evaluated, Main
<1>10. ASSUME NEW c \in Range(TooDeep(batch)) PROVE c \in Range(batch) /\ Fits(hoj, c)
  <2>1. Range(TooDeep(batch)) = Range(batch) \cap (Main(batch) \ (LostOf(batch) \cup Evaluated(batch)))
    BY <1>2, ThoseOwn DEF TooDeep
  <2>2. c \in Range(batch) /\ c \in Main(batch) \ LostOf(batch) /\ c \notin Evaluated(batch)
    BY <1>10, <2>1
  <2>3. ~ Height(c) < hoj.height
    BY <2>2 DEF Evaluated
  <2>4. c \in Contexts /\ Under(c, hoj.roots) /\ Coming(hoj, c)
    BY <1>4, <1>6, <1>8, <2>2
  <2>5. Height(c) \in Nat /\ hoj.height \in Int
    BY <2>4, HeightFacts DEF TypeInv, Members
  <2>6. Height(c) >= hoj.height /\ (Height(c) = hoj.height \/ c \in Range(hoj.roots))
    BY <2>3, <2>4, <2>5 DEF Coming
  <2> QED
    BY <2>2, <2>4, <2>6 DEF Fits
<1>11. Range(hoj'.leaves) = Range(hoj.leaves) \cup Range(TooDeep(batch)) /\ Range(hoj.leaves) \subseteq Contexts
  <2>1. hoj.leaves \in Seq(Contexts)
    BY DEF TypeInv, Members
  <2> QED
    BY <1>2, <2>1, RangeOf
<1>12. ASSUME NEW c \in Range(TooDeep(batch))
       PROVE  /\ c \in Contexts /\ Deep(c) /\ Shares(c, c) /\ c \notin gone
              /\ \A b \in Range(hoj.buffer) : b \notin Above(c)
              /\ \A p \in Range(hoj.positive) : ~ Shares(p, c)
  <2>1. c \in Contexts /\ Fits(hoj, c) /\ c \notin gone
    BY <1>6, <1>8, <1>10
  <2>2. PICK r \in Range(hoj.roots) : r \in Above(c)
    BY <2>1 DEF Fits, Under
  <2>3. Height(c) >= hoj.height /\ hoj.height >= config.delta
    BY <1>4, <2>1 DEF Fits, Placed
  <2>4. Height(c) \in Nat /\ hoj.height \in Int /\ config.delta \in Nat
    BY <2>1, HeightFacts, GoodConfig DEF TypeInv, Members
  <2>5. Height(c) >= config.delta
    BY <2>3, <2>4
  <2> QED
    BY <1>4, <2>1, <2>2, <2>5, UnderHeld DEF Deep
<1>13. ASSUME NEW c \in Range(hoj.leaves) \cup Range(TooDeep(batch)), NEW d \in Range(TooDeep(batch)), Shares(c, d)
       PROVE  Height(c) = Height(d)
  <2>1. d \in Contexts /\ Fits(hoj, d) /\ c \in Contexts
    BY <1>10, <1>11, <1>12, <1>13
  <2>2. PICK r \in Range(hoj.roots) : r \in Above(d)
    BY <2>1 DEF Fits, Under
  <2>3. Shares(d, r)
    BY <1>4, <2>1, <2>2, UnderHeld
  <2>4. Shares(c, r)
    BY <1>13, <2>1, <2>3, SharesOn DEF TypeInv
  <2>5. Fits(hoj, c)
    BY <1>4, <1>10, <1>13, <2>2, <2>4 DEF Poised
  <2> QED
    BY <1>4, <1>13, <2>1, <2>5, LevelFits
<1>14. Placed(hoj')
  <2>1. Level(Range(hoj'.leaves))
    <3>1. ASSUME NEW c \in Range(hoj'.leaves), NEW d \in Range(hoj'.leaves), Shares(c, d)
          PROVE  Height(c) = Height(d)
      <4>1. Shares(d, c)
        BY <3>1, SharesOn DEF TypeInv
      <4>2. CASE d \in Range(TooDeep(batch))
        BY <1>11, <1>13, <3>1, <4>2
      <4>3. CASE c \in Range(TooDeep(batch))
        BY <1>11, <1>13, <3>1, <4>1, <4>3
      <4>4. CASE c \in Range(hoj.leaves) /\ d \in Range(hoj.leaves)
        BY <1>4, <3>1, <4>4 DEF Placed, Level
      <4> QED
        BY <1>11, <3>1, <4>2, <4>3, <4>4
    <3> QED
      BY <3>1 DEF Level
  <2> QED
    BY <1>4, <1>5, <1>11, <1>12, <2>1 DEF Placed
<1>15. Poised(hoj')
  <2>1. \A c : Fits(hoj', c) <=> Fits(hoj, c)
    BY <1>5 DEF Fits
  <2> QED
    BY <1>4, <1>5, <1>10, <1>11, <2>1 DEF Poised
<1>16. ASSUME NEW d \in Contexts, config.parent[d] \in Evaluated(batch)
       PROVE  d \notin gone /\ Height(d) <= hoj.height
  <2> DEFINE c == config.parent[d]
  <2>1. c \notin gone /\ c \notin open /\ c \in Contexts /\ Height(c) < hoj.height
    BY <1>6, <1>8, <1>9, <1>16
  <2>2. d \notin gone
    BY <1>4, <2>1 DEF Closed
  <2>3. Height(d) = Height(c) + 1 /\ Height(c) \in Nat /\ hoj.height \in Int
    BY <2>1, HeightFacts DEF TypeInv, Members
  <2> HIDE DEF c
  <2> QED
    BY <2>1, <2>2, <2>3
<1>17. Unspoilt'
  <2>1. gone' = gone /\ Range(ready') = {}
    BY <1>2, SeqOfNothing
  <2>2. waiting' \cap gone = {}
    BY <1>2, <1>8, <1>16
  <2>3. Range(hoj'.leaves) \cap gone = {}
    BY <1>4, <1>11, <1>12 DEF Unspoilt
  <2>4. gone \cap (Range(hoj.roots) \cup Range(hoj.buffer) \cup Range(hoj.positive)) = {}
    BY <1>4 DEF Unspoilt
  <2> QED
    BY <1>5, <2>1, <2>2, <2>3, <2>4 DEF Unspoilt
<1>18. \A c \in Range(ready') \cup waiting' : Coming(hoj', c)
  <2> SUFFICES ASSUME NEW c \in Range(ready') \cup waiting' PROVE Coming(hoj', c)
    OBVIOUS
  <2>1. c \in waiting'
    BY <1>2, SeqOfNothing
  <2>2. CASE c \in waiting
    BY <1>4, <1>5, <2>2 DEF Coming
  <2>3. CASE c \notin waiting
    BY <1>2, <1>5, <1>16, <2>1, <2>3 DEF Coming
  <2> QED
    BY <2>2, <2>3
<1>19. Closed(gone') /\ open \subseteq open' /\ pc' # "crashed" /\ pc' # "hit" /\ config' = config
  BY <1>2, <1>4
<1> QED
  BY <1>7, <1>14, <1>15, <1>17, <1>18, <1>19, HeldBy

-----------------------------------------------------------------------------
\* A search that does not slice has nothing to lose.
Whole == gone = {} /\ pc # "crashed"

LEMMA WholeNext ==
  ASSUME Whole, ~ Slices, [Next]_vars
  PROVE  Whole'
<1>1. ASSUME NEW roots, SliceAround(roots) PROVE gone' = gone /\ pc' = "run"
  BY <1>1 DEF SliceAround
<1>2. ASSUME NEW v, NEW hit, NEW posted, Jump(v, hit, posted) PROVE gone' = gone /\ pc' = "run"
  BY <1>1, <1>2 DEF Jump
<1>3. ASSUME NEW v, NEW posted, Found(v, posted) PROVE gone' = gone /\ pc' = "run"
  BY <1>2, <1>3 DEF Found, Stays
<1>4. ASSUME NEW v, NEW hit, Answered(v, hit) PROVE gone' = gone /\ pc' = "run"
  BY <1>2, <1>3, <1>4 DEF Answered, Stays
<1>5. CASE EndHit
  BY <1>4, <1>5 DEF EndHit, Whole
<1>6. CASE HandleContinue
  <2>1. gone' = gone /\ pc' \in {"run", "hit"}
    BY <1>4, <1>6 DEF HandleContinue, Stays
  <2> QED
    BY <2>1 DEF Whole
<1>7. CASE Explore
  BY <1>7 DEF Explore, Whole
<1>8. CASE Return \/ SaveBest \/ Visit \/ HandleGoalAchieved \/ UNCHANGED vars
  <2>1. gone' = gone /\ pc' = pc
    BY <1>8 DEF Return, SaveBest, Visit, HandleGoalAchieved, aroundVars, vars
  <2> QED
    BY <2>1 DEF Whole
<1> QED
  BY <1>5, <1>6, <1>7, <1>8 DEF Next

\* What the steps keep of a search that slices; those of the traversal do not cover more than there is.
LEMMA HeldNext ==
  ASSUME TypeInv, Unachieved, Sliding, OnceInv, HeldInv, [Next]_vars,
         Visit => hoj.covered + hoj.most <= config.points /\ hoj.covered + Total <= config.points
  PROVE  HeldInv'
<1>1. CASE Visit
  BY <1>1, VisitHeld
<1>2. CASE SaveBest
  <2>1. pc = "hit" /\ saves # <<>>
    BY <1>2 DEF SaveBest
  <2>2. Backtracks
    BY <2>1 DEF OnceInv, FoundOnce
  <2> QED
    BY <2>2, SlidingOnce
<1>3. CASE UNCHANGED vars
  <2>1. UNCHANGED <<config, open, limited, gone, pc, hoj, todo, ready, waiting, requested>>
    BY <1>3 DEF vars
  <2>2. Unspoilt'
    BY <2>1 DEF HeldInv, Unspoilt
  <2> QED
    BY <2>1, <2>2, HeldBy DEF HeldInv
<1> QED
  BY <1>1, <1>2, <1>3, ExploreHeld, HandleContinueHeld, ReturnHeld, EndHitHeld, HandleGoalHeld DEF Next

LEMMA PointsLeft ==
  ASSUME TypeInv, config.ordered => OrderedInv, ~ config.ordered => FreeInv, Visit
  PROVE  hoj.covered + hoj.most <= config.points /\ hoj.covered + Total <= config.points
<1>1. CASE config.ordered
  <2>1. pc = "hit"
    BY DEF Visit, Looks
  <2>2. hoj.covered + hoj.most <= config.points
    BY <1>1, <2>1 DEF OrderedInv, HitInv
  <2> QED
    BY <1>1, <2>2, TurnHas
<1>2. CASE ~ config.ordered
  BY <1>2, TurnHolds
<1> QED
  BY <1>1, <1>2

\* Nothing that jumpSlice destroyed is used again, and it never climbs above the graph: the leaves
\* that are jumped to below one beginning are at one height, which is at least that of the jump.
THEOREM NothingGoneUsed == Spec => []GraphHeld
<1> DEFINE Inv == /\ TypeInv /\ Unachieved
                  /\ config.ordered => OrderedInv
                  /\ Once => OnceInv
                  /\ Once /\ ~ config.ordered => FreeInv
                  /\ ~ Slices => Whole
                  /\ Sliding => HeldInv
<1>1. Init => Inv
  <2>1. Init => Whole
    BY DEF Init, Whole
  <2>2. Init /\ Sliding => HeldInv
    BY InitHeld DEF Sliding
  <2> QED
    BY <2>1, <2>2, InitTyped, InitUnachieved, InitOrdered, InitOnce, InitFree
<1>2. Inv /\ [Next]_vars => Inv'
  <2> SUFFICES ASSUME Inv, [Next]_vars PROVE Inv'
    OBVIOUS
  <2>1. TypeInv' /\ Unachieved'
    BY TypedNext
  <2>2. config' = config
    BY DEF Next, Explore, HandleContinue, Return, SaveBest, Visit, EndHit, HandleGoalAchieved, aroundVars, vars
  <2>3. config.ordered => OrderedInv'
    BY OrderedNext
  <2>4. (Once' <=> Once) /\ (Slices' <=> Slices) /\ (Sliding' <=> Sliding)
    BY <2>2, SameUnder, SamePlaced DEF Sliding
  <2>5. Once /\ config.ordered => OnceInv'
    BY OnceOrdered
  <2>6. Once /\ ~ config.ordered => OnceInv' /\ FreeInv'
    BY OnceFree
  <2>7. ~ Slices => Whole'
    BY WholeNext
  <2>8. Sliding => HeldInv'
    <3> SUFFICES ASSUME Sliding PROVE HeldInv'
      OBVIOUS
    <3>1. Once
      BY SlidingOnce
    <3>2. Visit => hoj.covered + hoj.most <= config.points /\ hoj.covered + Total <= config.points
      BY <3>1, PointsLeft
    <3> QED
      BY <3>1, <3>2, HeldNext
  <2> QED
    BY <2>1, <2>2, <2>3, <2>4, <2>5, <2>6, <2>7, <2>8
<1>3. Inv => GraphHeld
  BY DEF GraphHeld, Sliding, Whole, HeldInv, Unspoilt
<1> HIDE DEF Inv
<1> QED
  BY <1>1, <1>2, <1>3, PTL DEF Spec

=============================================================================
