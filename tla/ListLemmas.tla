---------------------------- MODULE ListLemmas ----------------------------
(* Facts about sequences that the proofs of several components use.       *)
EXTENDS Integers, SequencesExt, SequenceTheorems, WellFoundedInduction, TLAPS

\* Erasing one place of a list leaves a list of the same contexts, one shorter.
LEMMA RemoveAtType ==
  ASSUME NEW S, NEW s \in Seq(S), NEW i \in 1 .. Len(s)
  PROVE  RemoveAt(s, i) \in Seq(S) /\ Len(RemoveAt(s, i)) = Len(s) - 1
<1> DEFINE front == SubSeq(s, 1, i - 1)
           back == SubSeq(s, i + 1, Len(s))
<1>1. front \in Seq(S) /\ Len(front) = i - 1
  BY SubSeqProperties
<1>2. back \in Seq(S) /\ Len(back) = Len(s) - i
  BY SubSeqProperties
<1>3. front \o back \in Seq(S) /\ Len(front \o back) = Len(front) + Len(back)
  BY <1>1, <1>2, ConcatProperties
<1>4. RemoveAt(s, i) = front \o back
  BY DEF RemoveAt
<1>5. Len(s) \in Nat /\ i \in Nat
  BY LenProperties
<1> HIDE DEF front, back
<1>6. Len(front \o back) = Len(s) - 1
  BY <1>1, <1>2, <1>3, <1>5
<1> QED
  BY <1>3, <1>4, <1>6

\* The places before an erased one keep their element, the others move down.
LEMMA RemoveAtElements ==
  ASSUME NEW S, NEW s \in Seq(S), NEW i \in 1 .. Len(s), NEW j \in 1 .. Len(s) - 1
  PROVE  RemoveAt(s, i)[j] = IF j < i THEN s[j] ELSE s[j + 1]
<1> DEFINE front == SubSeq(s, 1, i - 1)
           back == SubSeq(s, i + 1, Len(s))
<1>1. front \in Seq(S) /\ Len(front) = i - 1 /\ \A k \in 1 .. i - 1 : front[k] = s[k]
  BY SubSeqProperties
<1>2. /\ back \in Seq(S) /\ Len(back) = Len(s) - i
      /\ \A k \in 1 .. Len(s) - i : back[k] = s[i + k]
  BY SubSeqProperties
<1>3. /\ Len(front \o back) = Len(front) + Len(back)
      /\ \A k \in 1 .. Len(front) + Len(back) :
           (front \o back)[k] = IF k <= Len(front) THEN front[k] ELSE back[k - Len(front)]
  BY <1>1, <1>2, ConcatProperties
<1>4. RemoveAt(s, i) = front \o back
  BY DEF RemoveAt
<1>5. Len(s) \in Nat
  BY LenProperties
<1> HIDE DEF front, back
<1>6. CASE j < i
  <2>1. j \in 1 .. i - 1 /\ j \in 1 .. Len(front) + Len(back) /\ j <= Len(front)
    BY <1>1, <1>2, <1>5, <1>6
  <2>2. (front \o back)[j] = front[j] /\ front[j] = s[j]
    BY <1>1, <1>3, <2>1
  <2> QED
    BY <1>4, <1>6, <2>2
<1>7. CASE ~ (j < i)
  <2> DEFINE k == j - Len(front)
  <2>1. /\ j \in 1 .. Len(front) + Len(back) /\ ~ (j <= Len(front))
        /\ k \in 1 .. Len(s) - i /\ i + k = j + 1
    BY <1>1, <1>2, <1>5, <1>7
  <2>2. (front \o back)[j] = back[k] /\ back[k] = s[i + k]
    BY <1>2, <1>3, <2>1
  <2> QED
    BY <1>4, <1>7, <2>1, <2>2
<1> QED
  BY <1>6, <1>7

\* What an erasure leaves, with what it erased, is what there was.
LEMMA RemoveAtHeld ==
  ASSUME NEW S, NEW s \in Seq(S), NEW i \in 1 .. Len(s)
  PROVE  { RemoveAt(s, i)[j] : j \in DOMAIN RemoveAt(s, i) } \cup {s[i]}
           = { s[j] : j \in DOMAIN s }
<1> DEFINE r == RemoveAt(s, i)
<1>1. r \in Seq(S) /\ Len(r) = Len(s) - 1
  BY RemoveAtType
<1>2. \A j \in 1 .. Len(s) - 1 : r[j] = IF j < i THEN s[j] ELSE s[j + 1]
  BY RemoveAtElements
<1>3. DOMAIN r = 1 .. Len(s) - 1 /\ DOMAIN s = 1 .. Len(s) /\ Len(s) \in Nat
  BY <1>1, LenProperties
<1> HIDE DEF r
<1>4. ASSUME NEW j \in 1 .. Len(s)
      PROVE  s[j] = s[i] \/ \E k \in 1 .. Len(s) - 1 : r[k] = s[j]
  <2>1. CASE j < i
    <3>1. j \in 1 .. Len(s) - 1 /\ r[j] = s[j]
      BY <1>2, <1>3, <2>1
    <3> QED
      BY <3>1
  <2>2. CASE j = i
    BY <2>2
  <2>3. CASE j > i
    <3>1. j - 1 \in 1 .. Len(s) - 1 /\ ~ (j - 1 < i) /\ (j - 1) + 1 = j
      BY <1>3, <2>3
    <3>2. r[j - 1] = s[j]
      BY <1>2, <3>1
    <3> QED
      BY <3>1, <3>2
  <2> QED
    BY <1>3, <2>1, <2>2, <2>3
<1>5. ASSUME NEW j \in 1 .. Len(s) - 1
      PROVE  \E k \in 1 .. Len(s) : r[j] = s[k]
  <2>1. j \in 1 .. Len(s) /\ j + 1 \in 1 .. Len(s)
    BY <1>3
  <2> QED
    BY <1>2, <2>1
<1>6. \A x \in { r[j] : j \in DOMAIN r } \cup {s[i]} : x \in { s[j] : j \in DOMAIN s }
  BY <1>3, <1>5
<1>7. \A x \in { s[j] : j \in DOMAIN s } : x \in { r[j] : j \in DOMAIN r } \cup {s[i]}
  BY <1>3, <1>4
<1>8. { r[j] : j \in DOMAIN r } \cup {s[i]} = { s[j] : j \in DOMAIN s }
  BY <1>6, <1>7
<1> QED
  BY <1>8 DEF r

\* A set of natural numbers has a least one.
LEMMA LeastNatural ==
  ASSUME NEW T, T \subseteq Nat, T # {}
  PROVE  \E x \in T : \A y \in T : x <= y
<1>1. PICK R : /\ IsWellFoundedOn(R, Nat)
               /\ R = { p \in Nat \X Nat : p[1] < p[2] }
  BY NatLessThanWellFounded, Zenon DEF OpToRel
<1>2. PICK x \in T : \A y \in T : ~ (<<y, x>> \in R)
  BY <1>1, WFMin, Zenon
<1>3. ASSUME NEW y \in T PROVE x <= y
  <2>1. x \in Nat /\ y \in Nat
    OBVIOUS
  <2>2. ~ (y < x)
    BY <1>1, <1>2, <2>1
  <2> QED
    BY <2>1, <2>2
<1> QED
  BY <1>3

=============================================================================
