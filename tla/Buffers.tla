------------------------------ MODULE Buffers ------------------------------
(***************************************************************************)
(* The message buffers of the computer (fml/buffer) as values: a buffer is *)
(* a list of messages with a capacity, and each operation is a function of *)
(* the buffer and of its policy.  FIFO and MULTIFIFO have their top at the *)
(* front, the other queues at the back; SET and MULTISET are searched; RAM *)
(* is a register: it holds one message at most, which no pop takes out.    *)
(***************************************************************************)
EXTENDS Naturals, FiniteSets, SequencesExt

CONSTANTS
  Machines,  \* the machines that send and receive
  Above,     \* a machine and its ancestors: RuntimeID::hasAsAncestor
  NoOne      \* RuntimeID::REF_NULL

Searched == {"SET", "MULTISET"}
Queues == {"FIFO", "LIFO", "MULTIFIFO", "MULTILIFO"} \cup Searched
Policies == Queues \cup {"RAM"}

\* what the program compares two messages by: all but who they are (Message::equals)
SameMessage(m, n) == [m EXCEPT !.id = 0] = [n EXCEPT !.id = 0]

\* Message::isReceiver, isSender, isMID, isCompatible(mid, receiver)
IsReceiver(m, r) == m.to = NoOne \/ r = NoOne \/ m.to \in Above[r]
IsSender(m, s) == s \in Above[m.from]
IsMID(m, S) == m.routed /\ m.mid \in S
IsCompatible(m, mid, r) == IsMID(m, {mid}) /\ IsReceiver(m, r)

\* the lists that keep the places K of s, in order: there is one
Kept(s, K) ==
  { [ n \in DOMAIN f |-> s[f[n]] ] :
      f \in { g \in [1 .. Cardinality(K) -> K] : \A i, j \in DOMAIN g : i < j => g[i] < g[j] } }

-----------------------------------------------------------------------------
\* does push return true
Accepts(p, b) == p = "RAM" \/ Len(b.msgs) < b.cap

\* Mutant of Pushed: FIFO and LIFO differ in their push, not in their top.
Pushed_AtFront(p, b, m) ==
  IF p = "FIFO" THEN [b EXCEPT !.msgs = <<m>> \o @] ELSE [b EXCEPT !.msgs = Append(@, m)]

\* push of a buffer that accepts
Pushed(p, b, m) ==
  CASE p = "RAM" -> [b EXCEPT !.msgs = <<m>>]
    [] p = "SET" /\ (\E i \in DOMAIN b.msgs : SameMessage(m, b.msgs[i])) -> b
    [] OTHER     -> [b EXCEPT !.msgs = Append(@, m)]

Push(p, b, m) == IF Accepts(p, b) THEN Pushed(p, b, m) ELSE b

\* where top() and pop() are; 0 if the buffer is empty
TopPlace(p, b) == IF p \in {"FIFO", "MULTIFIFO"} /\ b.msgs # <<>> THEN 1 ELSE Len(b.msgs)

\* top(msg): the top is replaced, with no look at the rest of the buffer
AssignTop(p, b, m) ==
  IF p = "RAM" THEN [b EXCEPT !.msgs = <<m>>] ELSE [b EXCEPT !.msgs[TopPlace(p, b)] = m]

\* the place, if any, where pop(mid, receiver) finds its message
PopPlaces(p, b, mid, r) ==
  LET At(i) == IsCompatible(b.msgs[i], mid, r)
  IN IF p \in Searched
     THEN { i \in DOMAIN b.msgs : At(i) /\ \A j \in 1 .. i - 1 : ~ At(j) }
     ELSE { i \in {TopPlace(p, b)} \ {0} : At(i) }

\* and where isTop(mid, receiver) does: MULTIFIFO searches for the top, not for the pop
IsTop(p, b, mid, r) ==
  IF p = "MULTIFIFO"
  THEN \E i \in DOMAIN b.msgs : IsCompatible(b.msgs[i], mid, r)
  ELSE PopPlaces(p, b, mid, r) # {}

\* Mutant of Taken: a queue is read like a register.
Taken_Reads(p, b, i) == b

\* pop takes out the message at place i; a register keeps it
Taken(p, b, i) ==
  IF p = "RAM" THEN b ELSE [b EXCEPT !.msgs = RemoveAt(@, i)]

\* Mutant of Resized: the capacity shrinks, the list does not.
Resized_KeepsAll(p, b, n) == IF p = "RAM" THEN b ELSE [b EXCEPT !.cap = n]

\* resize: a buffer that holds more is popped down to its new capacity
Resized(p, b, n) ==
  IF p = "RAM" THEN b
  ELSE [b EXCEPT !.cap = n,
                 !.msgs = IF Len(@) <= n THEN @
                          ELSE IF TopPlace(p, b) = 1 THEN SubSeq(@, Len(@) - n + 1, Len(@))
                          ELSE SubSeq(@, 1, n)]

-----------------------------------------------------------------------------
(* popBefore: machine r, which expects the mids S, skips what it does not expect. *)

IsExpected(m, S, r) == IsReceiver(m, r) /\ IsMID(m, S)
Skippable(m, S, r) == IsReceiver(m, r) /\ ~ IsMID(m, S)

\* Mutant of SkippedPlaces: every queue is skipped from its front.
SkippedPlaces_FromFront(p, s, S, r) == { i \in DOMAIN s : \A j \in 1 .. i : Skippable(s[j], S, r) }

\* Mutant of SkippedPlaces: whose message it is does not count.
SkippedPlaces_Anyones(p, s, S, r) == { i \in DOMAIN s : \A j \in 1 .. i : ~ IsMID(s[j], S) }

(***************************************************************************)
(* FIFO and LIFO stop at a message of another machine, MULTIFIFO passes    *)
(* over it; a set is left alone as soon as it holds an expected message.   *)
(* MULTILIFO moves its reverse iterator before it looks: the top is never  *)
(* looked at, and what is erased is the element above the one looked at.   *)
(***************************************************************************)
SkippedPlaces(p, s, S, r) ==
  CASE p = "LIFO"       -> { i \in DOMAIN s : \A j \in i .. Len(s) : Skippable(s[j], S, r) }
    [] p = "MULTIFIFO"  -> { i \in DOMAIN s : /\ Skippable(s[i], S, r)
                                              /\ \A j \in 1 .. i - 1 : ~ IsExpected(s[j], S, r) }
    [] p \in Searched   -> { i \in DOMAIN s : /\ Skippable(s[i], S, r)
                                              /\ \A j \in DOMAIN s : ~ IsExpected(s[j], S, r) }
    [] p = "MULTILIFO"  -> { i \in 2 .. Len(s) :
                               /\ Skippable(s[i - 1], S, r)
                               /\ \A j \in i - 1 .. Len(s) - 1 : ~ IsExpected(s[j], S, r) }
    [] OTHER            -> { i \in DOMAIN s : \A j \in 1 .. i : Skippable(s[j], S, r) }

\* The loop of MULTILIFO ends at an expected message below the top, or reads past the list
Ends(p, s, S, r) ==
  p = "MULTILIFO" => \E i \in 1 .. Len(s) - 1 : IsExpected(s[i], S, r)

\* it also goes on from an iterator to what it has erased
MayCrash(p, s, S, r) ==
  p = "MULTILIFO" /\ (~ Ends(p, s, S, r) \/ SkippedPlaces(p, s, S, r) # {})

\* the lists popBefore may end with
AfterSkip(p, s, S, r) ==
  IF Ends(p, s, S, r) THEN Kept(s, DOMAIN s \ SkippedPlaces(p, s, S, r)) ELSE {}

-----------------------------------------------------------------------------
\* remove(signal)
Removed(s, mid) == Kept(s, { i \in DOMAIN s : s[i].mid # mid })

=============================================================================
