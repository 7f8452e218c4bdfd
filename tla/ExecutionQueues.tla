-------------------------- MODULE ExecutionQueues --------------------------
(***************************************************************************)
(* The lists of execution contexts of one symbolic execution engine, as    *)
(* one function from list names to sequences: the lists of ExecutionQueue  *)
(* (famcore/queue/ExecutionQueue.h), the two job lists of SymbexProcessor  *)
(* and SymbexController (sew/SymbexJob.h), the list of MainProcessorUnit,  *)
(* and the lists a hit-or-jump unit parks contexts in.  Every operation    *)
(* of the code on them is made of those below.                             *)
(***************************************************************************)
EXTENDS Naturals, SequencesExt

Queues ==
  { "waiting",   \* mWaitingStrategy, whatever its strategy
    "ready",     \* mReadyQueue
    "working",   \* SymbexProcessor::mSymbexContexts
    "analysed",  \* SymbexController::mSymbexContexts
    "result",    \* mResultQueue
    "ante",      \* ExecutionQueue::mAnteWaitingQueue
    "main",      \* MainProcessorUnit::mAnteWaitingQueue
    "failed",    \* mFailedQueue
    "leaf",      \* AvmHitOrJumpProcessor::mRelativeLeafEC
    "root",      \* AvmHitOrJumpProcessor::mRelativeRootEC
    "backtrack", \* AvmHitOrJumpProcessor::mBacktrackHitEC
    "buffer" }   \* AvmHitOrJumpProcessor::mBufferLocalRootEC

\* append of an element the lists do not hold yet
Add(q, b, c) == [q EXCEPT ![b] = Append(@, c)]

\* ecQueueIt = ecQueue->erase(ecQueueIt)
Drop(q, a, i) == [q EXCEPT ![a] = RemoveAt(@, i)]

\* append to list b what is erased (or popped) at place i of list a
Move(q, a, i, b) == Add(Drop(q, a, i), b, q[a][i])

\* Mutant of Splice: the contexts are copied and stay in a.
Splice_Copies(q, a, b) == [q EXCEPT ![b] = @ \o q[a]]

\* List::splice: b takes all of a, in order; a is left empty
Splice(q, a, b) == [q EXCEPT ![b] = @ \o q[a], ![a] = <<>>]

\* clear of the lists named in S
Clear(q, S) == [n \in Queues |-> IF n \in S THEN <<>> ELSE q[n]]

Held(q, a) == { q[a][i] : i \in DOMAIN q[a] }
InSome(q, S) == UNION { Held(q, a) : a \in S }

\* the sequence s of distinct contexts less c
Without(s, c) ==
  IF c \in Range(s) THEN RemoveAt(s, CHOOSE i \in DOMAIN s : s[i] = c) ELSE s

\* what is left of s when any of its places are dropped
SomeOf(s) ==
  { t \in SeqOf(Range(s), Len(s)) :
      \E f \in [DOMAIN t -> DOMAIN s] :
        /\ \A i, j \in DOMAIN t : i < j => f[i] < f[j]
        /\ \A i \in DOMAIN t : t[i] = s[f[i]] }

\* the sequences of at most n distinct elements of S
Draws(S, n) == { s \in SeqOf(S, n) : IsInjective(s) }

\* List::remove of all that is in S: the one sequence in this set
Less(s, S) ==
  LET left == { k \in DOMAIN s : s[k] \notin S }
  IN { [i \in DOMAIN f |-> s[f[i]]] :
         f \in { g \in [1 .. Cardinality(left) -> left] :
                  \A i, j \in DOMAIN g : i < j => g[i] < g[j] } }

\* no context is twice in a list, or in two lists
Disjoint(q) ==
  \A a, b \in Queues : \A i \in DOMAIN q[a], j \in DOMAIN q[b] :
    q[a][i] = q[b][j] => a = b /\ i = j

=============================================================================
