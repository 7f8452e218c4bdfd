------------------------------ MODULE Channel ------------------------------
(***************************************************************************)
(* What the buffers of a system promise together: a message put in some    *)
(* buffers is a copy in each, a copy is received from the buffer it was    *)
(* put in, one that has left its buffer comes back only if it was read     *)
(* and is put back, and so none else is received twice, except from a      *)
(* register, which keeps its message.                                      *)
(***************************************************************************)
EXTENDS Naturals

CONSTANT Buffers

VARIABLES
  keepers,  \* the buffers that are registers
  born,     \* how many messages there have been
  transit,  \* the copies in the buffers: pairs of a buffer and a message
  taken,    \* the copies received
  held      \* the messages that were read, which may be put back

vars == <<keepers, born, transit, taken, held>>

Init == keepers \subseteq Buffers /\ born = 0 /\ transit = {} /\ taken = {} /\ held = {}

\* a new message; what it replaces, in a register or as the top of a queue, is gone
Send ==
  /\ born' = born + 1
  /\ transit' \in SUBSET (transit \cup { <<b, born'>> : b \in Buffers })
  /\ UNCHANGED <<taken, held>>

\* a copy is received, and may be read; others are lost with it when their values were refused;
\* what was put back may be in its buffer more than once
Receive ==
  /\ \E copy \in transit :
       /\ taken' = taken \cup {copy}
       /\ transit' \in SUBSET transit
       /\ copy[1] \in keepers \/ copy[2] \in held \/ copy \notin transit'
       /\ held' \in {held, held \cup {copy[2]}}
  /\ UNCHANGED born

Read == \E copy \in transit : held' = held \cup {copy[2]} /\ UNCHANGED <<born, transit, taken>>

\* a message that was read is put in a buffer, in the place of what was there
PutBack ==
  /\ \E n \in held, b \in Buffers : transit' \in SUBSET (transit \cup {<<b, n>>})
  /\ UNCHANGED <<born, taken, held>>

Discard == transit' \in SUBSET transit /\ UNCHANGED <<born, taken, held>>

Next == (Send \/ Receive \/ Read \/ PutBack \/ Discard) /\ UNCHANGED keepers
Spec == Init /\ [][Next]_vars
=============================================================================
