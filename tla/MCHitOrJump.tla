---------------------------- MODULE MCHitOrJump ----------------------------
(* Small graphs, and configurations of the unit that differ from a plain one. *)
EXTENDS HitOrJump

\* two branches of depth three, and two shorter ones
Tree == << 0, 1, 1, 2, 2, 3, 3, 4, 6 >>
PathIn[c \in 0 .. 9] == IF c = 0 THEN {} ELSE {c} \cup PathIn[Tree[c]]

Trace(c1, c2) ==
  [ c \in 1 .. 9 |-> (IF c \in c1 THEN {1} ELSE {}) \cup (IF c \in c2 THEN {2} ELSE {}) ]

\* two points on a path that leads nowhere, and all three on another
Decoy == [ c \in 1 .. 9 |-> CASE c = 2 -> {1} [] c = 5 -> {2} [] c = 8 -> {2, 3} [] OTHER -> {} ]

Plain ==
  [ parent |-> Tree, path |-> [ c \in 1 .. 9 |-> PathIn[c] ],
    sat |-> Trace({2, 5, 6}, {8, 9}), beyond |-> {}, initial |-> <<1>>,
    points |-> 2, ordered |-> TRUE, transitions |-> FALSE, global |-> TRUE,
    delta |-> 1, trialsLimit |-> 99, hitCount |-> 1, jumpCount |-> 1,
    consecutive |-> FALSE, folding |-> TRUE, max |-> FALSE, lucky |-> FALSE,
    final |-> TRUE, slice |-> FALSE, stop |-> TRUE ]

Traces == { Trace({2, 5, 6}, {8, 9}), Trace({4, 9}, {9}), Trace({3, 8}, {2, 4, 7}), Trace({3}, {1}) }

\* with backtracking
Searches ==
  { [Plain EXCEPT !.sat = s, !.ordered = o, !.delta = d, !.hitCount = h, !.jumpCount = j]
    : s \in Traces, o \in BOOLEAN, d \in {1, 2}, h \in {1, 2, 10}, j \in {1, 2} }

\* all traces there are, or hits without jumps
All ==
  { [Plain EXCEPT !.sat = s, !.ordered = o, !.max = (j = 1), !.jumpCount = j, !.delta = d]
    : s \in Traces, o \in BOOLEAN, j \in {0, 1}, d \in {1, 2} }

\* only the points of one context, or only without holes, or few trials
Strict ==
  { [Plain EXCEPT !.sat = s, !.ordered = o, !.folding = f, !.consecutive = ~ f, !.trialsLimit = t]
    : s \in Traces, o \in BOOLEAN, f \in BOOLEAN, t \in {1, 99} }

\* a single try, that slices
Tries ==
  { [Plain EXCEPT !.sat = s, !.ordered = o, !.lucky = TRUE, !.slice = TRUE, !.delta = d,
                  !.hitCount = n, !.jumpCount = n, !.final = x, !.stop = e]
    : s \in Traces, o \in BOOLEAN, d \in 1 .. 3, n \in {1, 2}, x \in BOOLEAN, e \in BOOLEAN }

\* parts of the graph that may not be explored, or that lead nowhere
Limits ==
  { [Plain EXCEPT !.sat = s, !.ordered = o, !.delta = d, !.beyond = b, !.transitions = (b = {}),
                  !.hitCount = h]
    : s \in Traces, o \in BOOLEAN, d \in {1, 2}, h \in {1, 10}, b \in {{}, {4, 7}} }

\* several contexts to begin with, one after the other or at once
Starts ==
  { [Plain EXCEPT !.sat = s, !.ordered = o, !.global = g, !.initial = <<2, 3>>, !.max = m, !.stop = e]
    : s \in Traces, o \in BOOLEAN, g \in BOOLEAN, m \in BOOLEAN, e \in BOOLEAN }

\* a path that seems better than the right one
Decoys ==
  { [Plain EXCEPT !.points = 3, !.sat = Decoy, !.ordered = o, !.delta = d, !.hitCount = h]
    : o \in BOOLEAN, d \in {1, 2}, h \in {1, 10} }

MCConfigs == Decoys \cup Searches \cup All \cup Strict \cup Tries \cup Limits \cup Starts

\* two hits go on at once, of a different point each, and one point comes twice below its hit
Goals == { [Plain EXCEPT !.sat = Trace({2, 8}, {3}), !.ordered = FALSE, !.hitCount = 2] }
=============================================================================
