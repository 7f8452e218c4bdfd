-------------------------- MODULE MCWaitingBlock --------------------------
(* Instances of WaitingBlock for TLC. *)
EXTENDS WaitingBlock

Of(h, w) == [d \in Dims |-> IF d = "h" THEN h ELSE w]

Configured(S, P, L) == [strategy : S, period : P, limit : L]

\* "no limit": AVM_NUMERIC_MAX_SIZE_T, the default of every parameter
None == Word - 1

\* small limits and blocks, square or not, and blocks that do not divide limits
Small == Configured({"BFS", "RFS"}, {Of(1, 1), Of(2, 1)}, {Of(2, 2), Of(3, 2)})

\* strategies configured without parameters, or with heights alone
Unlimited == Configured({"ALL", "DFS", "BFS"}, {Of(None, None)}, {Of(None, None)})
HeightOnly == Configured({"DFS", "BFS"}, {Of(2, None)}, {Of(3, None)})

SearchConfigs == Small \cup Unlimited \cup HeightOnly

AllConfigs == Configured({"ALL"}, {Of(1, 1)}, {Of(2, 2)})
DepthConfigs == Configured({"DFS"}, {Of(1, 1)}, {Of(2, 2)})
BreadthConfigs == Configured({"BFS"}, {Of(1, 1)}, {Of(2, 2)})
=============================================================================
