-------------------------- MODULE MCSymbexLoop --------------------------
(* Values of the constants of SymbexLoop for model checking. *)
EXTENDS SymbexLoop, TLC

NoUnits == <<>>
OneJump == <<"hoj">>
OneCoverage == <<"coverage">>
JumpThenCoverage == <<"hoj", "coverage">>
SelectThenFilter == <<"projection", "filter">>
OneFilter == <<"filter">>
CoverageThenFilter == <<"coverage", "filter">>

\* up to two children, with the statuses that matter together
Branching == { <<"OK">>, <<"OK", "OK">> }
Statuses == { <<"OK", "EXIT">>, <<"JOIN", "OK">>, <<"NOTHING", "OK">>,
              <<"ERROR", "OK">>, <<"OK", "EXIT_ALL">>, <<"OK", "OK">> }
Joining == Branching \cup { <<"JOIN", "OK">>, <<"OK", "EXIT">> }
=============================================================================
