-------------------------- MODULE MCWaitingTable --------------------------
(* Instances of WaitingTable for TLC. *)
EXTENDS WaitingTable

BasicConfigs ==
  [basic : Basic \cup {"ORDER"}, weighted : {FALSE}, count : {1}, requeues : {FALSE}]

Inner == {"BFS", "FIRST", "ALL"}

\* as many lists as weights, fewer, and more; a coverage unit asks for requeues when
\* the table has a list for every weight it walks over
WeightConfigs ==
  [basic : Inner, weighted : {TRUE}, count : {0, 3}, requeues : {FALSE}]
    \cup [basic : Inner, weighted : {TRUE}, count : {5, 8}, requeues : {TRUE}]

AllConfigs == BasicConfigs \cup WeightConfigs

\* fewer lists than the walk of a requeue looks at
SmallConfigs == [basic : {"BFS"}, weighted : {TRUE}, count : {3}, requeues : {TRUE}]
=============================================================================
