-------------------------- MODULE MCMessageExchange --------------------------
(* Programs for MessageExchange, as instances for TLC. *)
EXTENDS MessageExchange, TLC

Each(S, x) == [ e \in S |-> x ]
Alone == [ m \in Machines |-> {m} ]
SomeBuffer == CHOOSE b \in BufferNames : TRUE

\* what a program has if nothing else is said: FIFO buffers of two places, and no port read
Plain ==
  [ policy |-> Each(BufferNames, "FIFO"), capacity |-> Each(BufferNames, 2),
    protocol |-> Each(Mids, "buffer"),
    out |-> Each(Mids, <<>>), in |-> Each(Machines, Each(Mids, <<>>)),
    enabled |-> {}, from |-> Each(Machines, SomeBuffer),
    expects |-> Each(Machines, {}), saves |-> Each(Machines, {}),
    runs |-> Each(Machines, {}), named |-> {},
    mayRefuse |-> FALSE, maxSent |-> 3, maxGot |-> 3 ]

\* A uses a FIFO and a LIFO in every way; b may be in either, and is looked for in the LIFO first
Variables ==
  [ Plain EXCEPT
      !.policy = "l" :> "LIFO" @@ @, !.capacity = "l" :> 1 @@ @,
      !.out = "a" :> <<"f">> @@ "b" :> <<"f", "l">>,
      !.in = "A" :> ("a" :> <<"f">> @@ "b" :> <<"l", "f">>) @@ @,
      !.runs = "A" :> {"output", "input", "push", "pop", "remove", "clear", "resize"} @@ @,
      !.named = {"f", "l"},
      !.mayRefuse = TRUE ]

\* two registers beside a FIFO; C skips on one of them, where nothing it pops is gone (only b is
\* sent there, and it saves a, so that what is saved stays bounded)
RAMs ==
  [ Plain EXCEPT
      !.policy = "l" :> "RAM" @@ "m" :> "RAM" @@ @, !.capacity = Each(BufferNames, 1),
      !.protocol = "a" :> "buffer" @@ "b" :> "broadcast",
      !.out = "a" :> <<"f", "l">> @@ "b" :> <<"l", "m">>,
      !.in = "A" :> ("a" :> <<"f", "l">> @@ "b" :> <<"l", "m">>) @@ @,
      !.runs = "A" :> {"input", "assignTop"} @@ "B" :> {"output", "pop"} @@ @,
      !.named = {"l", "m"},
      !.enabled = {"C"}, !.from = "C" :> "m" @@ @, !.saves = "C" :> {"a"} @@ @,
      !.maxGot = 2 ]

\* A reads messages whole and puts them back, in a FIFO and a LIFO, which B reads
Returning ==
  [ Plain EXCEPT
      !.policy = "l" :> "LIFO" @@ @, !.capacity = "l" :> 1 @@ @,
      !.out = Each(Mids, <<"f">>),
      !.in = "B" :> Each(Mids, <<"f", "l">>) @@ @,
      !.runs = "A" :> {"popMessage", "top", "pushMessage", "assignMessage"} @@ "B" :> {"input"} @@
               "P" :> {"output"} @@ @,
      !.named = {"f", "l"},
      !.maxSent = 2, !.maxGot = 2 ]

\* each machine skips all but a in its buffer, and reads that of the next one
Skipping ==
  [ Plain EXCEPT
      !.policy = "l" :> "LIFO" @@ "m" :> "MULTIFIFO" @@ "s" :> "SET" @@ @,
      !.capacity = Each(BufferNames, 3),
      !.out = Each(Mids, <<"f", "l", "m", "s">>),
      !.in = "A" :> Each(Mids, <<"f", "l">>) @@ "B" :> Each(Mids, <<"l", "m">>) @@
             "C" :> Each(Mids, <<"m", "s">>) @@ "D" :> Each(Mids, <<"s", "f">>) @@ @,
      !.enabled = {"A", "B", "C", "D"},
      !.from = "A" :> "f" @@ "B" :> "l" @@ "C" :> "m" @@ "D" :> "s" @@ @,
      !.expects = Each(Machines, {"a"}),
      !.runs = "P" :> {"output", "outputTo"} @@ Each(Machines, {"input"}),
      !.maxGot = 1 ]

\* receivers of the same multicasts; D waits for a, would save b, and so may wait for ever
Casting ==
  [ Plain EXCEPT
      !.capacity = "f" :> 1 @@ "l" :> 2 @@ Each(BufferNames, 5),
      !.protocol = Each(Mids, "multicast"),
      !.out = Each(Mids, <<"f", "l", "s">>),
      !.in = "A" :> Each(Mids, <<"f">>) @@ "B" :> Each(Mids, <<"l">>) @@ "D" :> Each(Mids, <<"s">>) @@ @,
      !.enabled = {"D"}, !.from = "D" :> "s" @@ @,
      !.expects = "D" :> {"a"} @@ @, !.saves = "D" :> {"b"} @@ @,
      !.runs = "P" :> {"output"} @@ Each(Machines, {"input"}),
      !.maxSent = 4, !.maxGot = 10 ]

\* A saves b and drops what is not b, B reads a MULTILIFO
Saving ==
  [ Plain EXCEPT
      !.policy = "m" :> "MULTILIFO" @@ @,
      !.out = Each(Mids, <<"f", "m">>), 
      !.in = "A" :> Each(Mids, <<"f", "m">>) @@ "B" :> Each(Mids, <<"f", "m">>) @@ @,
      !.enabled = {"A", "B"}, !.from = "A" :> "f" @@ "B" :> "m" @@ @,
      !.expects = "B" :> {"a"} @@ @, !.saves = "A" :> {"b"} @@ @,
      !.runs = "A" :> {"input", "inputFrom"} @@ "B" :> {"input"} @@ "P" :> {"output", "outputTo"} @@ @,
      !.maxGot = 2 ]

Programs == {Variables, RAMs, Returning, Skipping, Casting, Saving}

\* the same as Saving, where A is alone
SavingAlone ==
  [ Saving EXCEPT !.enabled = {"A"}, !.runs = "A" :> {"input"} @@ "P" :> {"output"} @@ @, !.maxSent = 2 ]
SavingPrograms == {SavingAlone}
=============================================================================
