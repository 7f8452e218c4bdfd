-------------------------- MODULE MessageExchange --------------------------
(***************************************************************************)
(* The communication statements of the symbolic computer on message        *)
(* buffers (computer/primitive/AvmCommunicationFactory, Primitive,         *)
(* AvmInputEnabledPrimitive, AvmBufferPrimitive), on one symbolic path:    *)
(* a statement that has several successors is followed into any of them,   *)
(* one that is not satisfied ends the path and is no step.                 *)
(***************************************************************************)
EXTENDS Buffers

CONSTANTS
  Mids, Vals,   \* messages: the port, with the routing it has, and a value
  BufferNames,
  Configs       \* programs: the tables their compilation gives, and what they run

VARIABLES
  config,  \* the program, chosen once
  buf,     \* the buffers of the current ExecutionData
  pc,      \* "run", or where input_enabled is: "skipping", "inner"; "crashed"
  who,     \* the machine that runs input_enabled
  saved,   \* saveMessages
  sent,    \* how many messages were built
  got,     \* history: the messages received, with the buffer they came from
  held     \* the messages that were read into variables of type message

vars == <<config, buf, pc, who, saved, sent, got, held>>

Statement ==
  {"output", "outputTo", "input", "inputFrom", "push", "assignTop", "pop", "remove", "clear", "resize",
   "popMessage", "top", "pushMessage", "assignMessage"}   \* those on a variable of type message

Config ==
  [ policy : [BufferNames -> Policies], capacity : [BufferNames -> Nat],
    protocol : [Mids -> {"buffer", "broadcast", "multicast"}],
    out : [Mids -> Seq(BufferNames)],             \* the buffers of an output port
    in : [Machines -> [Mids -> Seq(BufferNames)]], \* and of an input port, in order
    enabled : SUBSET Machines,                    \* who runs under input_enabled,
    from : [Machines -> BufferNames],             \* on which buffer,
    expects : [Machines -> SUBSET Mids], saves : [Machines -> SUBSET Mids],
    runs : [Machines -> SUBSET Statement],
    named : SUBSET BufferNames,                   \* the buffers that statements name
    mayRefuse : BOOLEAN,                          \* the variable of an input may refuse a value
    maxSent : Nat, maxGot : Nat ]                 \* bounds of the messages sent and received

Policy == config.policy
Protocol == config.protocol
Out == config.out
In == config.in
InputEnabled == config.enabled
EnabledBuffer == config.from
Expects == config.expects
Saves == config.saves

ASSUME ExchangeAssumption ==
  /\ Above \in [Machines -> SUBSET Machines] /\ NoOne \notin Machines
  /\ \A c \in Configs : c \in Config

Message ==
  [ id : Nat, mid : Mids, routed : BOOLEAN, val : Vals,
    from : Machines, to : Machines \cup {NoOne} ]
Buffer == [ msgs : Seq(Message), cap : Nat ]
Receipt == [ msg : Message, buffer : BufferNames, by : Machines, from : Machines \cup {NoOne} ]

Init ==
  /\ config \in Configs
  /\ buf = [ b \in BufferNames |-> [ msgs |-> <<>>, cap |-> config.capacity[b] ] ]
  /\ pc = "run" /\ who = NoOne /\ saved = <<>>
  /\ sent = 0 /\ got = <<>> /\ held = {}

-----------------------------------------------------------------------------
(* A machine runs a statement by itself, or inside of its input_enabled. *)

Runs(m, statement) ==
  /\ statement \in config.runs[m]
  /\ IF m \in InputEnabled THEN pc = "inner" /\ who = m ELSE pc = "run"

New(m, mid, v, r) ==
  [ id |-> sent + 1, mid |-> mid, routed |-> TRUE, val |-> v, from |-> m, to |-> r ]

\* a message that a statement puts in a buffer by name: no routing, its MID is 0
Unrouted(m, mid, v) == [New(m, mid, v, NoOne) EXCEPT !.routed = FALSE]

Built == sent < config.maxSent /\ sent' = sent + 1

\* the buffers of S that accept get the message
PushedIn(S, msg) ==
  [ b \in BufferNames |-> IF b \in S THEN Push(Policy[b], buf[b], msg) ELSE buf[b] ]
Accepting(S) == { b \in S : Accepts(Policy[b], buf[b]) }

\* pushMessage_buffer, _unicast, _anycast: a successor for each buffer that accepts
PushOne(S, msg) == \E b \in Accepting(S) : buf' = PushedIn({b}, msg)

\* pushMessage_broadcast: who is full misses the message
PushSome(S, msg) == Accepting(S) # {} /\ buf' = PushedIn(S, msg)

\* Mutant of PushAll: the test of multicast is that of broadcast.
PushAll_AsSome(S, msg) == Accepting(S) # {} /\ buf' = PushedIn(S, msg)

\* pushMessage_multicast: all or nothing
PushAll(S, msg) == Accepting(S) = S /\ buf' = PushedIn(S, msg)

Output(m, mid, v) ==
  /\ Runs(m, "output") /\ Built
  /\ LET msg == New(m, mid, v, NoOne)
         S == Range(Out[mid])
     IN CASE Protocol[mid] = "buffer"    -> PushOne(S, msg)
          [] Protocol[mid] = "broadcast" -> PushSome(S, msg)
          [] OTHER                       -> PushAll(S, msg)
  /\ UNCHANGED <<config, pc, who, saved, got, held>>

\* pushMessageTo_buffer, _multicast: all the buffers of the receiver; _broadcast gives no successor
OutputTo(m, r, mid, v) ==
  /\ Runs(m, "outputTo") /\ Built
  /\ Protocol[mid] # "broadcast"
  /\ PushSome(Range(Out[mid]) \cap Range(In[r][mid]), New(m, mid, v, r))
  /\ UNCHANGED <<config, pc, who, saved, got, held>>

-----------------------------------------------------------------------------
\* where pop(mid) of a buffer takes its message; a set may be popped from any place
Found(b, mid, m) ==
  IF Policy[b] \in Searched
  THEN { i \in DOMAIN buf[b].msgs : IsCompatible(buf[b].msgs[i], mid, m) }
  ELSE PopPlaces(Policy[b], buf[b], mid, m)

Receive(m, b, i, s) ==
  /\ Len(got) < config.maxGot
  /\ got' = Append(got, [ msg |-> buf[b].msgs[i], buffer |-> b, by |-> m, from |-> s ])

\* the message at place P[b] is taken from each buffer b of P
TakenFrom(P) ==
  [ b \in BufferNames |->
      IF b \in DOMAIN P THEN Taken(Policy[b], buf[b], P[b]) ELSE buf[b] ]

(***************************************************************************)
(* popMessage_buffer: the buffers are tried in order.  Where the variable  *)
(* of the statement refuses the value the next buffer is tried, and the    *)
(* message that was refused is out of a buffer of policy FIFO or LIFO.     *)
(***************************************************************************)
Input(m, mid) ==
  /\ Runs(m, "input")
  /\ \E k \in DOMAIN In[m][mid] :
       LET b == In[m][mid][k]
           earlier == { In[m][mid][j] : j \in 1 .. k - 1 }
           refused == { c \in earlier : Found(c, mid, m) # {} }
           popped == { c \in refused : Policy[c] \notin Searched }
       IN /\ refused = {} \/ config.mayRefuse
          /\ \E i \in Found(b, mid, m) :
               /\ buf' = TakenFrom([ c \in popped \cup {b} |->
                           IF c = b THEN i ELSE TopPlace(Policy[c], buf[c]) ])
               /\ Receive(m, b, i, NoOne)
  /\ UNCHANGED <<config, pc, who, saved, sent, held>>

(***************************************************************************)
(* popMessageFrom_buffer: the top of the first buffer that has one.  From  *)
(* the sender asked for it is popped, if it is also the message asked for; *)
(* from another sender it is read as it is, and stays in the buffer.       *)
(***************************************************************************)
InputFrom(m, s, mid) ==
  /\ Runs(m, "inputFrom")
  /\ \E k \in DOMAIN In[m][mid] :
       LET b == In[m][mid][k]
           Top(c) == TopPlace(Policy[c], buf[c])
           Asked(c) == Top(c) # 0 /\ IsSender(buf[c].msgs[Top(c)], s)
           Read(c) == Top(c) # 0 /\ ~ IsSender(buf[c].msgs[Top(c)], s)
           Popped(c) == IF Asked(c) THEN PopPlaces(Policy[c], buf[c], mid, m) ELSE {}
       IN /\ \A j \in 1 .. k - 1 : ~ Read(In[m][mid][j]) /\ Popped(In[m][mid][j]) = {}
          /\ \/ \E i \in Popped(b) :
                  buf' = TakenFrom([ c \in {b} |-> i ]) /\ Receive(m, b, i, s)
             \/ Read(b) /\ Receive(m, b, Top(b), s) /\ UNCHANGED buf
  /\ UNCHANGED <<config, pc, who, saved, sent, held>>

\* computePresence for one buffer of a port whose machine is, or is not, input_enabled
Present(m, b, mid) ==
  IF m \in InputEnabled
  THEN \E n \in Range(buf[b].msgs) : IsCompatible(n, mid, m)
  ELSE IsTop(Policy[b], buf[b], mid, m)

-----------------------------------------------------------------------------
(* input_enabled: the code of a machine, run after skipping what it does not expect. *)

Enter(m) ==
  /\ pc = "run" /\ who' = m
  /\ UNCHANGED <<config, saved, sent, got, held>>
  /\ LET b == EnabledBuffer[m]
         p == Policy[b]
     IN \/ buf[b].msgs = <<>> /\ pc' = "inner" /\ UNCHANGED buf
        \/ buf[b].msgs # <<>> /\ Saves[m] # {} /\ pc' = "skipping" /\ UNCHANGED buf
        \/ /\ buf[b].msgs # <<>> /\ Saves[m] = {}
           /\ \E left \in AfterSkip(p, buf[b].msgs, Expects[m], m) :
                buf' = [buf EXCEPT ![b].msgs = left]
           /\ pc' = "inner"
        \/ /\ buf[b].msgs # <<>> /\ Saves[m] = {}
           /\ MayCrash(p, buf[b].msgs, Expects[m], m)
           /\ pc' = "crashed" /\ UNCHANGED buf

Top == LET b == EnabledBuffer[who] IN buf[b].msgs[TopPlace(Policy[b], buf[b])]
PopTop ==
  LET b == EnabledBuffer[who]
  IN buf' = [buf EXCEPT ![b] = Taken(Policy[b], @, TopPlace(Policy[b], @))]

(***************************************************************************)
(* The loop with messages to save.  Where some message is expected, a top  *)
(* that is not is neither saved nor popped: the round changes nothing.     *)
(***************************************************************************)
SkipOne ==
  /\ pc = "skipping"
  /\ UNCHANGED <<config, who, sent, got, held>>
  /\ LET b == EnabledBuffer[who]
     IN \/ /\ buf[b].msgs # <<>> => IsMID(Top, Expects[who])
           /\ pc' = "inner" /\ UNCHANGED <<buf, saved>>
        \/ /\ buf[b].msgs # <<>> /\ Expects[who] # {} /\ ~ IsMID(Top, Expects[who])
           /\ UNCHANGED <<buf, saved, pc>>
        \/ /\ buf[b].msgs # <<>> /\ Expects[who] = {}
           /\ PopTop
           /\ saved' = IF IsMID(Top, Saves[who]) THEN Append(saved, Top) ELSE saved
           /\ UNCHANGED pc

\* Mutant of Leave: the machine is not forgotten.
Leave_KeepsWho ==
  /\ pc = "inner"
  /\ pc' = "run" /\ saved' = <<>>
  /\ UNCHANGED <<config, buf, who, sent, got, held>>

\* restoreMessage: on a copy of the list of successors, whose data are copied when written
Leave ==
  /\ pc = "inner"
  /\ pc' = "run" /\ who' = NoOne /\ saved' = <<>>
  /\ UNCHANGED <<config, buf, sent, got, held>>

-----------------------------------------------------------------------------
(* The statements on a buffer as a variable. *)

PushStatement(m, b, mid, v) ==
  /\ Runs(m, "push") /\ Built
  /\ Accepts(Policy[b], buf[b])
  /\ buf' = [buf EXCEPT ![b] = Pushed(Policy[b], @, Unrouted(m, mid, v))]
  /\ UNCHANGED <<config, pc, who, saved, got, held>>

Assign(m, b, mid, v) ==
  /\ Runs(m, "assignTop") /\ Built
  /\ Policy[b] = "RAM" \/ buf[b].msgs # <<>>
  /\ buf' = [buf EXCEPT ![b] = AssignTop(Policy[b], @, Unrouted(m, mid, v))]
  /\ UNCHANGED <<config, pc, who, saved, got, held>>

\* a message read from a buffer into a variable of type message, which keeps it
Hold(b) == held' = held \cup {buf[b].msgs[TopPlace(Policy[b], buf[b])]}

\* the message goes into a variable, or its parameters do
PopStatement(m, b) ==
  /\ buf[b].msgs # <<>>
  /\ \/ Runs(m, "pop") /\ UNCHANGED held
     \/ Runs(m, "popMessage") /\ Hold(b)
  /\ buf' = TakenFrom([ c \in {b} |-> TopPlace(Policy[b], buf[b]) ])
  /\ Receive(m, b, TopPlace(Policy[b], buf[b]), NoOne)
  /\ UNCHANGED <<config, pc, who, saved, sent>>

TopStatement(m, b) ==
  /\ Runs(m, "top")
  /\ buf[b].msgs # <<>> /\ Hold(b)
  /\ UNCHANGED <<config, buf, pc, who, saved, sent, got>>

\* push and append of a message value: it comes in as it is, with the routing it has
PushMessage(m, b) ==
  /\ Runs(m, "pushMessage")
  /\ Accepts(Policy[b], buf[b])
  /\ \E msg \in held : buf' = [buf EXCEPT ![b] = Pushed(Policy[b], @, msg)]
  /\ UNCHANGED <<config, pc, who, saved, sent, got, held>>

\* and the assignment of one to the top
AssignMessage(m, b) ==
  /\ Runs(m, "assignMessage")
  /\ Policy[b] = "RAM" \/ buf[b].msgs # <<>>
  /\ \E msg \in held : buf' = [buf EXCEPT ![b] = AssignTop(Policy[b], @, msg)]
  /\ UNCHANGED <<config, pc, who, saved, sent, got, held>>

RemoveStatement(m, b, mid) ==
  /\ Runs(m, "remove")
  /\ \E left \in Removed(buf[b].msgs, mid) : buf' = [buf EXCEPT ![b].msgs = left]
  /\ UNCHANGED <<config, pc, who, saved, sent, got, held>>

ClearStatement(m, b) ==
  /\ Runs(m, "clear")
  /\ buf' = [buf EXCEPT ![b].msgs = <<>>]
  /\ UNCHANGED <<config, pc, who, saved, sent, got, held>>

ResizeStatement(m, b, n) ==
  /\ Runs(m, "resize")
  /\ buf' = [buf EXCEPT ![b] = Resized(Policy[b], @, n)]
  /\ UNCHANGED <<config, pc, who, saved, sent, got, held>>

Next ==
  \/ \E m \in Machines, mid \in Mids, v \in Vals :
       \/ Output(m, mid, v)
       \/ \E r \in Machines : OutputTo(m, r, mid, v)
       \/ \E b \in config.named : PushStatement(m, b, mid, v) \/ Assign(m, b, mid, v)
  \/ \E m \in Machines, mid \in Mids :
       \/ Input(m, mid)
       \/ \E s \in Machines : InputFrom(m, s, mid)
       \/ \E b \in config.named : RemoveStatement(m, b, mid)
  \/ \E m \in InputEnabled : Enter(m)
  \/ SkipOne
  \/ Leave
  \/ \E m \in Machines, b \in config.named :
       \/ PopStatement(m, b) \/ TopStatement(m, b)
       \/ PushMessage(m, b) \/ AssignMessage(m, b)
       \/ ClearStatement(m, b)
       \/ \E n \in 0 .. config.maxSent : ResizeStatement(m, b, n)

\* the skipping of input_enabled is a loop without a wait; statements may come to an end
Spec == Init /\ [][Next]_vars /\ WF_vars(SkipOne)

-----------------------------------------------------------------------------
\* The variables have their types, and input_enabled its machine.
TypeOK ==
  /\ config \in Configs
  /\ buf \in [BufferNames -> Buffer]
  /\ pc \in {"run", "skipping", "inner", "crashed"}
  /\ who \in InputEnabled \cup {NoOne} /\ (pc = "run") = (who = NoOne)
  /\ saved \in Seq(Message) /\ sent \in 0 .. config.maxSent /\ got \in Seq(Receipt)
  /\ held \subseteq Message

\* No queue ever holds more than its capacity, whatever is pushed, skipped or resized
\* (push, popBefore and resize of the buffers).
WithinCapacity ==
  \A b \in BufferNames : Policy[b] \in Queues => Len(buf[b].msgs) <= buf[b].cap

\* What inputs receive from a FIFO buffer is received once and in the order it was output,
\* through refused values, skipped messages, removals and resizes in between, in a program
\* that neither assigns a top, which puts a message first, nor puts back one it has read.
Reordering == {"assignTop", "assignMessage", "pushMessage"}
InOrder ==
  (\A m \in Machines : config.runs[m] \cap Reordering = {}) =>
  \A i, j \in DOMAIN got :
    /\ i < j /\ got[i].from = NoOne /\ got[j].from = NoOne
    /\ got[i].buffer = got[j].buffer /\ Policy[got[i].buffer] = "FIFO"
    => got[i].msg.id < got[j].msg.id

\* The buffers together are a channel for inputs: no message is received that was not put in
\* the buffer it comes from; one that has left comes back, and is received again, only if the
\* program has read it into a variable and puts it back itself (Channel).
InTransit == UNION { { <<b, m.id>> : m \in Range(buf[b].msgs) } : b \in BufferNames }
Inputs == { i \in DOMAIN got : got[i].from = NoOne }
Medium == INSTANCE Channel WITH
  Buffers <- BufferNames, keepers <- { b \in BufferNames : Policy[b] = "RAM" },
  born <- sent, transit <- InTransit, held <- { m.id : m \in held },
  taken <- { <<got[i].buffer, got[i].msg.id>> : i \in Inputs }
ImplementsChannel == Medium!Spec

\* After the skipping of input_enabled, if something the machine expects is PRESENT in its
\* buffer then an input finds it, whichever end the buffer is read from, as long as the buffer
\* holds no message for another machine (popBefore, computePresence and pop; not MULTILIFO).
Readable ==
  LET b == EnabledBuffer[who]
  IN /\ pc = "inner" /\ Policy[b] # "MULTILIFO"
     /\ \A n \in Range(buf[b].msgs) : n.routed /\ IsReceiver(n, who)
     /\ \E mid \in Expects[who] : Present(who, b, mid)
     => \E mid \in Expects[who] : Found(b, mid, who) # {}
PresentMeansInput == [][pc # "inner" => Readable']_vars

\* A machine that skips, but for the popBefore of MULTILIFO, drops only messages it may
\* receive and does not expect.
SkipsUnexpected ==
  [][ pc = "run" /\ who' # NoOne =>
        \A b \in BufferNames : Policy[b] # "MULTILIFO" =>
          \A m \in Range(buf[b].msgs) \ Range(buf'[b].msgs) :
            Skippable(m, Expects[who'], who') ]_vars

\* Receivers of the same multicasts that do nothing but input, and refuse no value, receive the
\* same messages in the same order, whatever buffers were full in between: the n-th message
\* received from one is the n-th received from the other (pushMessage_multicast).
Twins(b, c) ==
  /\ Policy[b] = "FIFO" /\ Policy[c] = "FIFO" /\ ~ config.mayRefuse
  /\ \A mid \in Mids : Protocol[mid] = "multicast" /\ {b, c} \subseteq Range(Out[mid])
  /\ \A m \in Machines : config.runs[m] \subseteq {"output", "input"}
  /\ \A m \in InputEnabled : EnabledBuffer[m] \notin {b, c}
ReceivedUpTo(b, i) == { k \in 1 .. i : got[k].buffer = b }
SameOrder ==
  \A b, c \in BufferNames : Twins(b, c) =>
    \A i, j \in DOMAIN got :
      /\ got[i].buffer = b /\ got[j].buffer = c
      /\ Cardinality(ReceivedUpTo(b, i)) = Cardinality(ReceivedUpTo(c, j))
      => got[i].msg.id = got[j].msg.id

\* The skipping of a machine that expects nothing comes to an end: the loop with saves, on any
\* buffer but a register, which keeps what is popped and so is never empty.
SkipEnds ==
  pc = "skipping" /\ Expects[who] = {} /\ Policy[EnabledBuffer[who]] # "RAM" ~> pc # "skipping"

(* What comments of the code say, and the code does not do. *)

\* AvmInputEnabledPrimitive.cpp:88: the messages saved while skipping are kept for later.
SavesComeBack ==
  [][ pc = "inner" /\ pc' = "run" =>
        \A i \in DOMAIN saved : saved[i] \in Range(buf'[EnabledBuffer[who]].msgs) ]_vars

=============================================================================
