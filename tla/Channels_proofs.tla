---------------------------- MODULE Channels_proofs ----------------------------
(***************************************************************************)
(* The safety properties of the programs that talk through queues, FIFOs   *)
(* and pipes, for any number of clients and of lines:                      *)
(*                                                                         *)
(*   OneMessageInFlight            msg_test.cpp, the three services        *)
(*   ZombiesOnlyFromMergedSignals  process_signal.cpp:585-591, sig_chld    *)
(*   RequestsAccountedFor          fifo_test.cpp:255-400, one service      *)
(*   AnswerMatchesLine             fifo_test.cpp and pipes, two processes, *)
(*                                 and mqueue_test.cpp:300-400             *)
(*                                                                         *)
(* None is inductive.  Each kind of program has its invariant: where the   *)
(* one message of a client can be and what it looks like (MsgInv), how far *)
(* the answer to the request in hand is (FifoInv), whose turn it is and    *)
(* which ends are open (PairInv), which queue holds old messages (MqInv).  *)
(* The steps of one kind leave the other kinds alone.                      *)
(***************************************************************************)
EXTENDS Channels, SequenceTheorems, FiniteSetTheorems, TLAPS

-----------------------------------------------------------------------------
(* The POSIX message queue (MqPair).                                       *)

Fresh == {"clients", "services"}

\* Only what an earlier run left holds a message of it, and the service, which
\* unlinks the name first, never has that queue open.
MqInv ==
  /\ Mq!TypeOK
  /\ \A q \in Fresh : posted[q] \in Seq({"typed"})
  /\ mqService # "unlink" => named # "left"
  /\ mqService \in {"receive", "answer"} => mqd["service"] \in Fresh
  /\ got["service"] # "stale"
  /\ mqService = "answer" => got["service"] = "typed"
  /\ mqClient \in {"send", "receive"} => mqd["client"] \in Mq!Queues
  /\ mqClient # "done" => got["client"] = "nothing"
  /\ mqd["client"] # "left" => got["client"] # "stale"

\* What is sent is the last message of the queue that its sender has open.
LEMMA MqSend ==
    ASSUME MqInv, NEW p \in {"service", "client"}, NEW m \in {"stale", "typed"}, Mq!Send(p, m),
           mqd[p] \in Mq!Queues, m = "stale" => mqd[p] = "left"
    PROVE  /\ posted' \in [Mq!Queues -> Seq({"stale", "typed"})]
           /\ \A q \in Fresh : posted'[q] \in Seq({"typed"})
<1>1. PICK d \in Mq!Queues : d = mqd[p]
  OBVIOUS
<1>2. posted \in [Mq!Queues -> Seq({"stale", "typed"})] /\ \A q \in Fresh : posted[q] \in Seq({"typed"})
  BY DEF MqInv, Mq!TypeOK
<1>3. posted' = [posted EXCEPT ![d] = Append(@, m)]
  BY <1>1 DEF Mq!Send
<1>4. Append(posted[d], m) \in Seq({"stale", "typed"})
  BY <1>2
<1>5. d \in Fresh => Append(posted[d], m) \in Seq({"typed"})
  BY <1>1, <1>2 DEF Fresh
<1>6. posted' \in [Mq!Queues -> Seq({"stale", "typed"})]
  BY <1>2, <1>3, <1>4
<1>7. \A q \in Mq!Queues : posted'[q] = IF q = d THEN Append(posted[d], m) ELSE posted[q]
  BY <1>2, <1>3
<1>. QED
  BY <1>2, <1>5, <1>6, <1>7 DEF Fresh, Mq!Queues

\* What is received is the first one.
LEMMA MqReceive ==
    ASSUME MqInv, NEW p \in {"service", "client"}, Mq!Receive(p), mqd[p] \in Mq!Queues
    PROVE  /\ posted' \in [Mq!Queues -> Seq({"stale", "typed"})]
           /\ \A q \in Fresh : posted'[q] \in Seq({"typed"})
           /\ got' \in [{"service", "client"} -> {"nothing", "stale", "typed"}]
           /\ \A q \in {"service", "client"} : q # p => got'[q] = got[q]
           /\ mqd[p] \in Fresh => got'[p] = "typed"
<1>1. PICK d \in Mq!Queues : d = mqd[p]
  OBVIOUS
<1>2. posted \in [Mq!Queues -> Seq({"stale", "typed"})] /\ \A q \in Fresh : posted[q] \in Seq({"typed"})
  BY DEF MqInv, Mq!TypeOK
<1>3. posted[d] # <<>> /\ posted' = [posted EXCEPT ![d] = Tail(@)] /\ got' = [got EXCEPT ![p] = Head(posted[d])]
  BY <1>1 DEF Mq!Receive
<1>4. Tail(posted[d]) \in Seq({"stale", "typed"}) /\ Head(posted[d]) \in {"stale", "typed"}
  BY <1>2, <1>3
<1>5. d \in Fresh => Tail(posted[d]) \in Seq({"typed"}) /\ Head(posted[d]) = "typed"
  BY <1>2, <1>3 DEF Fresh
<1>6. posted' \in [Mq!Queues -> Seq({"stale", "typed"})]
  BY <1>2, <1>3, <1>4
<1>7. \A q \in Mq!Queues : posted'[q] = IF q = d THEN Tail(posted[d]) ELSE posted[q]
  BY <1>2, <1>3
<1>8. got \in [{"service", "client"} -> {"nothing", "stale", "typed"}]
  BY DEF MqInv, Mq!TypeOK
<1>9. /\ got' \in [{"service", "client"} -> {"nothing", "stale", "typed"}]
      /\ \A q \in {"service", "client"} : got'[q] = IF q = p THEN Head(posted[d]) ELSE got[q]
  BY <1>3, <1>4, <1>8
<1>. QED
  BY <1>1, <1>2, <1>5, <1>6, <1>7, <1>9 DEF Fresh, Mq!Queues

\* Every step of the service and of the client preserves MqInv.
LEMMA MqNext == ASSUME MqInv, Mq!Next PROVE MqInv'
<1>. USE DEF MqInv, Mq!TypeOK, Mq!Queues, Mq!Free, Fresh
<1>1. CASE Mq!ServiceUnlink
  BY <1>1 DEF Mq!ServiceUnlink
<1>2. CASE Mq!ServiceOpen
  BY <1>2 DEF Mq!ServiceOpen, Mq!OpenOrCreate
<1>3. CASE Mq!ServiceReceive
  <2>1. Mq!Receive("service") /\ mqd["service"] \in Fresh
    BY <1>3 DEF Mq!ServiceReceive
  <2>. QED
    BY <1>3, <2>1, MqReceive DEF Mq!ServiceReceive
<1>4. CASE Mq!ServiceAnswer
  <2>1. Mq!Send("service", got["service"]) /\ got["service"] = "typed" /\ mqd["service"] \in Fresh
    BY <1>4 DEF Mq!ServiceAnswer
  <2>. QED
    BY <1>4, <2>1, MqSend DEF Mq!ServiceAnswer
<1>5. CASE Mq!ClientOpen
  BY <1>5 DEF Mq!ClientOpen, Mq!OpenOrCreate
<1>6. CASE Mq!ClientSend
  <2>1. Mq!Send("client", "typed") /\ mqd["client"] \in Mq!Queues
    BY <1>6 DEF Mq!ClientSend
  <2>. QED
    BY <1>6, <2>1, MqSend DEF Mq!ClientSend
<1>7. CASE Mq!ClientReceive
  <2>1. Mq!Receive("client") /\ mqd["client"] \in Mq!Queues
    BY <1>7 DEF Mq!ClientReceive
  <2>. QED
    BY <1>7, <2>1, MqReceive DEF Mq!ClientReceive
<1>. QED
  BY <1>1, <1>2, <1>3, <1>4, <1>5, <1>6, <1>7 DEF Mq!Next, Mq!Service, Mq!Client

\* So does a step of another program.
LEMMA MqUnchanged == ASSUME MqInv, UNCHANGED mqVars PROVE MqInv'
BY DEF MqInv, Mq!TypeOK, mqVars

\* MqInv holds when the two are started, and when they are not run.
LEMMA MqInit == ASSUME Mq!Init \/ Mq!NotRun PROVE MqInv
<1>. USE DEF MqInv, Mq!TypeOK, Mq!Queues, Mq!Free, Fresh, Mq!Quiet
<1>3. /\ mqd \in [{"service", "client"} -> Mq!Queues \cup {Mq!Free}]
      /\ got \in [{"service", "client"} -> {"nothing", "stale", "typed"}]
      /\ got["service"] = "nothing" /\ got["client"] = "nothing"
  BY DEF Mq!Init, Mq!NotRun
<1>1. CASE Mq!Init
  <2>1. PICK old \in {<<>>, <<"stale">>} : posted = [q \in Mq!Queues |-> IF q = "left" THEN old ELSE <<>>]
    BY <1>1 DEF Mq!Init
  <2>2. /\ <<>> \in Seq({"stale", "typed"}) /\ <<>> \in Seq({"typed"})
        /\ <<"stale">> \in Seq({"stale", "typed"})
    OBVIOUS
  <2>3. /\ posted \in [Mq!Queues -> Seq({"stale", "typed"})]
        /\ \A q \in Fresh : posted[q] \in Seq({"typed"})
    BY <2>1, <2>2
  <2>4. named \in {"left", Mq!Free} /\ mqService = "unlink" /\ mqClient = "open"
    BY <1>1 DEF Mq!Init
  <2>. QED
    BY <1>3, <2>3, <2>4
<1>2. CASE Mq!NotRun
  <2>1. /\ posted \in [Mq!Queues -> Seq({"stale", "typed"})]
        /\ \A q \in Fresh : posted[q] \in Seq({"typed"})
    <3>1. <<>> \in Seq({"stale", "typed"}) /\ <<>> \in Seq({"typed"})
      OBVIOUS
    <3>. QED
      BY <1>2, <3>1 DEF Mq!NotRun
  <2>2. named = Mq!Free /\ mqService = "done" /\ mqClient = "done"
    BY <1>2 DEF Mq!NotRun
  <2>. QED
    BY <1>3, <2>1, <2>2
<1>. QED
  BY <1>1, <1>2

-----------------------------------------------------------------------------
(* Two processes and a channel each way (FifoPair).                        *)

Talking == {"type", "receive", "quit", "eof"}
ClientPlaces == {"start", "wait up", "open down", "wait down", "done", "killed", "failed"} \cup Talking
ServicePlaces == {"make", "start", "wait up", "open down", "wait down", "read", "answer",
                  "done", "killed"}

\* Where the two can be at the same time, as long as neither has ended.
Meeting ==
  LET c == at["client"] s == at["service"] IN
  \/ Pair!Ended("client") \/ Pair!Ended("service")
  \/ c = "start" /\ s \in {"make", "start", "wait up"}
  \/ c = "wait up" /\ s = "start"
  \/ c = "open down" /\ s \in {"open down", "wait down"}
  \/ c = "wait down" /\ s = "open down"
  \/ c \in Talking /\ s \in {"read", "answer"}

\* Each FIFO is open in who has come past its open, and is closed at the end.
EndsOpen ==
  /\ writer["up"] = IF at["client"] \in {"wait up", "open down", "wait down"} \cup Talking
                    THEN {"client"} ELSE {}
  /\ reader["down"] = IF at["client"] \in {"wait down"} \cup Talking THEN {"client"} ELSE {}
  /\ reader["up"] = IF at["service"] \in {"wait up", "open down", "wait down", "read", "answer"}
                    THEN {"service"} ELSE {}
  /\ writer["down"] = IF at["service"] \in {"wait down", "read", "answer"} THEN {"service"} ELSE {}

OneLine(f) == channel[f] # <<>> => Head(channel[f]).n = line

\* The messages of fifo_client and fifo_service: a line, or the answer to it.
TakeTurns ==
  /\ at["service"] = "answer" => channel["up"] = <<>> /\ channel["down"] = <<>> /\ hand # 0
  /\ at["client"] \in {"start", "wait up", "open down", "wait down"} =>
       channel["up"] = <<>> /\ channel["down"] = <<>> /\ answer = line
  /\ at["client"] = "type" =>
       answer = line \/ (answer = 0 /\ Pair!Ended("service"))
  /\ at["client"] = "type" /\ ~Pair!Ended("service") =>
       at["service"] = "read" /\ channel["up"] = <<>> /\ channel["down"] = <<>>
  /\ at["client"] = "receive" =>
       /\ OneLine("up") /\ OneLine("down")
       /\ at["service"] = "answer" => hand = line

Fifos == pair # "pipe" =>
  /\ at["client"] \in ClientPlaces /\ at["service"] \in ServicePlaces
  /\ at["service"] = "make" => ~made
  /\ Meeting /\ EndsOpen /\ TakeTurns

\* Two pipes shared over fork: the child writes its answer once, after the
\* parent has closed the end it writes to.
Pipes == pair = "pipe" =>
  /\ at["client"] \in {"start", "close down", "read down", "wait", "done", "killed"}
  /\ at["service"] \in {"start", "read up", "write down", "done", "killed"}
  /\ at["client"] = "start" =>
       /\ "client" \in writer["up"] /\ at["service"] # "write down"
       /\ channel["up"] = <<>> /\ channel["down"] = <<>>
  /\ ~Pair!Ended("service") => "service" \in writer["down"] /\ channel["down"] = <<>>
  /\ Pair!Ended("service") => "service" \notin reader["up"]
  /\ at["service"] = "write down" => channel["up"] = <<>>
  /\ at["client"] \in {"close down", "read down"} =>
       /\ line = 1 /\ OneLine("up") /\ OneLine("down")
       /\ at["service"] \in {"start", "read up"} => channel["up"] # <<>>
       /\ at["service"] = "write down" => hand = 1
  /\ at["client"] = "wait" => answer = line \/ (answer = 0 /\ Pair!Ended("service"))

PairInv ==
  /\ Pair!TypeOK
  /\ Len(channel["up"]) + Len(channel["down"]) <= 1
  /\ Fifos
  /\ Pipes

\* Only one label changes.
LEMMA PairGoto ==
    ASSUME PairInv, NEW p \in Pair!Processes, NEW label \in Pair!Labels, Pair!Goto(p, label)
    PROVE  /\ at' \in [Pair!Processes -> Pair!Labels]
           /\ at'[p] = label /\ \A q \in Pair!Processes : q # p => at'[q] = at[q]
BY DEF PairInv, Pair!TypeOK, Pair!Goto

\* All that a process has open is closed.
LEMMA PairCloseAll ==
    ASSUME PairInv, NEW p \in Pair!Processes, Pair!CloseAll(p)
    PROVE  /\ reader' \in [Pair!Channels -> SUBSET Pair!Processes]
           /\ writer' \in [Pair!Channels -> SUBSET Pair!Processes]
           /\ \A f \in Pair!Channels : reader'[f] = reader[f] \ {p} /\ writer'[f] = writer[f] \ {p}
<1>1. /\ reader \in [Pair!Channels -> SUBSET Pair!Processes]
      /\ writer \in [Pair!Channels -> SUBSET Pair!Processes]
  BY DEF PairInv, Pair!TypeOK
<1>2. /\ reader' = [f \in Pair!Channels |-> reader[f] \ {p}]
      /\ writer' = [f \in Pair!Channels |-> writer[f] \ {p}]
  BY DEF Pair!CloseAll
<1>3. \A f \in Pair!Channels : reader[f] \ {p} \in SUBSET Pair!Processes /\ writer[f] \ {p} \in SUBSET Pair!Processes
  BY <1>1
<1>. QED
  BY <1>2, <1>3

\* A message is its line number and whether it says "quit".
LEMMA PairMessage ==
    ASSUME NEW h \in 1..Lines, NEW q \in BOOLEAN
    PROVE  \E m \in Pair!Sent : m = [n |-> h, quit |-> q] /\ m.n = h
<1>1. [n |-> h, quit |-> q] \in Pair!Sent
  BY Zenon DEF Pair!Sent
<1>2. [n |-> h, quit |-> q].n = h
  OBVIOUS
<1>. QED
  BY <1>1, <1>2, Zenon

\* A message is written to a channel that has room, or the writer is killed.
LEMMA PairWriteOr ==
    ASSUME PairInv, NEW p \in Pair!Processes, NEW f \in Pair!Channels, NEW m \in Pair!Sent,
           NEW next \in Pair!Labels, Pair!WriteOr(p, f, m, next)
    PROVE  /\ at' \in [Pair!Processes -> Pair!Labels]
           /\ \A q \in Pair!Processes : q # p => at'[q] = at[q]
           /\ \/ /\ reader[f] \ {p} # {}
                 /\ at'[p] = next /\ UNCHANGED <<reader, writer>>
                 /\ channel' \in [Pair!Channels -> Seq(Pair!Sent)]
                 /\ channel'[f] = Append(channel[f], m)
                 /\ \A g \in Pair!Channels : g # f => channel'[g] = channel[g]
              \/ reader[f] \ {p} = {} /\ at'[p] = "killed" /\ Pair!CloseAll(p) /\ UNCHANGED channel
<1>1. channel \in [Pair!Channels -> Seq(Pair!Sent)] /\ "killed" \in Pair!Labels
  BY DEF PairInv, Pair!TypeOK, Pair!Labels
<1>2. CASE reader[f] \ {p} # {}
  <2>1. channel' = [channel EXCEPT ![f] = Append(@, m)] /\ Pair!Goto(p, next) /\ UNCHANGED <<reader, writer>>
    BY <1>2 DEF Pair!WriteOr
  <2>2. Append(channel[f], m) \in Seq(Pair!Sent)
    BY <1>1
  <2>3. /\ channel' \in [Pair!Channels -> Seq(Pair!Sent)]
        /\ channel'[f] = Append(channel[f], m)
        /\ \A g \in Pair!Channels : g # f => channel'[g] = channel[g]
    BY <1>1, <2>1, <2>2
  <2>. QED
    BY <1>2, <2>1, <2>3, PairGoto
<1>3. CASE reader[f] \ {p} = {}
  BY <1>1, <1>3, PairGoto DEF Pair!WriteOr
<1>. QED
  BY <1>2, <1>3

\* What is read is the first message.
LEMMA PairTaken ==
    ASSUME PairInv, NEW f \in Pair!Channels,
           channel' = [channel EXCEPT ![f] = IF @ = <<>> THEN @ ELSE Tail(@)]
    PROVE  /\ channel' \in [Pair!Channels -> Seq(Pair!Sent)]
           /\ channel'[f] = <<>>
           /\ channel[f] # <<>> => Head(channel[f]) \in Pair!Sent /\ Len(channel[f]) = 1
           /\ \A g \in Pair!Channels : g # f => channel'[g] = channel[g] /\ (channel[f] # <<>> => channel[g] = <<>>)
<1>1. channel \in [Pair!Channels -> Seq(Pair!Sent)] /\ Len(channel["up"]) + Len(channel["down"]) <= 1
  BY DEF PairInv, Pair!TypeOK
<1>2. \A g \in Pair!Channels : channel[g] \in Seq(Pair!Sent) /\ Len(channel[g]) \in Nat
  BY <1>1
<1>3. \A g \in Pair!Channels : g # f => Len(channel[f]) + Len(channel[g]) <= 1
  <2>1. CASE f = "up"
    BY <1>1, <1>2, <2>1 DEF Pair!Channels
  <2>2. CASE f = "down"
    BY <1>1, <1>2, <2>2 DEF Pair!Channels
  <2>. QED
    BY <2>1, <2>2 DEF Pair!Channels
<1>4. channel[f] # <<>> => Len(channel[f]) = 1 /\ Tail(channel[f]) = <<>> /\ Head(channel[f]) \in Pair!Sent
  <2>1. PICK s \in Seq(Pair!Sent) : s = channel[f]
    BY <1>1
  <2>2. PICK g \in Pair!Channels : g # f
    BY DEF Pair!Channels
  <2>3. Len(s) + Len(channel[g]) <= 1 /\ Len(channel[g]) \in Nat
    BY <1>2, <1>3, <2>1, <2>2
  <2>6. s # <<>> => Len(s) \in Nat \ {0}
    BY EmptySeq
  <2>4. s # <<>> => Len(s) = 1
    <3>1. PICK n, k : n = Len(s) /\ k = Len(channel[g])
      OBVIOUS
    <3>. QED
      BY <2>3, <2>6, <3>1
  <2>5. s # <<>> => Head(s) \in Pair!Sent /\ Tail(s) \in Seq(Pair!Sent) /\ Len(Tail(s)) = 0
    BY <2>4
  <2>. QED
    BY <2>1, <2>4, <2>5, EmptySeq
<1>5. \A g \in Pair!Channels : g # f /\ channel[f] # <<>> => channel[g] = <<>>
  <2>1. SUFFICES ASSUME NEW g \in Pair!Channels, g # f, channel[f] # <<>> PROVE channel[g] = <<>>
    OBVIOUS
  <2>2. Len(channel[g]) \in Nat /\ Len(channel[f]) = 1 /\ Len(channel[f]) + Len(channel[g]) <= 1
    BY <1>2, <1>3, <1>4, <2>1
  <2>. QED
    BY <1>2, <2>2, EmptySeq
<1>6. \A g \in Pair!Channels : channel'[g] = IF g = f THEN <<>> ELSE channel[g]
  BY <1>1, <1>4
<1>7. <<>> \in Seq(Pair!Sent) /\ channel' = [g \in Pair!Channels |-> channel'[g]]
  <2>1. DOMAIN channel' = Pair!Channels /\ channel' = [g \in DOMAIN channel' |-> channel'[g]]
    BY <1>1
  <2>. QED
    BY <2>1, EmptySeq
<1>8. channel' \in [Pair!Channels -> Seq(Pair!Sent)]
  BY <1>2, <1>6, <1>7
<1>. QED
  BY <1>4, <1>5, <1>6, <1>8

\* creat_two_fifo, before the service opens its end.
LEMMA PairMake == ASSUME PairInv, Pair!ServiceMake PROVE PairInv'
<1>1. Pair!Goto("service", "start") /\ at["service"] = "make" /\ made' = TRUE
      /\ UNCHANGED <<pair, reader, writer, channel, line, answer, hand>>
  BY DEF Pair!ServiceMake
<1>2. /\ at' \in [Pair!Processes -> Pair!Labels]
      /\ at'["service"] = "start" /\ at'["client"] = at["client"]
  BY <1>1, PairGoto DEF Pair!Processes, Pair!Labels
<1>. QED
  BY <1>1, <1>2 DEF PairInv, Pair!TypeOK, Fifos, Pipes, ClientPlaces, ServicePlaces, Meeting,
     EndsOpen, TakeTurns, OneLine, Pair!Ended, Talking

\* An open waits for the other end, or lets who waits for it go on.
LEMMA PairOpenEnd ==
    ASSUME PairInv, NEW p \in Pair!Processes, NEW f \in Pair!Channels, NEW other, Pair!OpenEnd(p, f, other)
    PROVE  /\ at' \in [Pair!Processes -> Pair!Labels]
           /\ other = {} => /\ at'[p] = Pair!Wait(f)
                            /\ \A q \in Pair!Processes : q # p => at'[q] = at[q]
           /\ other # {} => \A q \in Pair!Processes :
                               at'[q] = IF q = p \/ at[q] = Pair!Wait(f) THEN Pair!After(q, f) ELSE at[q]
<1>1. at \in [Pair!Processes -> Pair!Labels] /\ Pair!Wait(f) \in Pair!Labels
      /\ \A q \in Pair!Processes : Pair!After(q, f) \in Pair!Labels
  BY DEF PairInv, Pair!TypeOK, Pair!Wait, Pair!After, Pair!Labels
<1>2. CASE other = {}
  BY <1>1, <1>2, PairGoto DEF Pair!OpenEnd
<1>3. CASE other # {}
  BY <1>1, <1>3 DEF Pair!OpenEnd
<1>. QED
  BY <1>2, <1>3

\* The service opens its two FIFOs one after the other.
LEMMA PairServiceOpens == ASSUME PairInv, Pair!ServiceOpens PROVE PairInv'
<1>. USE DEF Pair!Processes, Pair!Channels
<1>1. /\ pair # "pipe" /\ UNCHANGED <<pair, made, channel, line, answer, hand>>
      /\ reader \in [Pair!Channels -> SUBSET Pair!Processes]
      /\ writer \in [Pair!Channels -> SUBSET Pair!Processes]
      /\ Fifos /\ Meeting /\ EndsOpen /\ TakeTurns
      /\ at["client"] \in ClientPlaces /\ at["service"] \in ServicePlaces
  BY DEF Pair!ServiceOpens, PairInv, Pair!TypeOK, Fifos
<1>2. CASE /\ at["service"] = "start" /\ reader' = [reader EXCEPT !["up"] = @ \cup {"service"}]
           /\ Pair!OpenEnd("service", "up", writer["up"]) /\ UNCHANGED writer
  <2>1. /\ reader' \in [Pair!Channels -> SUBSET Pair!Processes]
        /\ reader'["up"] = reader["up"] \cup {"service"} /\ reader'["down"] = reader["down"]
    BY <1>1, <1>2
  <2>2. /\ at' \in [Pair!Processes -> Pair!Labels]
        /\ \/ writer["up"] = {} /\ at'["service"] = "wait up" /\ at'["client"] = at["client"]
           \/ /\ writer["up"] # {} /\ at'["service"] = "open down"
              /\ at'["client"] = IF at["client"] = "wait up" THEN "open down" ELSE at["client"]
    BY <1>2, PairOpenEnd DEF Pair!Wait, Pair!After
  <2>. QED
    BY ZenonT(30), <1>1, <1>2, <2>1, <2>2 DEF PairInv, Pair!TypeOK, Fifos, Pipes, ClientPlaces, ServicePlaces, Meeting,
     EndsOpen, TakeTurns, OneLine, Pair!Ended, Talking
<1>3. CASE /\ at["service"] = "open down" /\ writer' = [writer EXCEPT !["down"] = @ \cup {"service"}]
           /\ Pair!OpenEnd("service", "down", reader["down"]) /\ UNCHANGED reader
  <2>1. /\ writer' \in [Pair!Channels -> SUBSET Pair!Processes]
        /\ writer'["down"] = writer["down"] \cup {"service"} /\ writer'["up"] = writer["up"]
    BY <1>1, <1>3
  <2>2. /\ at' \in [Pair!Processes -> Pair!Labels]
        /\ \/ reader["down"] = {} /\ at'["service"] = "wait down" /\ at'["client"] = at["client"]
           \/ /\ reader["down"] # {} /\ at'["service"] = "read"
              /\ at'["client"] = IF at["client"] = "wait down" THEN "type" ELSE at["client"]
    BY <1>3, PairOpenEnd DEF Pair!Wait, Pair!After
  <2>. QED
    BY ZenonT(30), <1>1, <1>3, <2>1, <2>2 DEF PairInv, Pair!TypeOK, Fifos, Pipes, ClientPlaces, ServicePlaces, Meeting,
     EndsOpen, TakeTurns, OneLine, Pair!Ended, Talking
<1>. QED
  BY <1>2, <1>3 DEF Pair!ServiceOpens

\* The client opens them in the same order.
LEMMA PairClientOpens == ASSUME PairInv, Pair!ClientOpens PROVE PairInv'
<1>. USE DEF Pair!Processes, Pair!Channels
<1>1. /\ pair # "pipe" /\ UNCHANGED <<pair, made, channel, line, answer, hand>>
      /\ reader \in [Pair!Channels -> SUBSET Pair!Processes]
      /\ writer \in [Pair!Channels -> SUBSET Pair!Processes]
      /\ Fifos /\ Meeting /\ EndsOpen /\ TakeTurns
      /\ at["client"] \in ClientPlaces /\ at["service"] \in ServicePlaces
  BY DEF Pair!ClientOpens, PairInv, Pair!TypeOK, Fifos
<1>2. CASE /\ at["client"] = "start" /\ made /\ writer' = [writer EXCEPT !["up"] = @ \cup {"client"}]
           /\ Pair!OpenEnd("client", "up", reader["up"]) /\ UNCHANGED reader
  <2>1. /\ writer' \in [Pair!Channels -> SUBSET Pair!Processes]
        /\ writer'["up"] = writer["up"] \cup {"client"} /\ writer'["down"] = writer["down"]
    BY <1>1, <1>2
  <2>2. /\ at' \in [Pair!Processes -> Pair!Labels]
        /\ \/ reader["up"] = {} /\ at'["client"] = "wait up" /\ at'["service"] = at["service"]
           \/ /\ reader["up"] # {} /\ at'["client"] = "open down"
              /\ at'["service"] = IF at["service"] = "wait up" THEN "open down" ELSE at["service"]
    BY <1>2, PairOpenEnd DEF Pair!Wait, Pair!After
  <2>3. Meeting' /\ at'["client"] \in ClientPlaces /\ at'["service"] \in ServicePlaces
    BY <1>1, <1>2, <2>2 DEF Fifos, ClientPlaces, ServicePlaces, Meeting, EndsOpen, Pair!Ended, Talking
  <2>4. EndsOpen'
    BY <1>1, <1>2, <2>1, <2>2 DEF EndsOpen, Talking
  <2>5. TakeTurns' /\ (at'["service"] = "make" => ~made')
    BY <1>1, <1>2, <2>2 DEF Fifos, TakeTurns, OneLine, Pair!Ended, Meeting, EndsOpen, ServicePlaces, Talking
  <2>. QED
    BY <1>1, <1>2, <2>1, <2>2, <2>3, <2>4, <2>5 DEF PairInv, Pair!TypeOK, Fifos, Pipes
<1>3. CASE /\ at["client"] = "open down" /\ reader' = [reader EXCEPT !["down"] = @ \cup {"client"}]
           /\ Pair!OpenEnd("client", "down", writer["down"]) /\ UNCHANGED writer
  <2>1. /\ reader' \in [Pair!Channels -> SUBSET Pair!Processes]
        /\ reader'["down"] = reader["down"] \cup {"client"} /\ reader'["up"] = reader["up"]
    BY <1>1, <1>3
  <2>2. /\ at' \in [Pair!Processes -> Pair!Labels]
        /\ \/ writer["down"] = {} /\ at'["client"] = "wait down" /\ at'["service"] = at["service"]
           \/ /\ writer["down"] # {} /\ at'["client"] = "type"
              /\ at'["service"] = IF at["service"] = "wait down" THEN "read" ELSE at["service"]
    BY <1>3, PairOpenEnd DEF Pair!Wait, Pair!After
  <2>3. Meeting' /\ at'["client"] \in ClientPlaces /\ at'["service"] \in ServicePlaces
    BY ZenonT(30), <1>1, <1>3, <2>2 DEF ClientPlaces, ServicePlaces, Meeting, EndsOpen, Pair!Ended, Talking
  <2>4. EndsOpen'
    BY ZenonT(30), <1>1, <1>3, <2>1, <2>2 DEF EndsOpen, Talking
  <2>5. TakeTurns' /\ (at'["service"] = "make" => ~made')
    BY <1>1, <1>3, <2>2 DEF Fifos, TakeTurns, OneLine, Pair!Ended, Meeting, EndsOpen, ServicePlaces, Talking
  <2>. QED
    BY <1>1, <1>3, <2>1, <2>2, <2>3, <2>4, <2>5 DEF PairInv, Pair!TypeOK, Fifos, Pipes
<1>4. CASE at["client"] = "start" /\ ~made /\ Pair!Goto("client", "failed") /\ UNCHANGED <<reader, writer>>
  <2>1. /\ at' \in [Pair!Processes -> Pair!Labels]
        /\ at'["client"] = "failed" /\ at'["service"] = at["service"]
    BY <1>4, PairGoto DEF Pair!Labels
  <2>. QED
    BY <1>1, <1>4, <2>1 DEF PairInv, Pair!TypeOK, Fifos, Pipes, ClientPlaces, ServicePlaces, Meeting,
     EndsOpen, TakeTurns, OneLine, Pair!Ended, Talking
<1>. QED
  BY <1>2, <1>3, <1>4 DEF Pair!ClientOpens

\* The service reads a line and answers it, or ends.
LEMMA PairServiceReads == ASSUME PairInv, Pair!ServiceReads PROVE PairInv'
<1>. USE DEF Pair!Processes, Pair!Channels
<1>1. /\ at["service"] = "read" /\ pair # "pipe" /\ UNCHANGED <<pair, made, line, answer>>
      /\ channel["up"] # <<>> \/ writer["up"] = {}
      /\ channel' = [channel EXCEPT !["up"] = IF @ = <<>> THEN @ ELSE Tail(@)]
  BY DEF Pair!ServiceReads, Pair!Readable, PairInv, Pipes
<1>2. /\ channel' \in [Pair!Channels -> Seq(Pair!Sent)]
      /\ channel'["up"] = <<>> /\ channel'["down"] = channel["down"]
      /\ channel["up"] # <<>> => Head(channel["up"]) \in Pair!Sent /\ channel["down"] = <<>>
  BY <1>1, PairTaken
<1>3. Len(channel'["up"]) + Len(channel'["down"]) <= 1
  <2>1. PICK m, n : m = Len(channel["up"]) /\ n = Len(channel["down"])
    OBVIOUS
  <2>2. m \in Nat /\ n \in Nat /\ m + n <= 1
    BY <2>1 DEF PairInv, Pair!TypeOK
  <2>3. Len(channel'["up"]) = 0 /\ Len(channel'["down"]) = n
    BY <1>2, <2>1, EmptySeq
  <2>4. 0 + n <= 1
    BY <2>2
  <2>. QED
    BY <2>3, <2>4
<1>4. CASE Pair!Goto("service", "done") /\ Pair!CloseAll("service") /\ UNCHANGED hand
  <2>1. /\ at' \in [Pair!Processes -> Pair!Labels]
        /\ at'["service"] = "done" /\ at'["client"] = at["client"]
    BY <1>4, PairGoto DEF Pair!Labels
  <2>2. /\ reader' \in [Pair!Channels -> SUBSET Pair!Processes]
        /\ writer' \in [Pair!Channels -> SUBSET Pair!Processes]
        /\ \A f \in Pair!Channels : reader'[f] = reader[f] \ {"service"} /\ writer'[f] = writer[f] \ {"service"}
    BY <1>4, PairCloseAll
  <2>. QED
    BY ZenonT(30), <1>1, <1>2, <1>3, <1>4, <2>1, <2>2 DEF PairInv, Pair!TypeOK, Fifos, Pipes, ClientPlaces, ServicePlaces, Meeting,
     EndsOpen, TakeTurns, OneLine, Pair!Ended, Talking
<1>5. CASE /\ channel["up"] # <<>> /\ hand' = Head(channel["up"]).n /\ Pair!Goto("service", "answer")
           /\ UNCHANGED <<reader, writer>>
  <2>1. /\ at' \in [Pair!Processes -> Pair!Labels]
        /\ at'["service"] = "answer" /\ at'["client"] = at["client"]
    BY <1>5, PairGoto DEF Pair!Labels
  <2>2. hand' \in 0..Lines /\ hand' # 0
    <3>1. PICK m \in Pair!Sent : m = Head(channel["up"])
      BY <1>2, <1>5
    <3>2. m.n \in 1..Lines /\ hand' = m.n
      BY <1>5, <3>1 DEF Pair!Sent
    <3>. QED
      BY <3>2, LinesAssumption
  <2>8. Fifos /\ Meeting /\ EndsOpen /\ TakeTurns /\ at["client"] \in ClientPlaces /\ at["service"] \in ServicePlaces
    BY <1>1 DEF PairInv, Fifos
  <2>9. Meeting' /\ at'["client"] \in ClientPlaces /\ at'["service"] \in ServicePlaces /\ at'["service"] # "make"
    BY <1>1, <1>2, <1>3, <1>5, <2>1, <2>2, <2>8 DEF ClientPlaces, ServicePlaces, Meeting, EndsOpen, Pair!Ended, Talking
  <2>10. EndsOpen'
    BY <1>1, <1>2, <1>3, <1>5, <2>1, <2>2, <2>8 DEF EndsOpen, Talking
  <2>11. TakeTurns'
    BY <1>1, <1>2, <1>3, <1>5, <2>1, <2>2, <2>8 DEF TakeTurns, OneLine, Pair!Ended, Meeting, EndsOpen, ServicePlaces, Talking
  <2>. QED
    BY <1>1, <1>2, <1>3, <1>5, <2>1, <2>2, <2>9, <2>10, <2>11 DEF PairInv, Pair!TypeOK, Fifos, Pipes
<1>. QED
  BY <1>4, <1>5 DEF Pair!ServiceReads

\* The service answers the line it has in hand.
LEMMA PairServiceAnswers == ASSUME PairInv, Pair!ServiceAnswers PROVE PairInv'
<1>. USE DEF Pair!Processes, Pair!Channels
<1>1. /\ at["service"] = "answer" /\ pair # "pipe" /\ UNCHANGED <<pair, made, line, answer, hand>>
      /\ Pair!WriteOr("service", "down", [n |-> hand, quit |-> FALSE], "read")
  BY DEF Pair!ServiceAnswers, PairInv, Pipes
<1>2. /\ channel["up"] = <<>> /\ channel["down"] = <<>> /\ hand \in 1..Lines
      /\ at["client"] = "receive" => hand = line
  <2>1. Fifos /\ hand \in 0..Lines /\ Lines \in Nat
    BY LinesAssumption DEF PairInv, Pair!TypeOK
  <2>2. channel["up"] = <<>> /\ channel["down"] = <<>> /\ hand # 0 /\ (at["client"] = "receive" => hand = line)
    <3>1. TakeTurns
      BY <1>1, <2>1 DEF Fifos
    <3>. QED
      BY <1>1, <3>1 DEF TakeTurns, OneLine, Pair!Ended
  <2>. QED
    BY <2>1, <2>2
<1>3. PICK m \in Pair!Sent : m = [n |-> hand, quit |-> FALSE] /\ m.n = hand
  BY <1>2, PairMessage
<1>4. Pair!WriteOr("service", "down", m, "read") /\ "read" \in Pair!Labels
  BY <1>1, <1>3 DEF Pair!Labels
<1>5. /\ at' \in [Pair!Processes -> Pair!Labels] /\ at'["client"] = at["client"]
      /\ \/ /\ at'["service"] = "read" /\ UNCHANGED <<reader, writer>>
            /\ channel' \in [Pair!Channels -> Seq(Pair!Sent)]
            /\ channel'["down"] = Append(channel["down"], m) /\ channel'["up"] = channel["up"]
         \/ at'["service"] = "killed" /\ Pair!CloseAll("service") /\ UNCHANGED channel
  BY <1>4, PairWriteOr
<1>6. CASE /\ at'["service"] = "read" /\ UNCHANGED <<reader, writer>>
           /\ channel' \in [Pair!Channels -> Seq(Pair!Sent)]
           /\ channel'["down"] = Append(channel["down"], m) /\ channel'["up"] = channel["up"]
  <2>1. channel'["down"] = <<m>> /\ Len(channel'["down"]) = 1 /\ Head(channel'["down"]) = m
    BY <1>2, <1>6
  <2>2. Len(channel'["up"]) = 0 /\ channel'["up"] = <<>>
    BY <1>2, <1>6, EmptySeq
  <2>3. Len(channel'["up"]) + Len(channel'["down"]) <= 1
    BY <2>1, <2>2
  <2>8. Fifos /\ Meeting /\ EndsOpen /\ TakeTurns /\ at["client"] \in ClientPlaces /\ at["service"] \in ServicePlaces
    BY <1>1 DEF PairInv, Fifos
  <2>9. Meeting' /\ at'["client"] \in ClientPlaces /\ at'["service"] \in ServicePlaces /\ at'["service"] # "make"
    BY <1>1, <1>2, <1>3, <1>5, <1>6, <2>1, <2>2, <2>3, <2>8 DEF ClientPlaces, ServicePlaces, Meeting, EndsOpen, Pair!Ended, Talking
  <2>10. EndsOpen'
    BY <1>1, <1>2, <1>3, <1>5, <1>6, <2>1, <2>2, <2>3, <2>8 DEF EndsOpen, Talking
  <2>11. TakeTurns'
    BY <1>1, <1>2, <1>3, <1>5, <1>6, <2>1, <2>2, <2>3, <2>8 DEF TakeTurns, OneLine, Pair!Ended, Meeting, EndsOpen, ServicePlaces, Talking
  <2>. QED
    BY <1>1, <1>2, <1>3, <1>5, <1>6, <2>1, <2>2, <2>3, <2>9, <2>10, <2>11 DEF PairInv, Pair!TypeOK, Fifos, Pipes
<1>7. CASE at'["service"] = "killed" /\ Pair!CloseAll("service") /\ UNCHANGED channel
  <2>1. /\ reader' \in [Pair!Channels -> SUBSET Pair!Processes]
        /\ writer' \in [Pair!Channels -> SUBSET Pair!Processes]
        /\ \A f \in Pair!Channels : reader'[f] = reader[f] \ {"service"} /\ writer'[f] = writer[f] \ {"service"}
    BY <1>7, PairCloseAll
  <2>. QED
    BY <1>1, <1>2, <1>5, <1>7, <2>1 DEF PairInv, Pair!TypeOK, Fifos, Pipes, ClientPlaces, ServicePlaces, Meeting,
     EndsOpen, TakeTurns, OneLine, Pair!Ended, Talking
<1>. QED
  BY <1>5, <1>6, <1>7

\* The client types a line once it has the answer to the last one, or reads no more.
LEMMA PairClientTypes == ASSUME PairInv, Pair!ClientTypes PROVE PairInv'
<1>. USE DEF Pair!Processes, Pair!Channels
<1>1. PICK quit \in BOOLEAN :
        /\ at["client"] = "type" /\ pair # "pipe" /\ line < Lines /\ line' = line + 1
        /\ UNCHANGED <<pair, made, answer, hand>>
        /\ Pair!WriteOr("client", "up", [n |-> line', quit |-> quit], IF quit THEN "quit" ELSE "receive")
  BY DEF Pair!ClientTypes, PairInv, Pipes
<1>2. PICK next \in {"quit", "receive"} : next = IF quit THEN "quit" ELSE "receive"
  OBVIOUS
<1>3. line' \in 1..Lines
  BY <1>1, LinesAssumption DEF PairInv, Pair!TypeOK
<1>4. PICK m \in Pair!Sent : m = [n |-> line', quit |-> quit] /\ m.n = line'
  BY <1>3, PairMessage
<1>5. Pair!WriteOr("client", "up", m, next) /\ next \in Pair!Labels
  BY <1>1, <1>2, <1>4 DEF Pair!Labels
<1>6. /\ at' \in [Pair!Processes -> Pair!Labels] /\ at'["service"] = at["service"]
      /\ \/ /\ reader["up"] \ {"client"} # {}
            /\ at'["client"] = next /\ UNCHANGED <<reader, writer>>
            /\ channel' \in [Pair!Channels -> Seq(Pair!Sent)]
            /\ channel'["up"] = Append(channel["up"], m) /\ channel'["down"] = channel["down"]
         \/ at'["client"] = "killed" /\ Pair!CloseAll("client") /\ UNCHANGED channel
  BY <1>5, PairWriteOr
<1>7. CASE /\ reader["up"] \ {"client"} # {}
           /\ at'["client"] = next /\ UNCHANGED <<reader, writer>>
           /\ channel' \in [Pair!Channels -> Seq(Pair!Sent)]
           /\ channel'["up"] = Append(channel["up"], m) /\ channel'["down"] = channel["down"]
  <2>1. at["service"] = "read" /\ channel["up"] = <<>> /\ channel["down"] = <<>>
    BY <1>1, <1>7 DEF PairInv, Fifos, EndsOpen, TakeTurns, Pair!Ended, ServicePlaces
  <2>2. channel'["up"] = <<m>> /\ Len(channel'["up"]) = 1 /\ Head(channel'["up"]) = m
    BY <1>7, <2>1
  <2>3. Len(channel'["down"]) = 0 /\ channel'["down"] = <<>>
    BY <1>7, <2>1, EmptySeq
  <2>4. Len(channel'["up"]) + Len(channel'["down"]) <= 1
    BY <2>2, <2>3
  <2>8. Fifos /\ Meeting /\ EndsOpen /\ TakeTurns /\ at["client"] \in ClientPlaces /\ at["service"] \in ServicePlaces
    BY <1>1 DEF PairInv, Fifos
  <2>9. Meeting' /\ at'["client"] \in ClientPlaces /\ at'["service"] \in ServicePlaces /\ at'["service"] # "make"
    BY <1>1, <1>3, <1>4, <1>6, <1>7, <2>1, <2>2, <2>3, <2>4, <2>8 DEF ClientPlaces, ServicePlaces, Meeting, EndsOpen, Pair!Ended, Talking
  <2>10. EndsOpen'
    BY <1>1, <1>3, <1>4, <1>6, <1>7, <2>1, <2>2, <2>3, <2>4, <2>8 DEF EndsOpen, Talking
  <2>11. TakeTurns'
    BY <1>1, <1>3, <1>4, <1>6, <1>7, <2>1, <2>2, <2>3, <2>4, <2>8 DEF TakeTurns, OneLine, Pair!Ended, Meeting, EndsOpen, ServicePlaces, Talking
  <2>. QED
    BY <1>1, <1>3, <1>4, <1>6, <1>7, <2>1, <2>2, <2>3, <2>4, <2>9, <2>10, <2>11 DEF PairInv, Pair!TypeOK, Fifos, Pipes
<1>8. CASE at'["client"] = "killed" /\ Pair!CloseAll("client") /\ UNCHANGED channel
  <2>1. /\ reader' \in [Pair!Channels -> SUBSET Pair!Processes]
        /\ writer' \in [Pair!Channels -> SUBSET Pair!Processes]
        /\ \A f \in Pair!Channels : reader'[f] = reader[f] \ {"client"} /\ writer'[f] = writer[f] \ {"client"}
    BY <1>8, PairCloseAll
  <2>8. Fifos /\ Meeting /\ EndsOpen /\ TakeTurns /\ at["client"] \in ClientPlaces /\ at["service"] \in ServicePlaces
    BY <1>1 DEF PairInv, Fifos
  <2>9. Meeting' /\ at'["client"] \in ClientPlaces /\ at'["service"] \in ServicePlaces /\ at'["service"] # "make"
    BY <1>1, <1>3, <1>6, <1>8, <2>1, <2>8 DEF ClientPlaces, ServicePlaces, Meeting, EndsOpen, Pair!Ended, Talking
  <2>10. EndsOpen'
    BY <1>1, <1>3, <1>6, <1>8, <2>1, <2>8 DEF EndsOpen, Talking
  <2>11. TakeTurns'
    BY <1>1, <1>3, <1>6, <1>8, <2>1, <2>8 DEF TakeTurns, OneLine, Pair!Ended, Meeting, EndsOpen, ServicePlaces, Talking
  <2>. QED
    <3>1. line' \in 0..Lines
      BY <1>3, LinesAssumption
    <3>3. Len(channel'["up"]) + Len(channel'["down"]) <= 1
      BY <1>8 DEF PairInv
    <3>2. Pair!TypeOK'
      BY <1>1, <1>6, <1>8, <2>1, <3>1 DEF PairInv, Pair!TypeOK
    <3>. QED
      BY <1>1, <2>9, <2>10, <2>11, <3>3, <3>2 DEF PairInv, Fifos, Pipes
<1>. QED
  BY <1>6, <1>7, <1>8

\* At the end of its input the client closes what it writes to.
LEMMA PairClientEof == ASSUME PairInv, Pair!ClientEof PROVE PairInv'
<1>. USE DEF Pair!Processes, Pair!Channels
<1>1. /\ at["client"] = "type" /\ pair # "pipe"
      /\ UNCHANGED <<pair, made, reader, writer, channel, line, answer, hand>>
      /\ reader \in [Pair!Channels -> SUBSET Pair!Processes]
      /\ writer \in [Pair!Channels -> SUBSET Pair!Processes]
      /\ Fifos /\ Meeting /\ EndsOpen /\ TakeTurns
      /\ at["client"] \in ClientPlaces /\ at["service"] \in ServicePlaces
  BY DEF Pair!ClientEof, PairInv, Pair!TypeOK, Fifos, Pipes
<1>2. at' \in [Pair!Processes -> Pair!Labels] /\ at'["client"] = "eof" /\ at'["service"] = at["service"]
  BY PairGoto DEF Pair!ClientEof, Pair!Labels
<1>3. Meeting' /\ at'["client"] \in ClientPlaces /\ at'["service"] \in ServicePlaces
  BY <1>1, <1>2 DEF ClientPlaces, ServicePlaces, Meeting, EndsOpen, Pair!Ended, Talking
<1>4. EndsOpen'
  BY <1>1, <1>2 DEF EndsOpen, Talking
<1>5. TakeTurns' /\ (at'["service"] = "make" => ~made')
  BY <1>1, <1>2 DEF Fifos, TakeTurns, OneLine, Pair!Ended, Meeting, EndsOpen, ServicePlaces, Talking
<1>. QED
  BY <1>1, <1>2, <1>3, <1>4, <1>5 DEF PairInv, Pair!TypeOK, Fifos, Pipes

\* What the client reads is the answer to its last line, if the service is there.
LEMMA PairClientReceives == ASSUME PairInv, Pair!ClientReceives PROVE PairInv'
<1>. USE DEF Pair!Processes, Pair!Channels
<1>1. /\ at["client"] = "receive" /\ pair # "pipe"
      /\ UNCHANGED <<pair, made, reader, writer, line, hand>>
      /\ channel["down"] # <<>> \/ writer["down"] = {}
      /\ reader \in [Pair!Channels -> SUBSET Pair!Processes]
      /\ writer \in [Pair!Channels -> SUBSET Pair!Processes]
      /\ Fifos /\ Meeting /\ EndsOpen /\ TakeTurns
      /\ at["client"] \in ClientPlaces /\ at["service"] \in ServicePlaces
  BY DEF Pair!ClientReceives, Pair!Readable, PairInv, Pair!TypeOK, Fifos, Pipes
<1>2. PICK next \in {"eof", "type"} :
        /\ next = "eof" => channel["down"] = <<>>
        /\ Pair!Goto("client", next)
  BY DEF Pair!ClientReceives
<1>3. at' \in [Pair!Processes -> Pair!Labels] /\ at'["client"] = next /\ at'["service"] = at["service"]
  BY <1>2, PairGoto DEF Pair!Labels
<1>4. /\ channel' \in [Pair!Channels -> Seq(Pair!Sent)]
      /\ channel'["down"] = <<>> /\ channel'["up"] = channel["up"]
      /\ channel["down"] # <<>> => Head(channel["down"]) \in Pair!Sent /\ channel["up"] = <<>>
  BY PairTaken DEF Pair!ClientReceives
<1>5. /\ channel["down"] # <<>> => answer' = line
      /\ channel["down"] = <<>> => answer' = 0
  BY <1>1 DEF Pair!ClientReceives, TakeTurns, OneLine
<1>6. channel["down"] = <<>> => Pair!Ended("service")
  BY <1>1 DEF EndsOpen, Meeting, Pair!Ended, Talking
<1>7. channel["down"] # <<>> /\ ~Pair!Ended("service") => at["service"] = "read"
  BY <1>1 DEF TakeTurns, Meeting, Pair!Ended, Talking
<1>8. Len(channel'["up"]) + Len(channel'["down"]) <= 1
  <2>1. PICK m, n : m = Len(channel["up"]) /\ n = Len(channel["down"])
    OBVIOUS
  <2>2. m \in Nat /\ n \in Nat /\ m + n <= 1
    BY <2>1 DEF PairInv, Pair!TypeOK
  <2>3. Len(channel'["down"]) = 0 /\ Len(channel'["up"]) = m
    BY <1>4, <2>1, EmptySeq
  <2>4. m + 0 <= 1
    BY <2>2
  <2>. QED
    BY <2>3, <2>4
<1>9. answer' \in 0..Lines
  BY <1>1, <1>5, LinesAssumption DEF PairInv, Pair!TypeOK
<1>10. Meeting' /\ at'["client"] \in ClientPlaces /\ at'["service"] \in ServicePlaces
  BY <1>1, <1>3 DEF ClientPlaces, ServicePlaces, Meeting, Pair!Ended, Talking
<1>11. EndsOpen'
  BY <1>1, <1>3 DEF EndsOpen, Talking
<1>12. TakeTurns' /\ (at'["service"] = "make" => ~made')
  <2>1. answer' = line' \/ (answer' = 0 /\ Pair!Ended("service")')
    BY <1>1, <1>3, <1>5, <1>6 DEF Pair!Ended
  <2>2. ~Pair!Ended("service") => channel["up"] = <<>> /\ at["service"] = "read"
    BY <1>4, <1>6, <1>7
  <2>3. at["service"] # "make" /\ (at["service"] = "answer" => channel["up"] = <<>> /\ hand # 0)
    BY <1>1 DEF TakeTurns, Meeting, Pair!Ended, Talking
  <2>. QED
    BY <1>1, <1>3, <1>4, <2>1, <2>2, <2>3 DEF TakeTurns, OneLine, Pair!Ended
<1>. QED
  BY <1>1, <1>3, <1>4, <1>8, <1>9, <1>10, <1>11, <1>12 DEF PairInv, Pair!TypeOK, Fifos, Pipes

\* The client that has read the end closes the rest and ends.
LEMMA PairClientCloses == ASSUME PairInv, Pair!ClientCloses PROVE PairInv'
<1>. USE DEF Pair!Processes, Pair!Channels
<1>1. /\ at["client"] \in {"quit", "eof"} /\ pair # "pipe" /\ made' = FALSE
      /\ UNCHANGED <<pair, channel, line, answer, hand>>
      /\ reader \in [Pair!Channels -> SUBSET Pair!Processes]
      /\ writer \in [Pair!Channels -> SUBSET Pair!Processes]
      /\ Fifos /\ Meeting /\ EndsOpen /\ TakeTurns
      /\ at["client"] \in ClientPlaces /\ at["service"] \in ServicePlaces
  BY DEF Pair!ClientCloses, PairInv, Pair!TypeOK, Fifos, Pipes
<1>2. at' \in [Pair!Processes -> Pair!Labels] /\ at'["client"] = "done" /\ at'["service"] = at["service"]
  BY PairGoto DEF Pair!ClientCloses, Pair!Labels
<1>6. /\ reader' \in [Pair!Channels -> SUBSET Pair!Processes]
      /\ writer' \in [Pair!Channels -> SUBSET Pair!Processes]
      /\ \A f \in Pair!Channels : reader'[f] = reader[f] \ {"client"} /\ writer'[f] = writer[f] \ {"client"}
  BY PairCloseAll DEF Pair!ClientCloses
<1>3. Meeting' /\ at'["client"] \in ClientPlaces /\ at'["service"] \in ServicePlaces
  BY <1>1, <1>2, <1>6 DEF ClientPlaces, ServicePlaces, Meeting, EndsOpen, Pair!Ended, Talking
<1>4. EndsOpen'
  BY <1>1, <1>2, <1>6 DEF EndsOpen, Talking
<1>5. TakeTurns' /\ (at'["service"] = "make" => ~made')
  BY <1>1, <1>2, <1>6 DEF Fifos, TakeTurns, OneLine, Pair!Ended, Meeting, EndsOpen, ServicePlaces, Talking
<1>. QED
  BY <1>1, <1>2, <1>3, <1>4, <1>5, <1>6 DEF PairInv, Pair!TypeOK, Fifos, Pipes

\* A process that is killed has closed all it had open.
LEMMA PairKilled == ASSUME PairInv, NEW p \in Pair!Processes, Pair!Killed(p) PROVE PairInv'
<1>. USE DEF Pair!Processes, Pair!Channels
<1>1. /\ ~Pair!Ended(p) /\ UNCHANGED <<pair, made, channel, line, answer, hand>>
  BY DEF Pair!Killed
<1>2. /\ at' \in [Pair!Processes -> Pair!Labels] /\ at'[p] = "killed"
      /\ \A q \in Pair!Processes : q # p => at'[q] = at[q]
  BY PairGoto DEF Pair!Killed, Pair!Labels
<1>3. /\ reader' \in [Pair!Channels -> SUBSET Pair!Processes]
      /\ writer' \in [Pair!Channels -> SUBSET Pair!Processes]
      /\ \A f \in Pair!Channels : reader'[f] = reader[f] \ {p} /\ writer'[f] = writer[f] \ {p}
  BY PairCloseAll DEF Pair!Killed
<1>4. ASSUME pair # "pipe"
      PROVE  Fifos'
  <2>1. Meeting /\ EndsOpen /\ TakeTurns /\ (at["service"] = "make" => ~made)
        /\ at["client"] \in ClientPlaces /\ at["service"] \in ServicePlaces
    BY <1>4 DEF PairInv, Fifos
  <2>2. Meeting' /\ at'["client"] \in ClientPlaces /\ at'["service"] \in ServicePlaces
    BY <1>2, <2>1 DEF ClientPlaces, ServicePlaces, Meeting, Pair!Ended
  <2>3. CASE p = "client"
    <3>1. EndsOpen'
      BY <1>1, <1>2, <1>3, <2>1, <2>3 DEF EndsOpen, Talking
    <3>2. TakeTurns' /\ (at'["service"] = "make" => ~made')
      BY <1>1, <1>2, <2>1, <2>3 DEF TakeTurns, OneLine, Pair!Ended
    <3>. QED
      BY <2>2, <3>1, <3>2 DEF Fifos
  <2>4. CASE p = "service"
    <3>1. EndsOpen'
      BY <1>1, <1>2, <1>3, <2>1, <2>4 DEF EndsOpen, Talking
    <3>2. TakeTurns' /\ (at'["service"] = "make" => ~made')
      BY <1>1, <1>2, <2>1, <2>4 DEF TakeTurns, OneLine, Pair!Ended
    <3>. QED
      BY <2>2, <3>1, <3>2 DEF Fifos
  <2>. QED
    BY <2>3, <2>4
<1>5. ASSUME pair = "pipe"
      PROVE  Pipes'
  <2>1. CASE p = "client"
    BY <1>1, <1>2, <1>3, <1>5, <2>1 DEF PairInv, Pipes, OneLine, Pair!Ended
  <2>2. CASE p = "service"
    BY <1>1, <1>2, <1>3, <1>5, <2>2 DEF PairInv, Pipes, OneLine, Pair!Ended
  <2>. QED
    BY <2>1, <2>2
<1>. QED
  BY <1>1, <1>2, <1>3, <1>4, <1>5 DEF PairInv, Pair!TypeOK, Fifos, Pipes

\* An end of a pipe is closed in one process.
LEMMA PairShut ==
    ASSUME NEW ends \in [Pair!Channels -> SUBSET Pair!Processes], NEW new, NEW f \in Pair!Channels,
           NEW p \in Pair!Processes, new = Pair!Shut(ends, f, p)
    PROVE  /\ new \in [Pair!Channels -> SUBSET Pair!Processes]
           /\ new[f] = ends[f] \ {p}
           /\ \A g \in Pair!Channels : g # f => new[g] = ends[g]
BY DEF Pair!Shut

\* Where the parent and the child of test_process_pipe are.
LEMMA PairPipe ==
    ASSUME PairInv, pair = "pipe"
    PROVE  /\ Pipes /\ Pair!TypeOK /\ Len(channel["up"]) + Len(channel["down"]) <= 1
           /\ reader \in [Pair!Channels -> SUBSET Pair!Processes]
           /\ writer \in [Pair!Channels -> SUBSET Pair!Processes]
           /\ channel \in [Pair!Channels -> Seq(Pair!Sent)]
BY DEF PairInv, Pair!TypeOK

\* The lengths of the two channels together.
LEMMA PairLengths ==
    ASSUME NEW content, NEW f \in Pair!Channels, NEW g \in Pair!Channels, f # g,
           NEW m \in Nat, NEW n \in Nat, m + n <= 1, Len(content[f]) = m, Len(content[g]) = n
    PROVE  Len(content["up"]) + Len(content["down"]) <= 1
<1>1. CASE f = "up" /\ g = "down"
  BY <1>1
<1>2. CASE f = "down" /\ g = "up"
  <2>1. n + m <= 1 /\ Len(content["up"]) = n /\ Len(content["down"]) = m
    BY <1>2
  <2>. QED
    BY <2>1
<1>3. (f = "up" /\ g = "down") \/ (f = "down" /\ g = "up")
  BY DEF Pair!Channels
<1>. QED
  BY <1>1, <1>2, <1>3

\* One message each way is all that is written to the pipes.
LEMMA PairOnly ==
    ASSUME PairInv, NEW f \in Pair!Channels, NEW g \in Pair!Channels, f # g, channel[g] = <<>>,
           channel' = [channel EXCEPT ![f] = <<[n |-> 1, quit |-> FALSE]>>]
    PROVE  /\ channel' \in [Pair!Channels -> Seq(Pair!Sent)]
           /\ channel'[g] = <<>> /\ channel'[f] # <<>> /\ Head(channel'[f]).n = 1
           /\ Len(channel'["up"]) + Len(channel'["down"]) <= 1
<1>1. PICK m \in Pair!Sent : m = [n |-> 1, quit |-> FALSE] /\ m.n = 1
  <2>1. 1 \in 1..Lines /\ FALSE \in BOOLEAN
    BY LinesAssumption
  <2>. QED
    BY <2>1, PairMessage
<1>2. channel \in [Pair!Channels -> Seq(Pair!Sent)] /\ <<m>> \in Seq(Pair!Sent)
  BY DEF PairInv, Pair!TypeOK
<1>3. channel' = [channel EXCEPT ![f] = <<m>>]
  BY <1>1
<1>4. channel' \in [Pair!Channels -> Seq(Pair!Sent)] /\ channel'[f] = <<m>> /\ channel'[g] = <<>>
  BY <1>2, <1>3
<1>5. Len(<<m>>) = 1 /\ Len(<<>>) = 0 /\ <<m>> # <<>> /\ Head(<<m>>) = m
  OBVIOUS
<1>6. Len(channel'["up"]) + Len(channel'["down"]) <= 1
  <2>1. Len(channel'[f]) = 1 /\ Len(channel'[g]) = 0 /\ 1 + 0 <= 1 /\ 1 \in Nat /\ 0 \in Nat
    BY <1>4, <1>5
  <2>. QED
    BY <2>1, PairLengths
<1>. QED
  BY <1>1, <1>4, <1>5, <1>6

\* A pipe that is emptied.
LEMMA PairEmptied ==
    ASSUME PairInv, NEW f \in Pair!Channels, NEW g \in Pair!Channels, f # g,
           channel' = [channel EXCEPT ![f] = <<>>]
    PROVE  /\ channel' \in [Pair!Channels -> Seq(Pair!Sent)]
           /\ channel'[f] = <<>> /\ channel'[g] = channel[g]
           /\ Len(channel'["up"]) + Len(channel'["down"]) <= 1
           /\ channel[f] # <<>> => channel[f][1] = Head(channel[f]) /\ channel[f][1] \in Pair!Sent
<1>1. channel \in [Pair!Channels -> Seq(Pair!Sent)] /\ <<>> \in Seq(Pair!Sent)
  BY EmptySeq DEF PairInv, Pair!TypeOK
<1>2. channel' \in [Pair!Channels -> Seq(Pair!Sent)] /\ channel'[f] = <<>> /\ channel'[g] = channel[g]
  BY <1>1
<1>3. PICK s \in Seq(Pair!Sent), t \in Seq(Pair!Sent) : s = channel[f] /\ t = channel[g]
  BY <1>1
<1>4. PICK m, n : m = Len(s) /\ n = Len(t)
  OBVIOUS
<1>5. m \in Nat /\ n \in Nat /\ m + n <= 1
  <2>1. m \in Nat /\ n \in Nat
    BY <1>4
  <2>2. CASE f = "up" /\ g = "down"
    BY <1>3, <1>4, <2>1, <2>2 DEF PairInv
  <2>3. CASE f = "down" /\ g = "up"
    <3>1. n + m <= 1
      BY <1>3, <1>4, <2>1, <2>3 DEF PairInv
    <3>. QED
      BY <2>1, <3>1
  <2>. QED
    BY <2>2, <2>3 DEF Pair!Channels
<1>6. Len(channel'[f]) = 0 /\ Len(channel'[g]) = n
  BY <1>2, <1>3, <1>4, EmptySeq
<1>7. Len(channel'["up"]) + Len(channel'["down"]) <= 1
  <2>1. 0 + n <= 1 /\ 0 \in Nat /\ n \in Nat
    BY <1>5
  <2>. QED
    BY <1>6, <2>1, PairLengths
<1>8. s # <<>> => s[1] = Head(s) /\ s[1] \in Pair!Sent
  BY HeadTailProperties, EmptySeq
<1>. QED
  BY <1>2, <1>3, <1>7, <1>8

\* The parent of test_process_pipe writes its one message.
LEMMA PairParentWrites == ASSUME PairInv, Pair!ParentWrites PROVE PairInv'
<1>. USE DEF Pair!Processes, Pair!Channels
<1>1. /\ pair = "pipe" /\ at["client"] = "start" /\ line' = 1 /\ UNCHANGED <<pair, made, answer, hand>>
  BY DEF Pair!ParentWrites
<1>2. line' \in 0..Lines
  BY <1>1, LinesAssumption
<1>3. CASE /\ reader["up"] \ {"client"} # {}
           /\ channel' = [channel EXCEPT !["up"] = <<[n |-> 1, quit |-> FALSE]>>]
           /\ Pair!Goto("client", "close down")
           /\ reader' = Pair!Shut(reader, "up", "client") /\ writer' = Pair!Shut(writer, "up", "client")
  <2>1. at' \in [Pair!Processes -> Pair!Labels] /\ at'["client"] = "close down" /\ at'["service"] = at["service"]
    BY <1>3, PairGoto DEF Pair!Labels
  <2>2. /\ reader' \in [Pair!Channels -> SUBSET Pair!Processes]
        /\ reader'["up"] = reader["up"] \ {"client"} /\ reader'["down"] = reader["down"]
    BY <1>1, <1>3, PairPipe, PairShut
  <2>3. /\ writer' \in [Pair!Channels -> SUBSET Pair!Processes]
        /\ writer'["up"] = writer["up"] \ {"client"} /\ writer'["down"] = writer["down"]
    BY <1>1, <1>3, PairPipe, PairShut
  <2>4. channel["down"] = <<>> /\ ~Pair!Ended("service")
    BY <1>1, <1>3, PairPipe DEF Pipes, Pair!TypeOK
  <2>5. /\ channel' \in [Pair!Channels -> Seq(Pair!Sent)]
        /\ channel'["down"] = <<>> /\ channel'["up"] # <<>> /\ Head(channel'["up"]).n = 1
        /\ Len(channel'["up"]) + Len(channel'["down"]) <= 1
    BY <1>3, <2>4, PairOnly
  <2>. QED
    BY <1>1, <1>2, <2>1, <2>2, <2>3, <2>4, <2>5 DEF PairInv, Pair!TypeOK, Fifos, Pipes, OneLine, Pair!Ended
<1>4. CASE Pair!Goto("client", "killed") /\ Pair!CloseAll("client") /\ UNCHANGED channel
  <2>1. at' \in [Pair!Processes -> Pair!Labels] /\ at'["client"] = "killed" /\ at'["service"] = at["service"]
    BY <1>4, PairGoto DEF Pair!Labels
  <2>2. /\ reader' \in [Pair!Channels -> SUBSET Pair!Processes]
        /\ writer' \in [Pair!Channels -> SUBSET Pair!Processes]
        /\ \A f \in Pair!Channels : reader'[f] = reader[f] \ {"client"} /\ writer'[f] = writer[f] \ {"client"}
    BY <1>4, PairCloseAll
  <2>. QED
    BY <1>1, <1>2, <1>4, <2>1, <2>2 DEF PairInv, Pair!TypeOK, Fifos, Pipes, OneLine, Pair!Ended
<1>. QED
  BY <1>3, <1>4 DEF Pair!ParentWrites

\* The parent closes the end of "down" it does not use.
LEMMA PairParentClosesDown == ASSUME PairInv, Pair!ParentClosesDown PROVE PairInv'
<1>. USE DEF Pair!Processes, Pair!Channels
<1>1. /\ at["client"] = "close down" /\ UNCHANGED <<pair, made, reader, channel, line, answer, hand>>
      /\ pair = "pipe"
  BY DEF Pair!ParentClosesDown, PairInv, Fifos, ClientPlaces, Talking
<1>2. at' \in [Pair!Processes -> Pair!Labels] /\ at'["client"] = "read down" /\ at'["service"] = at["service"]
  BY PairGoto DEF Pair!ParentClosesDown, Pair!Labels
<1>3. /\ writer' \in [Pair!Channels -> SUBSET Pair!Processes]
      /\ writer'["down"] = writer["down"] \ {"client"} /\ writer'["up"] = writer["up"]
  BY <1>1, PairPipe, PairShut DEF Pair!ParentClosesDown
<1>. QED
  BY <1>1, <1>2, <1>3 DEF PairInv, Pair!TypeOK, Fifos, Pipes, OneLine, Pair!Ended

\* The parent reads the message of its child, or the end.
LEMMA PairParentReads == ASSUME PairInv, Pair!ParentReads PROVE PairInv'
<1>. USE DEF Pair!Processes, Pair!Channels
<1>1. /\ at["client"] = "read down" /\ UNCHANGED <<pair, made, writer, line, hand>>
      /\ channel["down"] # <<>> \/ writer["down"] = {}
      /\ pair = "pipe"
  BY DEF Pair!ParentReads, Pair!Readable, PairInv, Fifos, ClientPlaces, Talking
<1>2. at' \in [Pair!Processes -> Pair!Labels] /\ at'["client"] = "wait" /\ at'["service"] = at["service"]
  BY PairGoto DEF Pair!ParentReads, Pair!Labels
<1>3. /\ reader' \in [Pair!Channels -> SUBSET Pair!Processes]
      /\ reader'["down"] = reader["down"] \ {"client"} /\ reader'["up"] = reader["up"]
  BY <1>1, PairPipe, PairShut DEF Pair!ParentReads
<1>4. /\ channel' \in [Pair!Channels -> Seq(Pair!Sent)]
      /\ channel'["down"] = <<>> /\ channel'["up"] = channel["up"]
      /\ Len(channel'["up"]) + Len(channel'["down"]) <= 1
      /\ channel["down"] # <<>> => channel["down"][1] = Head(channel["down"])
  BY PairEmptied DEF Pair!ParentReads
<1>5. channel["down"] = <<>> => Pair!Ended("service")
  BY <1>1, PairPipe DEF Pipes
<1>6. answer' = line \/ (answer' = 0 /\ Pair!Ended("service"))
  BY <1>1, <1>4, <1>5, PairPipe DEF Pair!ParentReads, Pipes, OneLine
<1>7. answer' \in 0..Lines
  BY <1>6, LinesAssumption DEF PairInv, Pair!TypeOK
<1>. QED
  BY <1>1, <1>2, <1>3, <1>4, <1>6, <1>7 DEF PairInv, Pair!TypeOK, Fifos, Pipes, OneLine, Pair!Ended

\* The parent waits for its child.
LEMMA PairParentWaits == ASSUME PairInv, Pair!ParentWaits PROVE PairInv'
<1>. USE DEF Pair!Processes, Pair!Channels
<1>1. /\ at["client"] = "wait" /\ UNCHANGED <<pair, made, reader, writer, channel, line, answer, hand>>
      /\ pair = "pipe"
  BY DEF Pair!ParentWaits, PairInv, Fifos, ClientPlaces, Talking
<1>2. at' \in [Pair!Processes -> Pair!Labels] /\ at'["client"] = "done" /\ at'["service"] = at["service"]
  BY PairGoto DEF Pair!ParentWaits, Pair!Labels
<1>. QED
  BY <1>1, <1>2 DEF PairInv, Pair!TypeOK, Fifos, Pipes, OneLine, Pair!Ended

\* The child closes the end of "up" it does not use.
LEMMA PairChildClosesUp == ASSUME PairInv, Pair!ChildClosesUp PROVE PairInv'
<1>. USE DEF Pair!Processes, Pair!Channels
<1>1. /\ pair = "pipe" /\ at["service"] = "start"
      /\ UNCHANGED <<pair, made, reader, channel, line, answer, hand>>
  BY DEF Pair!ChildClosesUp
<1>2. at' \in [Pair!Processes -> Pair!Labels] /\ at'["service"] = "read up" /\ at'["client"] = at["client"]
  BY PairGoto DEF Pair!ChildClosesUp, Pair!Labels
<1>3. /\ writer' \in [Pair!Channels -> SUBSET Pair!Processes]
      /\ writer'["up"] = writer["up"] \ {"service"} /\ writer'["down"] = writer["down"]
  BY <1>1, PairPipe, PairShut DEF Pair!ChildClosesUp
<1>. QED
  BY <1>1, <1>2, <1>3 DEF PairInv, Pair!TypeOK, Fifos, Pipes, OneLine, Pair!Ended

\* The child reads the message of its parent, or the end.
LEMMA PairChildReads == ASSUME PairInv, Pair!ChildReads PROVE PairInv'
<1>. USE DEF Pair!Processes, Pair!Channels
<1>1. /\ at["service"] = "read up" /\ UNCHANGED <<pair, made, writer, line, answer>>
      /\ channel["up"] # <<>> \/ writer["up"] = {}
      /\ pair = "pipe"
  BY DEF Pair!ChildReads, Pair!Readable, PairInv, Fifos, ServicePlaces
<1>2. at' \in [Pair!Processes -> Pair!Labels] /\ at'["service"] = "write down" /\ at'["client"] = at["client"]
  BY PairGoto DEF Pair!ChildReads, Pair!Labels
<1>3. /\ reader' \in [Pair!Channels -> SUBSET Pair!Processes]
      /\ reader'["up"] = reader["up"] \ {"service"} /\ reader'["down"] = reader["down"] \ {"service"}
  <2>1. PICK half : half = Pair!Shut(reader, "up", "service")
    OBVIOUS
  <2>2. /\ half \in [Pair!Channels -> SUBSET Pair!Processes]
        /\ half["up"] = reader["up"] \ {"service"} /\ half["down"] = reader["down"]
    BY <1>1, <2>1, PairPipe, PairShut
  <2>3. reader' = Pair!Shut(half, "down", "service")
    BY <2>1 DEF Pair!ChildReads, Pair!Shut
  <2>. QED
    BY <2>2, <2>3, PairShut
<1>4. /\ channel' \in [Pair!Channels -> Seq(Pair!Sent)]
      /\ channel'["up"] = <<>> /\ channel'["down"] = channel["down"]
      /\ Len(channel'["up"]) + Len(channel'["down"]) <= 1
      /\ channel["up"] # <<>> => channel["up"][1] = Head(channel["up"]) /\ channel["up"][1] \in Pair!Sent
  BY PairEmptied DEF Pair!ChildReads
<1>5. /\ channel["down"] = <<>>
      /\ at["client"] # "start"
      /\ at["client"] \in {"close down", "read down"} => channel["up"] # <<>> /\ line = 1
  BY <1>1, PairPipe DEF Pipes, Pair!Ended
<1>6. hand' \in 0..Lines /\ (at["client"] \in {"close down", "read down"} => hand' = 1)
  <2>1. CASE channel["up"] = <<>>
    <3>1. hand' = 0 /\ at["client"] \notin {"close down", "read down"}
      BY <1>5, <2>1 DEF Pair!ChildReads
    <3>2. 0 \in 0..Lines
      BY LinesAssumption
    <3>. QED
      BY <3>1, <3>2
  <2>2. CASE channel["up"] # <<>>
    <3>1. hand' = Head(channel["up"]).n /\ hand' \in 1..Lines
      BY <1>4, <2>2 DEF Pair!ChildReads, Pair!Sent
    <3>2. at["client"] \in {"close down", "read down"} => Head(channel["up"]).n = 1
      BY <1>1, <2>2, PairPipe DEF Pipes, OneLine
    <3>3. hand' \in 0..Lines
      BY <3>1, LinesAssumption
    <3>. QED
      BY <3>1, <3>2, <3>3
  <2>. QED
    BY <2>1, <2>2
<1>. QED
  BY <1>1, <1>2, <1>3, <1>4, <1>5, <1>6 DEF PairInv, Pair!TypeOK, Fifos, Pipes, OneLine, Pair!Ended

\* The child writes its one message, or is killed.
LEMMA PairChildWrites == ASSUME PairInv, Pair!ChildWrites PROVE PairInv'
<1>. USE DEF Pair!Processes, Pair!Channels
<1>1. /\ at["service"] = "write down" /\ UNCHANGED <<pair, made, line, answer, hand>>
      /\ pair = "pipe"
  BY DEF Pair!ChildWrites, PairInv, Fifos, ServicePlaces
<1>2. PICK new \in {"killed", "done"} : Pair!Goto("service", new)
  BY DEF Pair!ChildWrites
<1>3. at' \in [Pair!Processes -> Pair!Labels] /\ at'["service"] = new /\ at'["client"] = at["client"]
  BY <1>2, PairGoto DEF Pair!Labels
<1>4. /\ reader' \in [Pair!Channels -> SUBSET Pair!Processes]
      /\ writer' \in [Pair!Channels -> SUBSET Pair!Processes]
      /\ \A f \in Pair!Channels : reader'[f] = reader[f] \ {"service"} /\ writer'[f] = writer[f] \ {"service"}
  BY PairCloseAll DEF Pair!ChildWrites
<1>5. channel["up"] = <<>> /\ channel["down"] = <<>> /\ at["client"] # "start"
  BY <1>1, PairPipe DEF Pipes, Pair!Ended
<1>6. CASE UNCHANGED channel
  BY <1>1, <1>3, <1>4, <1>5, <1>6 DEF PairInv, Pair!TypeOK, Fifos, Pipes, OneLine, Pair!Ended
<1>7. CASE channel' = [channel EXCEPT !["down"] = <<[n |-> 1, quit |-> FALSE]>>]
  <2>1. /\ channel' \in [Pair!Channels -> Seq(Pair!Sent)]
        /\ channel'["up"] = <<>> /\ channel'["down"] # <<>> /\ Head(channel'["down"]).n = 1
        /\ Len(channel'["up"]) + Len(channel'["down"]) <= 1
    BY <1>5, <1>7, PairOnly
  <2>. QED
    BY <1>1, <1>3, <1>4, <1>5, <2>1 DEF PairInv, Pair!TypeOK, Fifos, Pipes, OneLine, Pair!Ended
<1>. QED
  BY <1>6, <1>7 DEF Pair!ChildWrites

\* Every step of the two processes preserves PairInv.
LEMMA PairNext == ASSUME PairInv, Pair!Next PROVE PairInv'
<1>1. CASE Pair!Client
  BY <1>1, PairClientOpens, PairClientReceives, PairClientCloses, PairParentWrites,
     PairParentClosesDown, PairParentReads, PairParentWaits DEF Pair!Client
<1>2. CASE Pair!Service
  BY <1>2, PairMake, PairServiceOpens, PairServiceReads, PairServiceAnswers, PairChildClosesUp,
     PairChildReads, PairChildWrites DEF Pair!Service
<1>. QED
  BY <1>1, <1>2, PairClientTypes, PairClientEof, PairKilled DEF Pair!Next

\* So does a step of another program.
LEMMA PairUnchanged == ASSUME PairInv, UNCHANGED pairVars PROVE PairInv'
<1>1. UNCHANGED <<pair, made, at, reader, writer, channel, line, answer, hand>>
  BY DEF pairVars
<1>2. Pair!TypeOK' /\ Len(channel'["up"]) + Len(channel'["down"]) <= 1
  BY <1>1 DEF PairInv, Pair!TypeOK
<1>3. Fifos'
  BY <1>1 DEF PairInv, Fifos, Meeting, EndsOpen, TakeTurns, OneLine, Pair!Ended
<1>4. Pipes'
  BY <1>1 DEF PairInv, Pipes, OneLine, Pair!Ended
<1>. QED
  BY <1>2, <1>3, <1>4 DEF PairInv

\* PairInv holds when two processes are started, and when they are not run.
LEMMA PairInit == ASSUME Pair!Init \/ Pair!NotRun PROVE PairInv
<1>. USE DEF Pair!Processes, Pair!Channels
<1>1. /\ pair \in Pair!Programs /\ made \in BOOLEAN
      /\ channel = [f \in Pair!Channels |-> <<>>] /\ line = 0 /\ answer = 0 /\ hand = 0
      /\ pair \notin {"pipe", "process"} => ~made
  <2>1. /\ pair \in Pair!Programs /\ channel = [f \in Pair!Channels |-> <<>>]
        /\ line = 0 /\ answer = 0 /\ hand = 0 /\ made = (pair \in {"pipe", "process"})
    BY DEF Pair!Init, Pair!NotRun, Pair!Quiet
  <2>2. made \in BOOLEAN
    BY <2>1, SMT
  <2>3. pair \notin {"pipe", "process"} => ~made
    BY <2>1, Zenon
  <2>. QED
    BY <2>1, <2>2, <2>3
<1>2. /\ channel \in [Pair!Channels -> Seq(Pair!Sent)] /\ channel["up"] = <<>> /\ channel["down"] = <<>>
      /\ Len(channel["up"]) + Len(channel["down"]) <= 1
  <2>1. <<>> \in Seq(Pair!Sent) /\ Len(<<>>) = 0
    BY EmptySeq
  <2>2. channel["up"] = <<>> /\ channel["down"] = <<>>
    BY <1>1
  <2>3. Len(channel["up"]) + Len(channel["down"]) = 0
    BY <2>1, <2>2
  <2>. QED
    BY <1>1, <2>1, <2>2, <2>3
<1>3. line \in 0..Lines /\ answer \in 0..Lines /\ hand \in 0..Lines
  BY <1>1, LinesAssumption
<1>4. CASE Pair!Init
  <2>1. /\ at \in [Pair!Processes -> Pair!Labels] /\ at["client"] = "start"
        /\ at["service"] = IF pair \in {"independent", "mesg"} THEN "make" ELSE "start"
    BY <1>4 DEF Pair!Init, Pair!Labels
  <2>2. reader = [f \in Pair!Channels |-> IF pair = "pipe" THEN Pair!Processes ELSE {}] /\ writer = reader
    BY <1>4 DEF Pair!Init
  <2>3. /\ reader \in [Pair!Channels -> SUBSET Pair!Processes]
        /\ writer \in [Pair!Channels -> SUBSET Pair!Processes]
        /\ \A f \in Pair!Channels : /\ pair = "pipe" => reader[f] = Pair!Processes /\ writer[f] = Pair!Processes
                                    /\ pair # "pipe" => reader[f] = {} /\ writer[f] = {}
    BY <2>2
  <2>4. Pair!TypeOK
    BY <1>1, <1>2, <1>3, <2>1, <2>3 DEF Pair!TypeOK
  <2>5. Fifos
    BY <1>1, <1>2, <2>1, <2>3 DEF Fifos, ClientPlaces, ServicePlaces, Meeting, EndsOpen, TakeTurns,
       OneLine, Pair!Ended, Talking
  <2>6. Pipes
    BY <1>1, <1>2, <2>1, <2>3 DEF Pipes, OneLine, Pair!Ended
  <2>. QED
    BY <1>2, <2>4, <2>5, <2>6 DEF PairInv
<1>5. CASE Pair!NotRun
  <2>1. /\ at \in [Pair!Processes -> Pair!Labels] /\ at["client"] = "done" /\ at["service"] = "done"
        /\ pair = "pipe"
    BY <1>5 DEF Pair!NotRun, Pair!Labels
  <2>2. reader = [f \in Pair!Channels |-> {}] /\ writer = reader
    BY <1>5 DEF Pair!NotRun
  <2>3. /\ reader \in [Pair!Channels -> SUBSET Pair!Processes]
        /\ writer \in [Pair!Channels -> SUBSET Pair!Processes]
        /\ \A f \in Pair!Channels : reader[f] = {} /\ writer[f] = {}
    BY <2>2
  <2>4. Pair!TypeOK
    BY <1>1, <1>2, <1>3, <2>1, <2>3 DEF Pair!TypeOK
  <2>5. Pipes
    BY <1>1, <1>2, <2>1, <2>3 DEF Pipes, OneLine, Pair!Ended
  <2>. QED
    BY <1>2, <2>1, <2>4, <2>5 DEF PairInv, Fifos
<1>. QED
  BY <1>4, <1>5

\* PairInv says what a client that misses its answer has lost.
LEMMA PairMatches == ASSUME PairInv PROVE Pair!AnswerMatchesLine
BY DEF PairInv, Fifos, Pipes, TakeTurns, Pair!AnswerMatchesLine, ClientPlaces, Talking

-----------------------------------------------------------------------------
(* One service and many clients through FIFOs (FifoService).               *)

Asked(c) == \E i \in DOMAIN requests : requests[i] = c

\* A client asks once: its request is in the FIFO of the service, in the hands
\* of the service, or answered.
AsksOnce ==
  /\ \A i, j \in DOMAIN requests : requests[i] = requests[j] => i = j
  /\ \A c \in Clients :
       /\ Asked(c) \/ Fifo!InHand(c) => fifoClient[c] \in {"read", "interrupted"}
       /\ Asked(c) => ~Fifo!InHand(c) /\ Fifo!Answer(c) = <<>>
       /\ fifoClient[c] \in {"absent", "start", "failed", "request"} => Fifo!Answer(c) = <<>>
       /\ fifoClient[c] \in {"request", "read"} => c \in present
       /\ fifoClient[c] # "done"

\* How far the answer to the request in hand is.
HandAnswer ==
  /\ fifoServer \in {"open", "copy", "finish"} => current # <<>>
  /\ fifoServer = "open" => Fifo!Answer(Fifo!Asker) = <<>>
  /\ fifoServer = "copy" => Fifo!Answer(Fifo!Asker) = <<>> /\ asked[Fifo!Asker] = "found"
  /\ fifoServer = "finish" => Fifo!Answer(Fifo!Asker) = <<"content">> /\ asked[Fifo!Asker] = "found"
  /\ fifoServer = "open" /\ Len(current) # 1 => Fifo!Asker \in shared

Accounted ==
  \A c \in Clients :
    /\ Fifo!Answer(c) \in {<<>>, <<"content">>, <<"content", "end">>}
    /\ Fifo!Answer(c) # <<>> => asked[c] = "found"
    /\ fifoClient[c] = "read" /\ asked[c] = "found" /\ c \notin shared /\ ~Fifo!InHand(c) /\ ~Asked(c) =>
         Fifo!Answer(c) = <<"content", "end">>

FifoInv ==
  /\ Fifo!TypeOK
  /\ AsksOnce
  /\ HandAnswer
  /\ Accounted
  /\ fifoServer = "killed" => Fifo!Interrupted

\* The parts of FifoInv, by name.
LEMMA FifoParts ==
    ASSUME FifoInv
    PROVE  /\ Fifo!TypeOK /\ AsksOnce /\ HandAnswer /\ Accounted
           /\ fifoServer = "killed" => Fifo!Interrupted
           /\ fifoServer \in {"absent", "start", "read", "open", "copy", "finish", "killed"}
           /\ fifoServer \in {"open", "copy", "finish"} => Fifo!Asker \in Clients
           /\ requests \in Seq(Clients) /\ current \in Seq(Clients)
<1>1. FifoInv
  OBVIOUS
<1>2. fifoServer \in {"open", "copy", "finish"} => Fifo!Asker \in Clients
  <2>1. current \in Seq(Clients) /\ (fifoServer \in {"open", "copy", "finish"} => current # <<>>)
    BY DEF FifoInv, HandAnswer, Fifo!TypeOK
  <2>. QED
    BY <2>1, EmptySeq, HeadTailProperties DEF Fifo!Asker
<1>. QED
  BY <1>1, <1>2 DEF FifoInv, Fifo!TypeOK

\* What is appended to the second of two sequences is appended to both.
LEMMA ConcatAppend ==
    ASSUME NEW S, NEW o \in Seq(S), NEW s \in Seq(S), NEW e \in S
    PROVE  o \o Append(s, e) = Append(o \o s, e)
<1>1. Append(s, e) = s \o <<e>> /\ <<e>> \in Seq(S)
  OBVIOUS
<1>2. o \o s \in Seq(S)
  BY ConcatProperties
<1>3. Append(o \o s, e) = (o \o s) \o <<e>>
  BY <1>2
<1>. QED
  BY <1>1, <1>3, ConcatAssociative

\* What is written to a client and what it has printed are one answer.
LEMMA AnswerGrows ==
    ASSUME FifoInv, NEW c \in Clients, NEW what \in {"content", "end"},
           pipe' = [pipe EXCEPT ![c] = Append(@, what)], UNCHANGED output
    PROVE  /\ pipe' \in [Clients -> Seq({"content", "end"})]
           /\ Fifo!Answer(c)' = Append(Fifo!Answer(c), what)
           /\ \A d \in Clients : d # c => Fifo!Answer(d)' = Fifo!Answer(d)
<1>1. pipe \in [Clients -> Seq({"content", "end"})] /\ output \in [Clients -> Seq({"content", "end"})]
  BY DEF FifoInv, Fifo!TypeOK
<1>2. /\ pipe' \in [Clients -> Seq({"content", "end"})] /\ pipe'[c] = Append(pipe[c], what)
      /\ \A d \in Clients : d # c => pipe'[d] = pipe[d]
  BY <1>1
<1>3. PICK o, s \in Seq({"content", "end"}) : o = output[c] /\ s = pipe[c]
  BY <1>1
<1>4. o \o Append(s, what) = Append(o \o s, what)
  BY ConcatAppend
<1>. QED
  BY <1>2, <1>3, <1>4 DEF Fifo!Answer

\* What a client reads moves from its FIFO to its output.
LEMMA AnswerMoves ==
    ASSUME FifoInv, NEW c \in Clients,
           output' = [output EXCEPT ![c] = @ \o pipe[c]], pipe' = [pipe EXCEPT ![c] = <<>>]
    PROVE  /\ pipe' \in [Clients -> Seq({"content", "end"})]
           /\ output' \in [Clients -> Seq({"content", "end"})]
           /\ \A d \in Clients : Fifo!Answer(d)' = Fifo!Answer(d)
<1>1. pipe \in [Clients -> Seq({"content", "end"})] /\ output \in [Clients -> Seq({"content", "end"})]
  BY DEF FifoInv, Fifo!TypeOK
<1>2. /\ pipe' \in [Clients -> Seq({"content", "end"})] /\ pipe'[c] = <<>>
      /\ \A d \in Clients : d # c => pipe'[d] = pipe[d]
  BY <1>1, EmptySeq
<1>3. PICK o, s \in Seq({"content", "end"}) : o = output[c] /\ s = pipe[c]
  BY <1>1
<1>4. /\ output' \in [Clients -> Seq({"content", "end"})] /\ output'[c] = o \o s
      /\ \A d \in Clients : d # c => output'[d] = output[d]
  <2>1. o \o s \in Seq({"content", "end"})
    BY ConcatProperties
  <2>. QED
    BY <1>1, <1>3, <2>1
<1>5. (o \o s) \o <<>> = o \o s
  BY ConcatEmptySeq, ConcatProperties
<1>. QED
  BY <1>2, <1>3, <1>4, <1>5 DEF Fifo!Answer

\* An answer is the same while neither FIFO nor output changes.
LEMMA AnswerSame ==
    ASSUME UNCHANGED <<pipe, output>>
    PROVE  \A c \in Clients : Fifo!Answer(c)' = Fifo!Answer(c)
BY DEF Fifo!Answer

\* The service makes its FIFO (fifo_test.cpp:255-277).
LEMMA FifoServerStart == ASSUME FifoInv, Fifo!ServerStart PROVE FifoInv'
<1>1. /\ fifoServer = "start" /\ fifoServer' = "read"
      /\ UNCHANGED <<requests, current, writing, shared, fifoClient, asked, present, pipe, output>>
  BY DEF Fifo!ServerStart
<1>2. \A c \in Clients : Fifo!Answer(c)' = Fifo!Answer(c) /\ Asked(c)' = Asked(c) /\ Fifo!InHand(c)' = Fifo!InHand(c)
  BY <1>1, AnswerSame DEF Asked, Fifo!InHand
<1>3. Fifo!TypeOK'
  BY <1>1, FifoParts DEF Fifo!TypeOK
<1>4. AsksOnce' /\ HandAnswer' /\ Accounted'
  BY <1>1, <1>2, FifoParts DEF AsksOnce, HandAnswer, Accounted
<1>. QED
  BY <1>1, <1>3, <1>4 DEF FifoInv

\* The requests that are there are taken in one read.
LEMMA FifoServerRead == ASSUME FifoInv, Fifo!ServerRead PROVE FifoInv'
<1>1. /\ fifoServer = "read" /\ fifoServer' = "open" /\ requests # <<>>
      /\ current' = requests /\ requests' = <<>>
      /\ shared' = shared \cup (IF Len(requests) = 1 THEN {} ELSE {requests[i] : i \in DOMAIN requests})
      /\ UNCHANGED <<writing, fifoClient, asked, present, pipe, output>>
  BY DEF Fifo!ServerRead
<1>2. PICK n \in Nat \ {0} : n = Len(requests) /\ DOMAIN requests = 1 .. n
  BY <1>1, FifoParts, EmptySeq
<1>3. PICK a \in Clients : a = requests[1] /\ Fifo!Asker' = a /\ Asked(a)
  BY <1>1, <1>2, FifoParts DEF Fifo!Asker, Asked
<1>4. \A c \in Clients : /\ Fifo!Answer(c)' = Fifo!Answer(c)
                         /\ ~Asked(c)' /\ ~Fifo!InHand(c)
                         /\ Fifo!InHand(c)' <=> c = a
  <2>1. \A c \in Clients : Fifo!Answer(c)' = Fifo!Answer(c)
    BY <1>1, AnswerSame
  <2>2. \A c \in Clients : ~Asked(c)'
    BY <1>1 DEF Asked
  <2>. QED
    BY <1>1, <1>3, <2>1, <2>2 DEF Fifo!InHand
<1>5. \A c \in Clients : Asked(c) => c = a \/ c \in shared'
  BY <1>1, <1>2, <1>3 DEF Asked
<1>6. Len(current') # 1 => a \in shared'
  BY <1>1, <1>2, <1>3
<1>7. Fifo!TypeOK'
  <2>1. shared' \subseteq Clients
    BY <1>1, FifoParts DEF Fifo!TypeOK
  <2>2. requests' \in Seq(Clients) /\ current' \in Seq(Clients)
    BY <1>1, FifoParts, EmptySeq
  <2>. QED
    BY <1>1, <2>1, <2>2, FifoParts DEF Fifo!TypeOK
<1>8. AsksOnce'
  <2>1. \A i, j \in DOMAIN requests' : requests'[i] = requests'[j] => i = j
    BY <1>1
  <2>. QED
    BY <1>1, <1>3, <1>4, <2>1, FifoParts DEF AsksOnce
<1>9. HandAnswer'
  BY <1>1, <1>3, <1>4, <1>6, FifoParts DEF AsksOnce, HandAnswer
<1>10. Accounted'
  BY <1>1, <1>3, <1>4, <1>5, FifoParts DEF Accounted
<1>. QED
  BY <1>1, <1>7, <1>8, <1>9, <1>10 DEF FifoInv

\* The service opens the FIFO of who asked, if it is there and the file is found.
LEMMA FifoServerOpen == ASSUME FifoInv, Fifo!ServerOpen PROVE FifoInv'
<1>1. /\ fifoServer = "open" /\ fifoServer' \in {"copy", "read"}
      /\ UNCHANGED <<requests, current, shared, fifoClient, asked, present, pipe, output>>
      /\ fifoServer' = "copy" => asked[Fifo!Asker] = "found" /\ writing' = Fifo!Asker
      /\ fifoServer' = "read" => /\ Fifo!Asker \notin present \/ Len(current) # 1 \/ asked[Fifo!Asker] # "found"
                                 /\ UNCHANGED writing
  BY DEF Fifo!ServerOpen, Fifo!FileFound
<1>2. PICK a \in Clients : a = Fifo!Asker /\ a = Fifo!Asker'
  BY <1>1, FifoParts DEF Fifo!Asker
<1>3. \A c \in Clients : /\ Fifo!Answer(c)' = Fifo!Answer(c) /\ Asked(c)' = Asked(c)
                         /\ Fifo!InHand(c) <=> c = a
                         /\ Fifo!InHand(c)' <=> c = a /\ fifoServer' = "copy"
  <2>1. \A c \in Clients : Fifo!Answer(c)' = Fifo!Answer(c)
    BY <1>1, AnswerSame
  <2>2. \A c \in Clients : Asked(c)' = Asked(c)
    BY <1>1 DEF Asked
  <2>. QED
    BY <1>1, <1>2, <2>1, <2>2 DEF Fifo!InHand
<1>4. Fifo!TypeOK'
  BY <1>1, <1>2, FifoParts DEF Fifo!TypeOK
<1>5. AsksOnce'
  BY <1>1, <1>3, FifoParts DEF AsksOnce
<1>6. HandAnswer'
  BY <1>1, <1>2, <1>3, FifoParts DEF HandAnswer
<1>7. fifoServer' = "read" /\ fifoClient[a] = "read" /\ asked[a] = "found" => a \in shared
  BY <1>1, <1>2, FifoParts DEF AsksOnce, HandAnswer
<1>8. Accounted'
  BY <1>1, <1>3, <1>7, FifoParts DEF Accounted
<1>. QED
  BY <1>1, <1>4, <1>5, <1>6, <1>8 DEF FifoInv

\* A write to a client's FIFO grows its answer, or ends the service.
LEMMA FifoWrites ==
    ASSUME FifoInv, NEW a \in Clients, NEW what \in {"content", "end"}, NEW next \in {"finish", "read"},
           fifoServer \in {"copy", "finish"}, a = Fifo!Asker, Fifo!ServerWrites(a, what, next),
           UNCHANGED <<requests, current, shared, fifoClient, asked, present, output>>
    PROVE  /\ pipe' \in [Clients -> Seq({"content", "end"})]
           /\ fifoServer' \in {next, "killed"}
           /\ fifoServer' = next => Fifo!Answer(a)' = Append(Fifo!Answer(a), what)
           /\ fifoServer' = "killed" => fifoClient[a] = "interrupted" /\ Fifo!Answer(a)' = Fifo!Answer(a)
           /\ \A c \in Clients :
                /\ c # a => Fifo!Answer(c)' = Fifo!Answer(c)
                /\ Asked(c)' = Asked(c)
                /\ Fifo!InHand(c) <=> c = a
                /\ Fifo!InHand(c)' <=> c = a /\ fifoServer' = "finish"
<1>1. Fifo!Asker' = a
  BY DEF Fifo!Asker
<1>2. \A c \in Clients : Asked(c)' = Asked(c)
  BY DEF Asked
<1>3. \A c \in Clients : Fifo!InHand(c) <=> c = a
  BY DEF Fifo!InHand
<1>4. CASE Fifo!Readers(a) # {}
  <2>1. pipe' = [pipe EXCEPT ![a] = Append(@, what)] /\ fifoServer' = next
    BY <1>4 DEF Fifo!ServerWrites
  <2>2. \A c \in Clients : Fifo!InHand(c)' <=> c = a /\ fifoServer' = "finish"
    BY <1>1, <2>1 DEF Fifo!InHand
  <2>3. /\ pipe' \in [Clients -> Seq({"content", "end"})]
        /\ Fifo!Answer(a)' = Append(Fifo!Answer(a), what)
        /\ \A c \in Clients : c # a => Fifo!Answer(c)' = Fifo!Answer(c)
    BY <2>1, AnswerGrows
  <2>. QED
    BY <1>2, <1>3, <2>1, <2>2, <2>3
<1>5. CASE Fifo!Readers(a) = {}
  <2>1. fifoServer' = "killed" /\ UNCHANGED pipe
    BY <1>5 DEF Fifo!ServerWrites
  <2>2. \A c \in Clients : ~Fifo!InHand(c)'
    BY <2>1 DEF Fifo!InHand
  <2>3. fifoClient[a] = "interrupted"
    <3>1. fifoClient[a] \notin {"request", "read"}
      BY <1>5 DEF Fifo!Readers
    <3>2. fifoClient[a] \in {"read", "interrupted"}
      BY <1>3, FifoParts DEF AsksOnce
    <3>. QED
      BY <3>1, <3>2
  <2>4. pipe' \in [Clients -> Seq({"content", "end"})] /\ \A c \in Clients : Fifo!Answer(c)' = Fifo!Answer(c)
    BY <2>1, FifoParts, AnswerSame DEF Fifo!TypeOK
  <2>. QED
    BY <1>2, <1>3, <2>1, <2>2, <2>3, <2>4
<1>. QED
  BY <1>4, <1>5

\* The content of the file goes to the client that asked, or ends the service.
LEMMA FifoServerCopy == ASSUME FifoInv, Fifo!ServerCopy PROVE FifoInv'
<1>1. PICK a \in Clients : a = Fifo!Asker
  BY FifoParts DEF Fifo!ServerCopy
<1>2. /\ fifoServer = "copy" /\ Fifo!ServerWrites(a, "content", "finish") /\ a = Fifo!Asker'
      /\ UNCHANGED <<requests, current, writing, shared, fifoClient, asked, present, output>>
  BY <1>1 DEF Fifo!ServerCopy, Fifo!Asker
<1>3. /\ pipe' \in [Clients -> Seq({"content", "end"})]
      /\ fifoServer' \in {"finish", "killed"}
      /\ fifoServer' = "finish" => Fifo!Answer(a)' = Append(Fifo!Answer(a), "content")
      /\ fifoServer' = "killed" => fifoClient[a] = "interrupted" /\ Fifo!Answer(a)' = Fifo!Answer(a)
      /\ \A c \in Clients :
           /\ c # a => Fifo!Answer(c)' = Fifo!Answer(c)
           /\ Asked(c)' = Asked(c)
           /\ Fifo!InHand(c) <=> c = a
           /\ Fifo!InHand(c)' <=> c = a /\ fifoServer' = "finish"
  BY <1>1, <1>2, FifoWrites
<1>4. Fifo!Answer(a) = <<>> /\ asked[a] = "found" /\ current # <<>>
  BY <1>1, <1>2, FifoParts DEF HandAnswer
<1>5. fifoServer' = "finish" => Fifo!Answer(a)' = <<"content">>
  BY <1>3, <1>4
<1>6. Fifo!TypeOK'
  BY <1>2, <1>3, FifoParts DEF Fifo!TypeOK
<1>7. AsksOnce'
  BY <1>2, <1>3, FifoParts DEF AsksOnce
<1>8. HandAnswer'
  BY <1>2, <1>3, <1>4, <1>5 DEF HandAnswer
<1>9. Accounted'
  BY <1>2, <1>3, <1>4, <1>5, FifoParts DEF Accounted
<1>10. fifoServer' = "killed" => Fifo!Interrupted'
  BY <1>2, <1>3 DEF Fifo!Interrupted
<1>. QED
  BY <1>6, <1>7, <1>8, <1>9, <1>10 DEF FifoInv

\* After the byte 0 the request has left the hands of the service.
LEMMA FifoServerFinish == ASSUME FifoInv, Fifo!ServerFinish PROVE FifoInv'
<1>1. PICK a \in Clients : a = Fifo!Asker
  BY FifoParts DEF Fifo!ServerFinish
<1>2. /\ fifoServer = "finish" /\ Fifo!ServerWrites(a, "end", "read") /\ a = Fifo!Asker'
      /\ writing' = Fifo!Nobody
      /\ UNCHANGED <<requests, current, shared, fifoClient, asked, present, output>>
  BY <1>1 DEF Fifo!ServerFinish, Fifo!Asker
<1>3. /\ pipe' \in [Clients -> Seq({"content", "end"})]
      /\ fifoServer' \in {"read", "killed"}
      /\ fifoServer' = "read" => Fifo!Answer(a)' = Append(Fifo!Answer(a), "end")
      /\ fifoServer' = "killed" => fifoClient[a] = "interrupted" /\ Fifo!Answer(a)' = Fifo!Answer(a)
      /\ \A c \in Clients :
           /\ c # a => Fifo!Answer(c)' = Fifo!Answer(c)
           /\ Asked(c)' = Asked(c)
           /\ Fifo!InHand(c) <=> c = a
           /\ Fifo!InHand(c)' <=> c = a /\ fifoServer' = "finish"
  BY <1>1, <1>2, FifoWrites
<1>4. Fifo!Answer(a) = <<"content">> /\ asked[a] = "found" /\ current # <<>>
  BY <1>1, <1>2, FifoParts DEF HandAnswer
<1>5. fifoServer' = "read" => Fifo!Answer(a)' = <<"content", "end">>
  BY <1>3, <1>4
<1>6. Fifo!TypeOK'
  BY <1>2, <1>3, FifoParts DEF Fifo!TypeOK
<1>7. AsksOnce'
  BY <1>2, <1>3, FifoParts DEF AsksOnce
<1>8. HandAnswer'
  BY <1>2, <1>3 DEF HandAnswer
<1>9. Accounted'
  BY <1>2, <1>3, <1>4, <1>5, FifoParts DEF Accounted
<1>10. fifoServer' = "killed" => Fifo!Interrupted'
  BY <1>2, <1>3 DEF Fifo!Interrupted
<1>. QED
  BY <1>6, <1>7, <1>8, <1>9, <1>10 DEF FifoInv

\* What a step of one client changes and what it leaves alone.
LEMMA FifoClientMoves ==
    ASSUME FifoInv, NEW c \in Clients, NEW label, Fifo!ClientGoto(c, label),
           label \in {"failed", "request", "read", "done", "interrupted"}
    PROVE  /\ fifoClient' \in [Clients -> {"absent", "start", "failed", "request", "read", "done", "interrupted"}]
           /\ fifoClient'[c] = label
           /\ \A d \in Clients : d # c => fifoClient'[d] = fifoClient[d]
BY DEF FifoInv, Fifo!TypeOK, Fifo!ClientGoto

\* A client that finds the FIFO of the service makes its own.
LEMMA FifoClientStart == ASSUME FifoInv, NEW c \in Clients, Fifo!ClientStart(c) PROVE FifoInv'
<1>1. PICK label \in {"failed", "request"} :
        /\ Fifo!ClientGoto(c, label) /\ fifoClient[c] = "start"
        /\ present' = (IF label = "failed" THEN present ELSE present \cup {c})
        /\ UNCHANGED <<fifoServer, requests, current, writing, shared, asked, pipe, output>>
  <2>1. CASE fifoServer = "start"
    BY <2>1 DEF Fifo!ClientStart, Fifo!fifoServerVars
  <2>2. CASE fifoServer # "start"
    BY <2>2 DEF Fifo!ClientStart, Fifo!fifoServerVars
  <2>. QED
    BY <2>1, <2>2
<1>2. /\ fifoClient' \in [Clients -> {"absent", "start", "failed", "request", "read", "done", "interrupted"}]
      /\ fifoClient'[c] = label
      /\ \A d \in Clients : d # c => fifoClient'[d] = fifoClient[d]
  BY <1>1, FifoClientMoves
<1>3. \A d \in Clients : Fifo!Answer(d)' = Fifo!Answer(d) /\ Asked(d)' = Asked(d) /\ Fifo!InHand(d)' = Fifo!InHand(d)
  BY <1>1, AnswerSame DEF Asked, Fifo!InHand, Fifo!Asker
<1>4. Fifo!TypeOK'
  BY <1>1, <1>2, FifoParts DEF Fifo!TypeOK
<1>5. AsksOnce'
  <2>1. \A i, j \in DOMAIN requests' : requests'[i] = requests'[j] => i = j
    BY <1>1, FifoParts DEF AsksOnce
  <2>2. Fifo!Answer(c) = <<>> /\ ~Asked(c) /\ ~Fifo!InHand(c)
    BY <1>1, FifoParts DEF AsksOnce
  <2>. QED
    BY <1>1, <1>2, <1>3, <2>1, <2>2, FifoParts DEF AsksOnce
<1>6. HandAnswer'
  <2>1. Fifo!Asker' = Fifo!Asker
    BY <1>1 DEF Fifo!Asker
  <2>. QED
    BY <1>1, <1>3, <2>1, FifoParts DEF HandAnswer
<1>7. Accounted'
  BY <1>1, <1>2, <1>3, FifoParts DEF Accounted
<1>8. fifoServer' = "killed" => Fifo!Interrupted'
  BY <1>1, <1>2, FifoParts DEF Fifo!Interrupted
<1>. QED
  BY <1>4, <1>5, <1>6, <1>7, <1>8 DEF FifoInv

\* A client whose user is interrupted goes away.
LEMMA FifoClientInterrupted == ASSUME FifoInv, NEW c \in Clients, Fifo!ClientInterrupted(c) PROVE FifoInv'
<1>1. /\ Fifo!ClientGoto(c, "interrupted") /\ fifoClient[c] \in {"request", "read"}
      /\ UNCHANGED <<fifoServer, requests, current, writing, shared, asked, present, pipe, output>>
  BY DEF Fifo!ClientInterrupted, Fifo!fifoServerVars
<1>2. /\ fifoClient' \in [Clients -> {"absent", "start", "failed", "request", "read", "done", "interrupted"}]
      /\ fifoClient'[c] = "interrupted"
      /\ \A d \in Clients : d # c => fifoClient'[d] = fifoClient[d]
  BY <1>1, FifoClientMoves
<1>3. \A d \in Clients : Fifo!Answer(d)' = Fifo!Answer(d) /\ Asked(d)' = Asked(d) /\ Fifo!InHand(d)' = Fifo!InHand(d)
  BY <1>1, AnswerSame DEF Asked, Fifo!InHand, Fifo!Asker
<1>4. Fifo!TypeOK'
  BY <1>1, <1>2, FifoParts DEF Fifo!TypeOK
<1>5. AsksOnce'
  <2>1. \A i, j \in DOMAIN requests' : requests'[i] = requests'[j] => i = j
    BY <1>1, FifoParts DEF AsksOnce
  <2>. QED
    BY <1>1, <1>2, <1>3, <2>1, FifoParts DEF AsksOnce
<1>6. HandAnswer'
  <2>1. Fifo!Asker' = Fifo!Asker
    BY <1>1 DEF Fifo!Asker
  <2>. QED
    BY <1>1, <1>3, <2>1, FifoParts DEF HandAnswer
<1>7. Accounted'
  BY <1>1, <1>2, <1>3, FifoParts DEF Accounted
<1>8. fifoServer' = "killed" => Fifo!Interrupted'
  BY <1>2 DEF Fifo!Interrupted
<1>. QED
  BY <1>4, <1>5, <1>6, <1>7, <1>8 DEF FifoInv

\* A client that reads holds its FIFO open: it never finds the end of it.
LEMMA FifoClientRead == ASSUME FifoInv, NEW c \in Clients, Fifo!ClientRead(c) PROVE FifoInv'
<1>1. fifoClient[c] = "read" /\ pipe[c] # <<>>
  BY DEF Fifo!ClientRead, Fifo!Writers, Fifo!Readers
<1>2. /\ Fifo!ClientGoto(c, "read") /\ present' = present
      /\ output' = [output EXCEPT ![c] = @ \o pipe[c]] /\ pipe' = [pipe EXCEPT ![c] = <<>>]
      /\ UNCHANGED <<fifoServer, requests, current, writing, shared, asked>>
  BY <1>1 DEF Fifo!ClientRead, Fifo!fifoServerVars
<1>3. fifoClient' = fifoClient
  BY <1>1, <1>2, FifoParts DEF Fifo!ClientGoto, Fifo!TypeOK
<1>4. /\ pipe' \in [Clients -> Seq({"content", "end"})]
      /\ output' \in [Clients -> Seq({"content", "end"})]
      /\ \A d \in Clients : Fifo!Answer(d)' = Fifo!Answer(d)
  BY <1>2, AnswerMoves
<1>5. \A d \in Clients : Asked(d)' = Asked(d) /\ Fifo!InHand(d)' = Fifo!InHand(d)
  BY <1>2 DEF Asked, Fifo!InHand, Fifo!Asker
<1>6. Fifo!TypeOK'
  BY <1>2, <1>3, <1>4, FifoParts DEF Fifo!TypeOK
<1>7. AsksOnce'
  <2>1. \A i, j \in DOMAIN requests' : requests'[i] = requests'[j] => i = j
    BY <1>2, FifoParts DEF AsksOnce
  <2>2. \A d \in Clients :
          /\ Fifo!Answer(d)' = Fifo!Answer(d) /\ Asked(d)' = Asked(d) /\ Fifo!InHand(d)' = Fifo!InHand(d)
          /\ fifoClient'[d] = fifoClient[d] /\ (d \in present' <=> d \in present)
    BY <1>2, <1>3, <1>4, <1>5
  <2>. QED
    BY <2>1, <2>2, FifoParts DEF AsksOnce
<1>8. HandAnswer'
  <2>1. fifoServer \in {"open", "copy", "finish"} =>
          Fifo!Asker' = Fifo!Asker /\ Fifo!Answer(Fifo!Asker)' = Fifo!Answer(Fifo!Asker)
    <3>1. Fifo!Asker' = Fifo!Asker
      BY <1>2 DEF Fifo!Asker
    <3>2. SUFFICES ASSUME fifoServer \in {"open", "copy", "finish"}
                   PROVE  Fifo!Answer(Fifo!Asker)' = Fifo!Answer(Fifo!Asker)
      BY <3>1
    <3>3. PICK a \in Clients : a = Fifo!Asker
      BY <3>2, FifoParts
    <3>. QED
      BY <1>4, <3>1, <3>3
  <2>2. fifoServer' = fifoServer /\ current' = current /\ shared' = shared /\ asked' = asked
    BY <1>2
  <2>. QED
    BY <2>1, <2>2, FifoParts DEF HandAnswer
<1>9. Accounted'
  <2>1. fifoClient' = fifoClient /\ asked' = asked /\ shared' = shared
    BY <1>2, <1>3
  <2>. QED
    BY <1>4, <1>5, <2>1, FifoParts DEF Accounted
<1>10. fifoServer' = "killed" => Fifo!Interrupted'
  BY <1>2, <1>3, FifoParts DEF Fifo!Interrupted
<1>. QED
  BY <1>6, <1>7, <1>8, <1>9, <1>10 DEF FifoInv

\* What is in a sequence after one more element, which was not in it.
LEMMA AppendNew ==
    ASSUME NEW S, NEW s \in Seq(S), NEW e \in S,
           \A i, j \in DOMAIN s : s[i] = s[j] => i = j, \A i \in DOMAIN s : s[i] # e
    PROVE  LET t == Append(s, e) IN
           /\ t \in Seq(S)
           /\ \A i, j \in DOMAIN t : t[i] = t[j] => i = j
           /\ \A d \in S : (\E i \in DOMAIN t : t[i] = d) <=> d = e \/ \E i \in DOMAIN s : s[i] = d
<1>1. PICK n \in Nat : n = Len(s) /\ DOMAIN s = 1 .. n
  OBVIOUS
<1>2. PICK t \in Seq(S) : /\ t = Append(s, e) /\ DOMAIN t = 1 .. n + 1 /\ t[n + 1] = e
                          /\ \A i \in 1 .. n : t[i] = s[i]
  <2>1. /\ Append(s, e) \in Seq(S) /\ Len(Append(s, e)) = n + 1 /\ Append(s, e)[n + 1] = e
        /\ \A i \in 1 .. n : Append(s, e)[i] = s[i]
    BY <1>1, AppendProperties
  <2>2. DOMAIN Append(s, e) = 1 .. n + 1
    BY <2>1
  <2>. QED
    BY <2>1, <2>2
<1>3. \A i \in 1 .. n : t[i] = s[i] /\ t[i] # e
  BY <1>1, <1>2
<1>4. \A i, j \in 1 .. n + 1 : t[i] = t[j] => i = j
  <2>1. \A i, j \in 1 .. n : t[i] = t[j] => i = j
    BY <1>1, <1>3
  <2>. QED
    BY <1>2, <1>3, <2>1
<1>5. \A d \in S : (\E i \in 1 .. n + 1 : t[i] = d) <=> d = e \/ \E i \in 1 .. n : s[i] = d
  BY <1>2, <1>3
<1>. QED
  BY <1>1, <1>2, <1>4, <1>5

\* A client asks only once: its request was nowhere.
LEMMA FifoClientRequest == ASSUME FifoInv, NEW c \in Clients, Fifo!ClientRequest(c) PROVE FifoInv'
<1>1. PICK f \in Fifo!Files :
        /\ asked' = [asked EXCEPT ![c] = f] /\ fifoClient[c] = "request"
        /\ UNCHANGED <<fifoServer, current, writing, shared, present, pipe, output>>
  BY DEF Fifo!ClientRequest
<1>2. PICK label \in {"read", "interrupted"} :
        /\ Fifo!ClientGoto(c, label)
        /\ label = "read" => requests' = Append(requests, c) /\ fifoServer # "killed"
        /\ label = "interrupted" => requests' = requests
  BY DEF Fifo!ClientRequest, Fifo!ServerReads
<1>3. /\ fifoClient' \in [Clients -> {"absent", "start", "failed", "request", "read", "done", "interrupted"}]
      /\ fifoClient'[c] = label
      /\ \A d \in Clients : d # c => fifoClient'[d] = fifoClient[d]
  BY <1>2, FifoClientMoves
<1>4. /\ asked' \in [Clients -> Fifo!Files \cup {"nothing"}]
      /\ \A d \in Clients : d # c => asked'[d] = asked[d]
  BY <1>1, FifoParts DEF Fifo!TypeOK
<1>5. Fifo!Answer(c) = <<>> /\ ~Asked(c) /\ ~Fifo!InHand(c) /\ c \in present
  BY <1>1, FifoParts DEF AsksOnce
<1>6. \A d \in Clients : Fifo!Answer(d)' = Fifo!Answer(d) /\ Fifo!InHand(d)' = Fifo!InHand(d)
  BY <1>1, AnswerSame DEF Fifo!InHand, Fifo!Asker
<1>7. /\ requests' \in Seq(Clients)
      /\ \A i, j \in DOMAIN requests' : requests'[i] = requests'[j] => i = j
      /\ \A d \in Clients : d # c => (Asked(d)' <=> Asked(d))
      /\ Asked(c)' <=> label = "read"
  <2>1. CASE label = "interrupted"
    <3>1. requests' = requests
      BY <1>2, <2>1
    <3>2. \A i, j \in DOMAIN requests : requests[i] = requests[j] => i = j
      BY FifoParts DEF AsksOnce
    <3>. QED
      BY <1>5, <2>1, <3>1, <3>2, FifoParts DEF Asked
  <2>2. CASE label = "read"
    <3>1. requests' = Append(requests, c)
      BY <1>2, <2>2
    <3>2. \A i, j \in DOMAIN requests : requests[i] = requests[j] => i = j
      BY FifoParts DEF AsksOnce
    <3>3. \A i \in DOMAIN requests : requests[i] # c
      BY <1>5 DEF Asked
    <3>4. /\ requests' \in Seq(Clients)
          /\ \A i, j \in DOMAIN requests' : requests'[i] = requests'[j] => i = j
          /\ \A d \in Clients : (\E i \in DOMAIN requests' : requests'[i] = d)
                                  <=> d = c \/ \E i \in DOMAIN requests : requests[i] = d
      BY <3>1, <3>2, <3>3, FifoParts, AppendNew
    <3>. QED
      BY <1>5, <2>2, <3>4 DEF Asked
  <2>. QED
    BY <2>1, <2>2
<1>8. Fifo!TypeOK'
  BY <1>1, <1>3, <1>4, <1>7, FifoParts DEF Fifo!TypeOK
<1>9. AsksOnce'
  <2>1. ASSUME NEW d \in Clients, d # c
        PROVE  /\ Asked(d)' \/ Fifo!InHand(d)' => fifoClient'[d] \in {"read", "interrupted"}
               /\ Asked(d)' => ~Fifo!InHand(d)' /\ Fifo!Answer(d)' = <<>>
               /\ fifoClient'[d] \in {"absent", "start", "failed", "request"} => Fifo!Answer(d)' = <<>>
               /\ fifoClient'[d] \in {"request", "read"} => d \in present'
               /\ fifoClient'[d] # "done"
    BY <1>1, <1>3, <1>6, <1>7, <2>1, FifoParts DEF AsksOnce
  <2>2. /\ fifoClient'[c] \in {"read", "interrupted"} /\ c \in present'
        /\ ~Fifo!InHand(c)' /\ Fifo!Answer(c)' = <<>>
    BY <1>1, <1>3, <1>5, <1>6
  <2>. QED
    BY <1>7, <2>1, <2>2 DEF AsksOnce
<1>10. HandAnswer'
  <2>1. SUFFICES ASSUME fifoServer \in {"open", "copy", "finish"} PROVE HandAnswer'
    BY <1>1 DEF HandAnswer
  <2>2. PICK a \in Clients : a = Fifo!Asker /\ a = Fifo!Asker' /\ Fifo!InHand(a)
    BY <1>1, <2>1, FifoParts DEF Fifo!Asker, Fifo!InHand
  <2>3. a # c
    BY <1>5, <2>2
  <2>4. Fifo!Answer(a)' = Fifo!Answer(a) /\ asked'[a] = asked[a]
    BY <1>4, <1>6, <2>3
  <2>. QED
    BY <1>1, <2>2, <2>4, FifoParts DEF HandAnswer
<1>11. Accounted'
  <2>1. \A d \in Clients : d # c => /\ asked'[d] = asked[d] /\ fifoClient'[d] = fifoClient[d]
                                    /\ (Asked(d)' <=> Asked(d))
    BY <1>3, <1>4, <1>7
  <2>2. Fifo!Answer(c)' = <<>> /\ (fifoClient'[c] = "read" => Asked(c)')
    BY <1>3, <1>5, <1>6, <1>7
  <2>3. shared' = shared
    BY <1>1
  <2>. QED
    BY <1>6, <2>1, <2>2, <2>3, FifoParts DEF Accounted
<1>12. fifoServer' = "killed" => Fifo!Interrupted'
  BY <1>1, <1>3, FifoParts DEF Fifo!Interrupted
<1>. QED
  BY <1>8, <1>9, <1>10, <1>11, <1>12 DEF FifoInv

\* Every step of the service and of a client keeps the invariant.
LEMMA FifoNext == ASSUME FifoInv, Fifo!Next PROVE FifoInv'
<1>1. CASE Fifo!Server
  BY <1>1, FifoServerStart, FifoServerRead, FifoServerOpen, FifoServerCopy, FifoServerFinish DEF Fifo!Server
<1>2. ASSUME NEW c \in Clients, Fifo!Client(c) PROVE FifoInv'
  BY <1>2, FifoClientStart, FifoClientRequest, FifoClientRead, FifoClientInterrupted DEF Fifo!Client
<1>. QED
  BY <1>1, <1>2 DEF Fifo!Next

\* What another kind of program does is nothing to it.
LEMMA FifoUnchanged == ASSUME FifoInv, UNCHANGED fifoVars PROVE FifoInv'
<1>1. UNCHANGED <<fifoServer, requests, current, fifoClient, asked, present, pipe, writing, output, shared>>
  BY DEF fifoVars
<1>2. \A c \in Clients : Fifo!Answer(c)' = Fifo!Answer(c) /\ Asked(c)' = Asked(c) /\ Fifo!InHand(c)' = Fifo!InHand(c)
  BY <1>1, AnswerSame DEF Asked, Fifo!InHand, Fifo!Asker
<1>3. Fifo!TypeOK'
  BY <1>1, FifoParts DEF Fifo!TypeOK
<1>4. AsksOnce'
  <2>1. \A i, j \in DOMAIN requests' : requests'[i] = requests'[j] => i = j
    BY <1>1, FifoParts DEF AsksOnce
  <2>. QED
    BY <1>1, <1>2, <2>1, FifoParts DEF AsksOnce
<1>5. HandAnswer'
  BY <1>1, FifoParts DEF HandAnswer, Fifo!Answer, Fifo!Asker
<1>6. Accounted'
  BY <1>1, <1>2, FifoParts DEF Accounted
<1>7. fifoServer' = "killed" => Fifo!Interrupted'
  BY <1>1, FifoParts DEF Fifo!Interrupted
<1>. QED
  BY <1>3, <1>4, <1>5, <1>6, <1>7 DEF FifoInv

\* Nothing was asked yet, or the programs are not run at all.
LEMMA FifoInit == ASSUME Fifo!Init \/ Fifo!NotRun PROVE FifoInv
<1>1. /\ Fifo!Quiet /\ fifoServer \in {"start", "absent"}
      /\ fifoClient \in {[c \in Clients |-> "start"], [c \in Clients |-> "absent"]}
  BY DEF Fifo!Init, Fifo!NotRun
<1>2. /\ requests = <<>> /\ current = <<>> /\ present = {} /\ shared = {} /\ writing = Fifo!Nobody
      /\ asked = [c \in Clients |-> "nothing"]
      /\ pipe = [c \in Clients |-> <<>>] /\ output = [c \in Clients |-> <<>>]
  BY <1>1 DEF Fifo!Quiet
<1>3. Fifo!TypeOK
  BY <1>1, <1>2, EmptySeq DEF Fifo!TypeOK
<1>4. \A c \in Clients : /\ Fifo!Answer(c) = <<>> /\ ~Asked(c) /\ ~Fifo!InHand(c)
                         /\ fifoClient[c] \in {"absent", "start"}
  <2>1. \A c \in Clients : Fifo!Answer(c) = <<>>
    BY <1>2 DEF Fifo!Answer
  <2>. QED
    BY <1>1, <1>2, <2>1 DEF Asked, Fifo!InHand
<1>5. AsksOnce
  BY <1>2, <1>4 DEF AsksOnce
<1>6. HandAnswer
  BY <1>1 DEF HandAnswer
<1>7. Accounted
  BY <1>4 DEF Accounted
<1>. QED
  BY <1>1, <1>3, <1>5, <1>6, <1>7 DEF FifoInv

\* The invariant says what is accounted for.
LEMMA FifoAccounted == ASSUME FifoInv PROVE RequestsAccountedFor
<1>1. Fifo!RequestsAccountedFor
  BY FifoParts DEF Accounted, Fifo!RequestsAccountedFor, Asked
<1>2. Fifo!OnlyInterruptsHarm
  <2>1. SUFFICES ASSUME ~Fifo!Interrupted, fifoServer = "open" PROVE Fifo!Readers(Fifo!Asker) # {}
    BY FifoParts DEF Fifo!OnlyInterruptsHarm
  <2>2. PICK a \in Clients : a = Fifo!Asker /\ Fifo!InHand(a)
    BY <2>1, FifoParts DEF Fifo!InHand
  <2>3. fifoClient[a] = "read"
    BY <2>1, <2>2, FifoParts DEF AsksOnce, Fifo!Interrupted
  <2>. QED
    BY <2>2, <2>3 DEF Fifo!Readers
<1>3. Fifo!ClientNeverDone
  BY FifoParts DEF AsksOnce, Fifo!ClientNeverDone
<1>. QED
  BY <1>1, <1>2, <1>3 DEF RequestsAccountedFor

-----------------------------------------------------------------------------
(* The services on System V message queues (MsgService).                   *)

\* The messages of a queue, whatever their order.
Elements(s) == {s[i] : i \in DOMAIN s}
Mail(q) == Elements(queue[q])

\* Where the one message of a client can be: in a queue, in the hands of the
\* service, in those of its child.
Sent(c) == \E q \in Msg!QueueIds : \E m \in Mail(q) : m.data.by = c
InHands(c) == held # Msg!None /\ held.data.by = c
ByChild(c) == childHeld[c] # Msg!None

OneEach(s) == \A i, j \in DOMAIN s : s[i].data.by = s[j].data.by => i = j

\* It is in one of these places only.
Once ==
  /\ \A q \in Msg!QueueIds : OneEach(queue[q])
  /\ \A p, q \in Msg!QueueIds : \A m \in Mail(p), l \in Mail(q) : m.data.by = l.data.by => p = q
  /\ \A c \in Clients : /\ Sent(c) => ~InHands(c) /\ ~ByChild(c)
                        /\ InHands(c) => ~ByChild(c)

\* While a client waits it is somewhere, while it types it is nowhere.
OnItsWay ==
  \A c \in Clients :
    /\ client[c] = "receive" /\ Msg!ClientQueue(c) \in exists => Sent(c) \/ InHands(c) \/ ByChild(c)
    /\ client[c] \in {"absent", "start", "read"} => ~Sent(c) /\ ~InHands(c) /\ ~ByChild(c)

\* It is about the line its client typed last.
LastLine ==
  /\ \A q \in Msg!QueueIds : \A m \in Mail(q) : m.data.n = typed[m.data.by]
  /\ held # Msg!None => held.data.n = typed[held.data.by]
  /\ \A c \in Clients :
       /\ childHeld[c] # Msg!None => childHeld[c].data.by = c /\ childHeld[c].data.n = typed[c]
       /\ mine[c] # Msg!None => mine[c].data.by = c /\ (client[c] = "read" => mine[c].data.n = typed[c])
       /\ client[c] = "start" => mine[c] = Msg!None /\ typed[c] = 0

\* Who holds a message, and who has started.
Labels ==
  /\ held # Msg!None <=> service \in {"answer", "remove"}
  /\ program = "fork" => service \notin {"answer", "remove"}
  /\ service = "start" => /\ Msg!Public \notin exists
                          /\ \A c \in Clients : client[c] \in {"absent", "start", "failed"}
  /\ program = "pair" => \A c, d \in Clients : client[c] # "absent" /\ client[d] # "absent" => c = d
  /\ \A c \in Clients : /\ childHeld[c] # Msg!None <=> child[c] \in {"greet", "answer"}
                        /\ client[c] = "start" \/ program # "fork" => child[c] = "none"

\* What the messages of each kind of program look like.
Letters ==
  /\ program = "echo" => /\ \A m \in Mail(Msg!Public) : m.type = Msg!Pid(m.data.by)
                         /\ held # Msg!None => held.type = Msg!Pid(held.data.by)
  /\ program = "fork" => \A m \in Mail(Msg!Public) :
                           /\ m.text = "C" /\ m.peer = Msg!Pid(m.data.by) /\ m.data.is # "quit"
                           /\ child[m.data.by] = "none"
  /\ \A c \in Clients :
       /\ \A m \in Mail(c) : /\ program = "fork" /\ m.data.by = c /\ m.peer \in {Msg!Pid(c), Msg!ChildPid(c)}
                             /\ m.data.is = "quit" => client[c] # "receive"
       /\ childHeld[c] # Msg!None => /\ childHeld[c].peer \in {Msg!Pid(c), Msg!ChildPid(c)}
                                     /\ childHeld[c].data.is # "quit"

\* Children end once, and one SIGCHLD stands for all that were raised meanwhile.
Ended == {c \in Clients : child[c] \in {"done", "failed"}}
Reaping ==
  /\ zombies \in Nat /\ merged \in Nat
  /\ zombies <= Cardinality(Ended) /\ merged <= Cardinality(Ended)
  /\ zombies <= merged + (IF sigchld THEN 1 ELSE 0)

MsgInv == Msg!TypeOK /\ Once /\ OnItsWay /\ LastLine /\ Labels /\ Letters /\ Reaping

\* The parts of MsgInv, by name.
LEMMA MsgParts ==
    ASSUME MsgInv
    PROVE  /\ Msg!TypeOK /\ Once /\ OnItsWay /\ LastLine /\ Labels /\ Letters /\ Reaping
           /\ program \in {"pair", "echo", "fork"} /\ exists \subseteq Msg!QueueIds
           /\ queue \in [Msg!QueueIds -> Seq(Msg!Messages)]
           /\ \A q \in Msg!QueueIds : queue[q] \in Seq(Msg!Messages)
BY DEF MsgInv, Msg!TypeOK, Msg!Programs

\* What a queue holds after msgsnd.
LEMMA ElementsPut ==
    ASSUME NEW S, NEW s \in Seq(S), NEW e \in S,
           OneEach(s), \A m \in Elements(s) : m.data.by # e.data.by
    PROVE  /\ Append(s, e) \in Seq(S)
           /\ OneEach(Append(s, e))
           /\ \A m : m \in Elements(Append(s, e)) <=> m \in Elements(s) \/ m = e
<1>1. PICK n \in Nat : n = Len(s) /\ DOMAIN s = 1 .. n
  OBVIOUS
<1>2. PICK t \in Seq(S) : /\ t = Append(s, e) /\ DOMAIN t = 1 .. n + 1 /\ t[n + 1] = e
                          /\ \A i \in 1 .. n : t[i] = s[i]
  <2>1. /\ Append(s, e) \in Seq(S) /\ Len(Append(s, e)) = n + 1 /\ Append(s, e)[n + 1] = e
        /\ \A i \in 1 .. n : Append(s, e)[i] = s[i]
    BY <1>1, AppendProperties
  <2>2. DOMAIN Append(s, e) = 1 .. n + 1
    BY <2>1
  <2>. QED
    BY <2>1, <2>2
<1>3. \A i \in 1 .. n : s[i].data.by # e.data.by
  BY <1>1 DEF Elements
<1>4. \A i, j \in 1 .. n : s[i].data.by = s[j].data.by => i = j
  BY <1>1 DEF OneEach
<1>5. \A i, j \in 1 .. n + 1 : t[i].data.by = t[j].data.by => i = j
  <2>1. \A i \in 1 .. n + 1 : i \in 1 .. n \/ i = n + 1
    BY <1>1
  <2>. QED
    BY <1>2, <1>3, <1>4, <2>1
<1>6. \A m : (\E i \in 1 .. n + 1 : t[i] = m) <=> (\E i \in 1 .. n : s[i] = m) \/ m = e
  <2>1. \A i \in 1 .. n + 1 : i \in 1 .. n \/ i = n + 1
    BY <1>1
  <2>2. 1 .. n \subseteq 1 .. n + 1 /\ n + 1 \in 1 .. n + 1
    BY <1>1
  <2>. QED
    BY <1>2, <2>1, <2>2
<1>. QED
  BY <1>1, <1>2, <1>5, <1>6 DEF OneEach, Elements

\* What a queue holds after msgrcv.
LEMMA ElementsTaken ==
    ASSUME NEW S, NEW s \in Seq(S), NEW i \in DOMAIN s, OneEach(s)
    PROVE  /\ Msg!Without(s, i) \in Seq(S)
           /\ OneEach(Msg!Without(s, i))
           /\ \A m : m \in Elements(Msg!Without(s, i)) <=> m \in Elements(s) /\ m.data.by # s[i].data.by
<1>1. PICK n \in Nat : n = Len(s) /\ DOMAIN s = 1 .. n /\ i \in 1 .. n
  OBVIOUS
<1>2. PICK a \in Seq(S) : a = SubSeq(s, 1, i - 1) /\ Len(a) = i - 1 /\ \A k \in 1 .. i - 1 : a[k] = s[k]
  <2>1. /\ SubSeq(s, 1, i - 1) \in Seq(S) /\ Len(SubSeq(s, 1, i - 1)) = i - 1
        /\ \A k \in 1 .. i - 1 : SubSeq(s, 1, i - 1)[k] = s[k]
    BY <1>1
  <2>. QED
    BY <2>1
<1>3. PICK b \in Seq(S) : b = SubSeq(s, i + 1, Len(s)) /\ Len(b) = n - i /\ \A k \in 1 .. n - i : b[k] = s[i + k]
  <2>1. /\ SubSeq(s, i + 1, n) \in Seq(S) /\ Len(SubSeq(s, i + 1, n)) = n - i
        /\ \A k \in 1 .. n - i : SubSeq(s, i + 1, n)[k] = s[i + k]
    BY SMTT(30), <1>1
  <2>. QED
    BY <1>1, <2>1
<1>4. PICK w \in Seq(S) : /\ w = Msg!Without(s, i) /\ DOMAIN w = 1 .. n - 1
                          /\ \A k \in 1 .. i - 1 : w[k] = s[k]
                          /\ \A k \in i .. n - 1 : w[k] = s[k + 1]
  <2>1. a \o b \in Seq(S) /\ Len(a \o b) = n - 1
    BY SMTT(30), <1>1, <1>2, <1>3, ConcatProperties
  <2>2. \A k \in 1 .. n - 1 : (a \o b)[k] = (IF k <= i - 1 THEN a[k] ELSE b[k - (i - 1)])
    <3>1. \A k \in 1 .. Len(a) + Len(b) : (a \o b)[k] = (IF k <= Len(a) THEN a[k] ELSE b[k - Len(a)])
      BY ConcatProperties
    <3>2. Len(a) = i - 1 /\ Len(a) + Len(b) = n - 1
      BY SMTT(30), <1>1, <1>2, <1>3
    <3>. QED
      BY <3>1, <3>2
  <2>3. \A k \in 1 .. i - 1 : (a \o b)[k] = s[k]
    BY <1>1, <1>2, <2>2
  <2>4. \A k \in i .. n - 1 : (a \o b)[k] = s[k + 1]
    <3>1. TAKE k \in i .. n - 1
    <3>2. k \in 1 .. n - 1 /\ ~(k <= i - 1) /\ k - (i - 1) \in 1 .. n - i /\ i + (k - (i - 1)) = k + 1
      BY <1>1
    <3>. QED
      BY <1>3, <2>2, <3>2
  <2>5. DOMAIN (a \o b) = 1 .. n - 1
    BY <2>1
  <2>6. a \o b = Msg!Without(s, i)
    BY <1>2, <1>3 DEF Msg!Without
  <2>. QED
    BY <2>1, <2>3, <2>4, <2>5, <2>6
<1>5. \A j, k \in 1 .. n : s[j].data.by = s[k].data.by => j = k
  BY <1>1 DEF OneEach
<1>6. \A j, k \in 1 .. n - 1 : w[j].data.by = w[k].data.by => j = k
  <2>. DEFINE old(k) == IF k < i THEN k ELSE k + 1
  <2>1. \A k \in 1 .. n - 1 : old(k) \in 1 .. n /\ (k \in 1 .. i - 1 \/ k \in i .. n - 1)
    BY <1>1
  <2>2. \A k \in 1 .. i - 1 : k < i
    BY <1>1
  <2>3. \A k \in i .. n - 1 : ~(k < i)
    BY <1>1
  <2>4. \A k \in 1 .. n - 1 : w[k] = s[old(k)]
    BY <1>4, <2>1, <2>2, <2>3
  <2>5. \A j, k \in 1 .. n - 1 : old(j) = old(k) => j = k
    BY <1>1
  <2>. HIDE DEF old
  <2>. QED
    BY SMTT(30), <1>5, <2>1, <2>4, <2>5
<1>7. \A m : (\E k \in 1 .. n - 1 : w[k] = m) <=> (\E k \in 1 .. n : s[k] = m) /\ m.data.by # s[i].data.by
  <2>1. \A k \in 1 .. n - 1 : \E j \in 1 .. n : w[k] = s[j] /\ j # i
    <3>1. \A k \in 1 .. n - 1 : /\ k \in 1 .. n /\ k + 1 \in 1 .. n
                                /\ (k \in 1 .. i - 1 /\ k # i) \/ (k \in i .. n - 1 /\ k + 1 # i)
      BY <1>1
    <3>. QED
      BY <1>4, <3>1
  <2>2. \A j \in 1 .. n : j # i => \E k \in 1 .. n - 1 : w[k] = s[j]
    <3>1. TAKE j \in 1 .. n
    <3>2. CASE j < i
      <4>1. j \in 1 .. i - 1 /\ j \in 1 .. n - 1
        BY <1>1, <3>2
      <4>. QED
        BY <1>4, <4>1
    <3>3. CASE j > i
      <4>1. j - 1 \in i .. n - 1 /\ j - 1 \in 1 .. n - 1 /\ (j - 1) + 1 = j
        BY <1>1, <3>3
      <4>. QED
        BY <1>4, <4>1
    <3>. QED
      BY <1>1, <3>2, <3>3
  <2>3. TAKE m
  <2>4. ASSUME NEW k \in 1 .. n - 1, w[k] = m
        PROVE  (\E j \in 1 .. n : s[j] = m) /\ m.data.by # s[i].data.by
    <3>1. PICK j \in 1 .. n : m = s[j] /\ j # i
      BY <2>1, <2>4
    <3>. QED
      BY <1>1, <1>5, <3>1
  <2>5. ASSUME NEW j \in 1 .. n, s[j] = m, m.data.by # s[i].data.by
        PROVE  \E k \in 1 .. n - 1 : w[k] = m
    BY <2>2, <2>5
  <2>. QED
    BY <2>4, <2>5
<1>8. \A m : m \in Elements(w) <=> m \in Elements(s) /\ m.data.by # s[i].data.by
  <2>1. \A m : m \in Elements(w) <=> \E k \in 1 .. n - 1 : w[k] = m
    BY <1>4 DEF Elements
  <2>2. \A m : m \in Elements(s) <=> \E k \in 1 .. n : s[k] = m
    BY <1>1 DEF Elements
  <2>. QED
    BY <1>7, <2>1, <2>2
<1>9. OneEach(w)
  BY <1>4, <1>6 DEF OneEach
<1>. QED
  BY <1>4, <1>8, <1>9

\* Who a message is from.
LEMMA MailFrom ==
    ASSUME MsgInv, NEW q \in Msg!QueueIds, NEW m \in Mail(q)
    PROVE  m \in Msg!Messages /\ m.data.by \in Clients /\ Sent(m.data.by)
<1>1. queue[q] \in Seq(Msg!Messages)
  BY MsgParts
<1>2. m \in Msg!Messages
  BY <1>1 DEF Mail, Elements
<1>3. m.data \in Msg!Data
  BY <1>2 DEF Msg!Messages
<1>4. m.data.by \in Clients
  BY <1>3 DEF Msg!Data
<1>. QED
  BY <1>2, <1>4 DEF Sent

\* The queues after a message of a client that had none.
LEMMA MailPut ==
    ASSUME MsgInv, NEW q \in Msg!QueueIds, NEW m \in Msg!Messages, Msg!Put(q, m), ~Sent(m.data.by)
    PROVE  /\ queue' \in [Msg!QueueIds -> Seq(Msg!Messages)]
           /\ \A p \in Msg!QueueIds : OneEach(queue'[p])
           /\ \A p \in Msg!QueueIds : \A l : l \in Mail(p)' <=> l \in Mail(p) \/ (p = q /\ l = m)
           /\ \A p, r \in Msg!QueueIds : \A l \in Mail(p)', k \in Mail(r)' : l.data.by = k.data.by => p = r
           /\ \A d \in Clients : Sent(d)' <=> Sent(d) \/ d = m.data.by
<1>1. /\ queue \in [Msg!QueueIds -> Seq(Msg!Messages)]
      /\ \A p \in Msg!QueueIds : OneEach(queue[p])
      /\ \A p, r \in Msg!QueueIds : \A l \in Mail(p), k \in Mail(r) : l.data.by = k.data.by => p = r
  BY MsgParts DEF Once
<1>2. queue' = [queue EXCEPT ![q] = Append(@, m)]
  BY DEF Msg!Put
<1>3. queue'[q] = Append(queue[q], m) /\ \A p \in Msg!QueueIds : p # q => queue'[p] = queue[p]
  BY <1>1, <1>2
<1>4. \A l \in Elements(queue[q]) : l.data.by # m.data.by
  BY DEF Sent, Mail
<1>5. /\ Append(queue[q], m) \in Seq(Msg!Messages)
      /\ OneEach(Append(queue[q], m))
      /\ \A l : l \in Elements(Append(queue[q], m)) <=> l \in Elements(queue[q]) \/ l = m
  BY <1>1, <1>4, ElementsPut
<1>6. queue' \in [Msg!QueueIds -> Seq(Msg!Messages)]
  BY <1>1, <1>2, <1>5
<1>7. \A p \in Msg!QueueIds : OneEach(queue'[p])
  BY <1>1, <1>3, <1>5
<1>8. \A p \in Msg!QueueIds : \A l : l \in Mail(p)' <=> l \in Mail(p) \/ (p = q /\ l = m)
  BY <1>3, <1>5 DEF Mail
<1>9. \A p \in Msg!QueueIds : \A l \in Mail(p) : l.data.by # m.data.by
  BY DEF Sent
<1>10. \A p, r \in Msg!QueueIds : \A l \in Mail(p)', k \in Mail(r)' : l.data.by = k.data.by => p = r
  BY <1>1, <1>8, <1>9
<1>11. \A d \in Clients : Sent(d)' <=> Sent(d) \/ d = m.data.by
  BY <1>8 DEF Sent
<1>. QED
  BY <1>6, <1>7, <1>8, <1>10, <1>11

\* The queues after one message was taken: its client has none in them any more.
LEMMA MailTaken ==
    ASSUME MsgInv, NEW q \in Msg!QueueIds, NEW i \in DOMAIN queue[q],
           queue' = [queue EXCEPT ![q] = Msg!Without(@, i)]
    PROVE  /\ queue[q][i] \in Mail(q)
           /\ queue' \in [Msg!QueueIds -> Seq(Msg!Messages)]
           /\ \A p \in Msg!QueueIds : OneEach(queue'[p])
           /\ \A p \in Msg!QueueIds : \A l : l \in Mail(p)' <=> l \in Mail(p) /\ l.data.by # queue[q][i].data.by
           /\ \A d \in Clients : Sent(d)' <=> Sent(d) /\ d # queue[q][i].data.by
<1>1. /\ queue \in [Msg!QueueIds -> Seq(Msg!Messages)] /\ queue[q] \in Seq(Msg!Messages)
      /\ \A p \in Msg!QueueIds : OneEach(queue[p])
      /\ \A p, r \in Msg!QueueIds : \A l \in Mail(p), k \in Mail(r) : l.data.by = k.data.by => p = r
  BY MsgParts DEF Once
<1>2. queue'[q] = Msg!Without(queue[q], i) /\ \A p \in Msg!QueueIds : p # q => queue'[p] = queue[p]
  BY <1>1
<1>3. /\ Msg!Without(queue[q], i) \in Seq(Msg!Messages)
      /\ OneEach(Msg!Without(queue[q], i))
      /\ \A l : l \in Elements(Msg!Without(queue[q], i)) <=> l \in Elements(queue[q]) /\ l.data.by # queue[q][i].data.by
  BY <1>1, ElementsTaken
<1>4. queue[q][i] \in Mail(q)
  BY DEF Mail, Elements
<1>5. queue' \in [Msg!QueueIds -> Seq(Msg!Messages)]
  BY <1>1, <1>3
<1>6. \A p \in Msg!QueueIds : OneEach(queue'[p])
  BY <1>1, <1>2, <1>3
<1>7. \A p \in Msg!QueueIds : \A l : l \in Mail(p)' <=> l \in Mail(p) /\ l.data.by # queue[q][i].data.by
  <2>1. \A l : l \in Mail(q)' <=> l \in Mail(q) /\ l.data.by # queue[q][i].data.by
    BY <1>2, <1>3 DEF Mail
  <2>2. \A p \in Msg!QueueIds : p # q => Mail(p)' = Mail(p)
    BY <1>2 DEF Mail
  <2>3. \A p \in Msg!QueueIds : p # q => \A l \in Mail(p) : l.data.by # queue[q][i].data.by
    BY <1>1, <1>4
  <2>. QED
    BY <2>1, <2>2, <2>3
<1>8. \A d \in Clients : Sent(d)' <=> Sent(d) /\ d # queue[q][i].data.by
  BY <1>7 DEF Sent
<1>. QED
  BY <1>4, <1>5, <1>6, <1>7, <1>8

\* The queues after one was removed.
LEMMA MailRemoved ==
    ASSUME MsgInv, NEW q \in Msg!QueueIds, Msg!Remove(q)
    PROVE  /\ exists' = exists \ {q}
           /\ queue' \in [Msg!QueueIds -> Seq(Msg!Messages)]
           /\ \A p \in Msg!QueueIds : OneEach(queue'[p])
           /\ \A p \in Msg!QueueIds : \A l : l \in Mail(p)' <=> l \in Mail(p) /\ p # q
           /\ \A d \in Clients : Sent(d)' => Sent(d)
<1>1. /\ queue \in [Msg!QueueIds -> Seq(Msg!Messages)] /\ \A p \in Msg!QueueIds : OneEach(queue[p])
  BY MsgParts DEF Once
<1>2. exists' = exists \ {q} /\ queue' = [queue EXCEPT ![q] = <<>>]
  BY DEF Msg!Remove
<1>3. queue'[q] = <<>> /\ \A p \in Msg!QueueIds : p # q => queue'[p] = queue[p]
  BY <1>1, <1>2
<1>4. queue' \in [Msg!QueueIds -> Seq(Msg!Messages)]
  BY <1>1, <1>2, EmptySeq
<1>5. \A p \in Msg!QueueIds : OneEach(queue'[p])
  <2>1. OneEach(<<>>)
    BY DEF OneEach
  <2>. QED
    BY <1>1, <1>3, <2>1
<1>6. \A p \in Msg!QueueIds : \A l : l \in Mail(p)' <=> l \in Mail(p) /\ p # q
  <2>1. \A l : l \notin Mail(q)'
    BY <1>3 DEF Mail, Elements
  <2>. QED
    BY <1>3, <2>1 DEF Mail
<1>7. \A d \in Clients : Sent(d)' => Sent(d)
  BY <1>6 DEF Sent
<1>. QED
  BY <1>2, <1>4, <1>5, <1>6, <1>7

\* The queues when no message moves.
LEMMA MailSame ==
    ASSUME MsgInv, UNCHANGED queue
    PROVE  /\ queue' \in [Msg!QueueIds -> Seq(Msg!Messages)]
           /\ \A p \in Msg!QueueIds : OneEach(queue'[p])
           /\ \A p \in Msg!QueueIds : Mail(p)' = Mail(p)
           /\ \A d \in Clients : Sent(d)' <=> Sent(d)
BY MsgParts DEF Once, Mail, Sent

\* A record that is a message is not the absence of one.
LEMMA MessageIsSome ==
    ASSUME NEW m \in Msg!Messages
    PROVE  m # Msg!None
<1>1. DOMAIN m = {"type", "text", "peer", "data"}
  BY DEF Msg!Messages
<1>2. DOMAIN Msg!None = {"none"}
  BY DEF Msg!None
<1>. QED
  BY <1>1, <1>2

\* Pids tell clients apart.
LEMMA PidsDiffer ==
    ASSUME NEW c \in Clients, NEW d \in Clients
    PROVE  /\ Msg!Pid(c) = Msg!Pid(d) => c = d
           /\ Msg!Pid(c)[2] = c
BY DEF Msg!Pid

\* The count of MsgService is that of every module.
LEMMA SameCount == ASSUME NEW S PROVE Msg!Cardinality(S) = Cardinality(S)
BY DEF Msg!Cardinality, Cardinality

\* The fields of a message.
LEMMA MessageParts ==
    ASSUME NEW m \in Msg!Messages
    PROVE  /\ m.type \in Msg!Types /\ m.text \in {"C", "S"} /\ m.peer \in Msg!Pids /\ m.data \in Msg!Data
           /\ m.data.by \in Clients /\ m.data.n \in 0 .. Lines
           /\ m.data.is \in {"line", "time", "clock", "quit", "hello"}
<1>1. m.type \in Msg!Types /\ m.text \in {"C", "S"} /\ m.peer \in Msg!Pids /\ m.data \in Msg!Data
  BY DEF Msg!Messages
<1>. QED
  BY <1>1 DEF Msg!Data

\* An answer is from the client that asked, about its line.
LEMMA AnswerOf ==
    ASSUME NEW m \in Msg!Messages, NEW type \in Msg!Types, NEW peer \in Msg!Pids
    PROVE  /\ Msg!Answer(m, type, peer) \in Msg!Messages
           /\ Msg!Answer(m, type, peer).data.by = m.data.by
           /\ Msg!Answer(m, type, peer).data.n = m.data.n
           /\ Msg!Answer(m, type, peer).data.is = "quit" <=> m.data.is = "quit"
           /\ Msg!Answer(m, type, peer).type = type
           /\ Msg!Answer(m, type, peer).peer = peer
<1>1. PICK d \in Msg!Data :
        /\ d = (IF m.data.is = "time" THEN [m.data EXCEPT !.is = "clock"] ELSE m.data)
        /\ d.by = m.data.by /\ d.n = m.data.n /\ (d.is = "quit" <=> m.data.is = "quit")
  <2>1. m.data \in Msg!Data
    BY MessageParts
  <2>2. CASE m.data.is = "time"
    <3>1. [m.data EXCEPT !.is = "clock"] \in Msg!Data
      BY <2>1 DEF Msg!Data
    <3>2. /\ [m.data EXCEPT !.is = "clock"].by = m.data.by /\ [m.data EXCEPT !.is = "clock"].n = m.data.n
          /\ [m.data EXCEPT !.is = "clock"].is = "clock"
      BY <2>1 DEF Msg!Data
    <3>. QED
      BY <2>2, <3>1, <3>2
  <2>3. CASE m.data.is # "time"
    BY <2>1, <2>3
  <2>. QED
    BY <2>2, <2>3
<1>2. Msg!Answer(m, type, peer) = [type |-> type, text |-> "S", peer |-> peer, data |-> d]
  BY <1>1 DEF Msg!Answer
<1>3. [type |-> type, text |-> "S", peer |-> peer, data |-> d] \in Msg!Messages
  BY DEF Msg!Messages
<1>. QED
  BY <1>1, <1>2, <1>3

\* A request is from its client.
LEMMA RequestOf ==
    ASSUME program \in {"pair", "echo", "fork"}, NEW c \in Clients, NEW n \in 0 .. Lines,
           NEW is \in {"line", "time", "quit", "hello"}
    PROVE  /\ Msg!Request(c, n, is) \in Msg!Messages
           /\ Msg!Request(c, n, is).data.by = c
           /\ Msg!Request(c, n, is).data.n = n
           /\ Msg!Request(c, n, is).data.is = is
           /\ Msg!Request(c, n, is).text = "C"
           /\ program # "pair" => Msg!Request(c, n, is).type = Msg!Pid(c)
           /\ program = "fork" => Msg!Request(c, n, is).peer = Msg!Pid(c)
<1>1. [by |-> c, n |-> n, is |-> is] \in Msg!Data
  BY DEF Msg!Data
<1>2. Msg!ClientType(c) \in Msg!Types
  BY DEF Msg!ClientType, Msg!Types
<1>3. (IF program = "fork" THEN Msg!Pid(c) ELSE Msg!Nobody) \in Msg!Pids
  BY DEF Msg!Pids
<1>4. [type |-> Msg!ClientType(c), text |-> "C",
       peer |-> IF program = "fork" THEN Msg!Pid(c) ELSE Msg!Nobody,
       data |-> [by |-> c, n |-> n, is |-> is]] \in Msg!Messages
  BY <1>1, <1>2, <1>3 DEF Msg!Messages
<1>. QED
  BY <1>4 DEF Msg!Request, Msg!ClientType

\* The service makes the queue before any client has found it.
LEMMA MsgServiceStart == ASSUME MsgInv, Msg!ServiceStart PROVE MsgInv'
<1>1. /\ service = "start" /\ service' = "receive" /\ exists' = exists \cup {Msg!Public}
      /\ UNCHANGED <<program, queue, held, client, mine, typed, child, childHeld, zombies, sigchld, merged>>
  BY DEF Msg!ServiceStart, Msg!clientVars, Msg!childVars
<1>2. /\ queue' \in [Msg!QueueIds -> Seq(Msg!Messages)]
      /\ \A p \in Msg!QueueIds : OneEach(queue'[p])
      /\ \A p \in Msg!QueueIds : Mail(p)' = Mail(p)
      /\ \A d \in Clients : Sent(d)' <=> Sent(d)
  BY <1>1, MailSame
<1>3. \A d \in Clients : (InHands(d)' <=> InHands(d)) /\ (ByChild(d)' <=> ByChild(d))
  BY <1>1 DEF InHands, ByChild
<1>4. Msg!TypeOK'
  BY <1>1, <1>2, MsgParts DEF Msg!TypeOK, Msg!QueueIds
<1>5. Once'
  BY <1>2, <1>3, MsgParts DEF Once
<1>6. \A d \in Clients : client[d] # "receive"
  BY <1>1, MsgParts DEF Labels
<1>7. OnItsWay'
  BY <1>1, <1>2, <1>3, <1>6, MsgParts DEF OnItsWay
<1>8. LastLine'
  BY <1>1, <1>2, MsgParts DEF LastLine
<1>9. Labels'
  BY <1>1, MsgParts DEF Labels
<1>10. Letters'
  <2>1. Msg!Public \in Msg!QueueIds /\ Clients \subseteq Msg!QueueIds
    BY DEF Msg!QueueIds
  <2>. QED
    BY <1>1, <1>2, <2>1, MsgParts DEF Letters
<1>11. Reaping'
  BY <1>1, MsgParts DEF Reaping, Ended
<1>. QED
  BY <1>4, <1>5, <1>7, <1>8, <1>9, <1>10, <1>11 DEF MsgInv

\* What the service takes off its queue, and what the queues are then.
LEMMA ServiceTakes ==
    ASSUME MsgInv, Msg!ServiceReceive
    PROVE  \E m \in Mail(Msg!Public) :
             /\ m \in Msg!Messages /\ m.data.by \in Clients
             /\ Sent(m.data.by) /\ ~InHands(m.data.by) /\ ~ByChild(m.data.by)
             /\ service = "receive" /\ held = Msg!None
             /\ UNCHANGED <<program, exists, client, mine, typed, zombies, sigchld, merged>>
             /\ queue' \in [Msg!QueueIds -> Seq(Msg!Messages)]
             /\ \A p \in Msg!QueueIds : OneEach(queue'[p])
             /\ \A p \in Msg!QueueIds : \A l : l \in Mail(p)' <=> l \in Mail(p) /\ l.data.by # m.data.by
             /\ \A d \in Clients : Sent(d)' <=> Sent(d) /\ d # m.data.by
             /\ program # "fork" =>
                  /\ service' \in {"remove", "answer"}
                  /\ held' = Msg!Answer(m, m.type, IF program = "pair" THEN Msg!Nobody ELSE Msg!ServicePid)
                  /\ UNCHANGED <<child, childHeld>>
             /\ program = "fork" =>
                  /\ UNCHANGED <<service, held>>
                  /\ m.text = "C" => /\ child' = [child EXCEPT ![m.peer[2]] = "greet"]
                                     /\ childHeld' = [childHeld EXCEPT ![m.peer[2]] = m]
                  /\ m.text # "C" => UNCHANGED <<child, childHeld>>
<1>1. /\ service = "receive"
      /\ UNCHANGED <<program, exists, client, mine, typed, zombies, sigchld, merged>>
  BY DEF Msg!ServiceReceive, Msg!clientVars
<1>2. PICK i \in DOMAIN queue[Msg!Public] :
        LET m == queue[Msg!Public][i] IN
        /\ queue' = [queue EXCEPT ![Msg!Public] = Msg!Without(@, i)]
        /\ program # "fork" =>
             /\ service' \in {"remove", "answer"}
             /\ held' = Msg!Answer(m, m.type, IF program = "pair" THEN Msg!Nobody ELSE Msg!ServicePid)
             /\ UNCHANGED <<child, childHeld>>
        /\ program = "fork" =>
             /\ UNCHANGED <<service, held>>
             /\ m.text = "C" => /\ child' = [child EXCEPT ![m.peer[2]] = "greet"]
                                /\ childHeld' = [childHeld EXCEPT ![m.peer[2]] = m]
             /\ m.text # "C" => UNCHANGED <<child, childHeld>>
  BY DEF Msg!ServiceReceive
<1>3. PICK m : m = queue[Msg!Public][i]
  OBVIOUS
<1>4. Msg!Public \in Msg!QueueIds
  BY DEF Msg!QueueIds
<1>5. /\ m \in Mail(Msg!Public)
      /\ queue' \in [Msg!QueueIds -> Seq(Msg!Messages)]
      /\ \A p \in Msg!QueueIds : OneEach(queue'[p])
      /\ \A p \in Msg!QueueIds : \A l : l \in Mail(p)' <=> l \in Mail(p) /\ l.data.by # m.data.by
      /\ \A d \in Clients : Sent(d)' <=> Sent(d) /\ d # m.data.by
  BY ZenonT(30), <1>2, <1>3, <1>4, MailTaken
<1>6. m \in Msg!Messages /\ m.data.by \in Clients /\ Sent(m.data.by)
  BY <1>4, <1>5, MailFrom
<1>7. ~InHands(m.data.by) /\ ~ByChild(m.data.by)
  BY <1>6, MsgParts DEF Once
<1>8. held = Msg!None
  BY <1>1, MsgParts DEF Labels
<1>. QED
  BY <1>1, <1>2, <1>3, <1>5, <1>6, <1>7, <1>8

\* The services of "pair" and "echo" have the answer in their hands then.
LEMMA MsgServiceReceives ==
    ASSUME MsgInv, Msg!ServiceReceive, program # "fork"
    PROVE  MsgInv'
<1>1. PICK m \in Mail(Msg!Public) :
        /\ m \in Msg!Messages /\ m.data.by \in Clients
        /\ Sent(m.data.by) /\ ~InHands(m.data.by) /\ ~ByChild(m.data.by)
        /\ service = "receive" /\ held = Msg!None
        /\ UNCHANGED <<program, exists, client, mine, typed, zombies, sigchld, merged, child, childHeld>>
        /\ queue' \in [Msg!QueueIds -> Seq(Msg!Messages)]
        /\ \A p \in Msg!QueueIds : OneEach(queue'[p])
        /\ \A p \in Msg!QueueIds : \A l : l \in Mail(p)' <=> l \in Mail(p) /\ l.data.by # m.data.by
        /\ \A d \in Clients : Sent(d)' <=> Sent(d) /\ d # m.data.by
        /\ service' \in {"remove", "answer"}
        /\ held' = Msg!Answer(m, m.type, IF program = "pair" THEN Msg!Nobody ELSE Msg!ServicePid)
  BY ServiceTakes
<1>2. held' \in Msg!Messages /\ held'.data.by = m.data.by /\ held'.data.n = m.data.n /\ held'.type = m.type
  <2>1. m.type \in Msg!Types
    BY <1>1, MessageParts
  <2>2. Msg!Nobody \in Msg!Pids /\ Msg!ServicePid \in Msg!Pids
    BY DEF Msg!Pids
  <2>. QED
    BY <1>1, <2>1, <2>2, AnswerOf
<1>3. held' # Msg!None
  BY <1>2, MessageIsSome
<1>4. \A d \in Clients : /\ InHands(d)' <=> d = m.data.by
                         /\ ~InHands(d)
                         /\ ByChild(d)' <=> ByChild(d)
  BY <1>1, <1>2, <1>3 DEF InHands, ByChild
<1>5. Msg!TypeOK'
  BY <1>1, <1>2, MsgParts DEF Msg!TypeOK
<1>6. Once'
  <2>1. \A p, q \in Msg!QueueIds : \A k \in Mail(p)', l \in Mail(q)' : k.data.by = l.data.by => p = q
    BY <1>1, MsgParts DEF Once
  <2>2. \A d \in Clients : /\ Sent(d)' => ~InHands(d)' /\ ~ByChild(d)'
                           /\ InHands(d)' => ~ByChild(d)'
    BY <1>1, <1>4, MsgParts DEF Once
  <2>. QED
    BY <1>1, <2>1, <2>2 DEF Once
<1>7. OnItsWay'
  <2>1. \A d \in Clients : Msg!ClientQueue(d)' = Msg!ClientQueue(d)
    BY <1>1 DEF Msg!ClientQueue
  <2>2. \A d \in Clients : d # m.data.by => (Sent(d)' <=> Sent(d)) /\ (InHands(d)' <=> InHands(d))
    BY <1>1, <1>4
  <2>3. client' = client /\ exists' = exists
    BY <1>1
  <2>4. client[m.data.by] \notin {"absent", "start", "read"} /\ InHands(m.data.by)'
    BY <1>1, <1>4, MsgParts DEF OnItsWay
  <2>. QED
    BY <1>4, <2>1, <2>2, <2>3, <2>4, MsgParts DEF OnItsWay
<1>8. LastLine'
  <2>1. m.data.n = typed[m.data.by]
    BY <1>1, MsgParts DEF LastLine, Msg!QueueIds
  <2>. QED
    BY <1>1, <1>2, <2>1, MsgParts DEF LastLine
<1>9. Labels'
  BY <1>1, <1>3, MsgParts DEF Labels
<1>10. Letters'
  <2>1. Msg!Public \in Msg!QueueIds /\ Clients \subseteq Msg!QueueIds
    BY DEF Msg!QueueIds
  <2>2. program = "echo" => held'.type = Msg!Pid(held'.data.by)
    BY <1>1, <1>2, MsgParts DEF Letters
  <2>. QED
    BY <1>1, <2>1, <2>2, MsgParts DEF Letters
<1>11. Reaping'
  BY <1>1, MsgParts DEF Reaping, Ended
<1>. QED
  BY <1>5, <1>6, <1>7, <1>8, <1>9, <1>10, <1>11 DEF MsgInv

\* The forking service gives each first message to a new child.
LEMMA MsgServiceForks ==
    ASSUME MsgInv, Msg!ServiceReceive, program = "fork"
    PROVE  MsgInv'
<1>1. PICK m \in Mail(Msg!Public) :
        /\ m \in Msg!Messages /\ m.data.by \in Clients
        /\ Sent(m.data.by) /\ ~InHands(m.data.by) /\ ~ByChild(m.data.by)
        /\ service = "receive" /\ held = Msg!None
        /\ UNCHANGED <<program, exists, client, mine, typed, zombies, sigchld, merged, service, held>>
        /\ queue' \in [Msg!QueueIds -> Seq(Msg!Messages)]
        /\ \A p \in Msg!QueueIds : OneEach(queue'[p])
        /\ \A p \in Msg!QueueIds : \A l : l \in Mail(p)' <=> l \in Mail(p) /\ l.data.by # m.data.by
        /\ \A d \in Clients : Sent(d)' <=> Sent(d) /\ d # m.data.by
        /\ m.text = "C" => /\ child' = [child EXCEPT ![m.peer[2]] = "greet"]
                           /\ childHeld' = [childHeld EXCEPT ![m.peer[2]] = m]
  BY ServiceTakes
<1>2. PICK c \in Clients : c = m.data.by
  BY <1>1
<1>3. m.text = "C" /\ m.peer = Msg!Pid(c) /\ m.data.is # "quit" /\ child[c] = "none"
  BY <1>1, <1>2, MsgParts DEF Letters
<1>4. m.peer[2] = c
  BY <1>3, PidsDiffer
<1>5. /\ child' \in [Clients -> {"none", "greet", "receive", "answer", "done", "failed"}]
      /\ child'[c] = "greet" /\ \A d \in Clients : d # c => child'[d] = child[d]
  <2>1. child \in [Clients -> {"none", "greet", "receive", "answer", "done", "failed"}]
    BY MsgParts DEF Msg!TypeOK
  <2>. QED
    BY <1>1, <1>3, <1>4, <2>1
<1>6. /\ childHeld' \in [Clients -> Msg!Messages \cup {Msg!None}]
      /\ childHeld'[c] = m /\ \A d \in Clients : d # c => childHeld'[d] = childHeld[d]
  <2>1. childHeld \in [Clients -> Msg!Messages \cup {Msg!None}]
    BY MsgParts DEF Msg!TypeOK
  <2>. QED
    BY <1>1, <1>3, <1>4, <2>1
<1>7. childHeld'[c] # Msg!None
  BY <1>1, <1>6, MessageIsSome
<1>8. \A d \in Clients : /\ ~InHands(d)' /\ ~InHands(d)
                         /\ ByChild(d)' <=> ByChild(d) \/ d = c
  BY <1>1, <1>6, <1>7 DEF InHands, ByChild
<1>9. Msg!TypeOK'
  BY <1>1, <1>5, <1>6, MsgParts DEF Msg!TypeOK
<1>10. Once'
  <2>1. \A p, q \in Msg!QueueIds : \A k \in Mail(p)', l \in Mail(q)' : k.data.by = l.data.by => p = q
    BY <1>1, MsgParts DEF Once
  <2>2. \A d \in Clients : Sent(d)' => ~ByChild(d)'
    BY <1>1, <1>2, <1>8, MsgParts DEF Once
  <2>. QED
    BY <1>1, <1>8, <2>1, <2>2 DEF Once
<1>11. OnItsWay'
  <2>1. \A d \in Clients : Msg!ClientQueue(d)' = Msg!ClientQueue(d)
    BY <1>1 DEF Msg!ClientQueue
  <2>2. \A d \in Clients : d # c => (Sent(d)' <=> Sent(d)) /\ (ByChild(d)' <=> ByChild(d))
    BY <1>1, <1>2, <1>8
  <2>3. client' = client /\ exists' = exists
    BY <1>1
  <2>4. client[c] \notin {"absent", "start", "read"} /\ ByChild(c)'
    BY <1>1, <1>2, <1>8, MsgParts DEF OnItsWay
  <2>. QED
    BY <1>8, <2>1, <2>2, <2>3, <2>4, MsgParts DEF OnItsWay
<1>12. LastLine'
  <2>1. m.data.n = typed[c]
    BY <1>1, <1>2, MsgParts DEF LastLine, Msg!QueueIds
  <2>2. \A d \in Clients : childHeld'[d] # Msg!None => childHeld'[d].data.by = d /\ childHeld'[d].data.n = typed[d]
    BY <1>2, <1>6, <2>1, MsgParts DEF LastLine
  <2>. QED
    BY <1>1, <2>2, MsgParts DEF LastLine
<1>13. Labels'
  <2>1. \A d \in Clients : childHeld'[d] # Msg!None <=> child'[d] \in {"greet", "answer"}
    BY <1>5, <1>6, <1>7, MsgParts DEF Labels
  <2>2. client[c] # "start"
    BY <1>1, <1>2, MsgParts DEF OnItsWay
  <2>3. \A d \in Clients : client[d] = "start" => child'[d] = "none"
    BY <1>5, <2>2, MsgParts DEF Labels
  <2>. QED
    BY <1>1, <2>1, <2>3, MsgParts DEF Labels
<1>14. Letters'
  <2>1. Msg!Public \in Msg!QueueIds /\ Clients \subseteq Msg!QueueIds
    BY DEF Msg!QueueIds
  <2>2. \A l \in Mail(Msg!Public)' : /\ l.text = "C" /\ l.peer = Msg!Pid(l.data.by) /\ l.data.is # "quit"
                                     /\ child'[l.data.by] = "none"
    <3>1. TAKE l \in Mail(Msg!Public)'
    <3>2. l \in Mail(Msg!Public) /\ l.data.by # c
      BY <1>1, <1>2, <2>1
    <3>3. l.data.by \in Clients
      BY <2>1, <3>2, MailFrom
    <3>. QED
      BY <1>5, <3>2, <3>3, MsgParts DEF Letters
  <2>3. \A d \in Clients : childHeld'[d] # Msg!None => /\ childHeld'[d].peer \in {Msg!Pid(d), Msg!ChildPid(d)}
                                                       /\ childHeld'[d].data.is # "quit"
    BY <1>3, <1>6, MsgParts DEF Letters
  <2>. QED
    BY <1>1, <2>1, <2>2, <2>3, MsgParts DEF Letters
<1>15. Reaping'
  <2>1. Ended' = Ended
    BY <1>3, <1>5 DEF Ended
  <2>. QED
    BY <1>1, <2>1, MsgParts DEF Reaping
<1>. QED
  BY <1>9, <1>10, <1>11, <1>12, <1>13, <1>14, <1>15 DEF MsgInv

\* The answer goes to the queue the request came from.
LEMMA MsgServiceAnswers == ASSUME MsgInv, Msg!ServiceAnswer PROVE MsgInv'
<1>1. /\ service = "answer" /\ Msg!Put(Msg!Public, held) /\ service' = "receive" /\ held' = Msg!None
      /\ UNCHANGED <<program, exists, client, mine, typed, child, childHeld, zombies, sigchld, merged>>
  BY DEF Msg!ServiceAnswer, Msg!clientVars, Msg!childVars
<1>2. Msg!Public \in Msg!QueueIds /\ Clients \subseteq Msg!QueueIds /\ Msg!Public \notin Clients
  BY ClientsAssumption DEF Msg!QueueIds, Msg!Public
<1>3. program # "fork" /\ held # Msg!None
  BY <1>1, MsgParts DEF Labels
<1>4. PICK c \in Clients : c = held.data.by /\ held \in Msg!Messages /\ InHands(c)
  <2>1. held \in Msg!Messages
    BY <1>3, MsgParts DEF Msg!TypeOK
  <2>. QED
    BY <1>3, <2>1, MessageParts DEF InHands
<1>5. ~Sent(c) /\ ~ByChild(c)
  BY <1>4, MsgParts DEF Once
<1>6. /\ queue' \in [Msg!QueueIds -> Seq(Msg!Messages)]
      /\ \A p \in Msg!QueueIds : OneEach(queue'[p])
      /\ \A p \in Msg!QueueIds : \A l : l \in Mail(p)' <=> l \in Mail(p) \/ (p = Msg!Public /\ l = held)
      /\ \A p, r \in Msg!QueueIds : \A l \in Mail(p)', k \in Mail(r)' : l.data.by = k.data.by => p = r
      /\ \A d \in Clients : Sent(d)' <=> Sent(d) \/ d = c
  BY <1>1, <1>2, <1>4, <1>5, MailPut
<1>7. \A d \in Clients : ~InHands(d)' /\ (ByChild(d)' <=> ByChild(d)) /\ (InHands(d) <=> d = c)
  BY <1>1, <1>3, <1>4 DEF InHands, ByChild
<1>8. Msg!TypeOK'
  BY <1>1, <1>6, MsgParts DEF Msg!TypeOK
<1>9. Once'
  <2>1. \A d \in Clients : Sent(d)' => ~ByChild(d)'
    BY <1>5, <1>6, <1>7, MsgParts DEF Once
  <2>. QED
    BY <1>6, <1>7, <2>1 DEF Once
<1>10. OnItsWay'
  <2>1. \A d \in Clients : Msg!ClientQueue(d)' = Msg!ClientQueue(d)
    BY <1>1 DEF Msg!ClientQueue
  <2>2. \A d \in Clients : (Sent(d) \/ InHands(d) \/ ByChild(d)) <=> (Sent(d)' \/ InHands(d)' \/ ByChild(d)')
    BY <1>6, <1>7
  <2>3. client' = client /\ exists' = exists
    BY <1>1
  <2>. QED
    BY <2>1, <2>2, <2>3, MsgParts DEF OnItsWay
<1>11. LastLine'
  <2>1. held.data.n = typed[held.data.by]
    BY <1>3, MsgParts DEF LastLine
  <2>. QED
    BY <1>1, <1>6, <2>1, MsgParts DEF LastLine
<1>12. Labels'
  BY <1>1, MsgParts DEF Labels
<1>13. Letters'
  <2>1. program = "echo" => held.type = Msg!Pid(held.data.by)
    BY <1>3, MsgParts DEF Letters
  <2>2. \A d \in Clients : \A l : l \in Mail(d)' <=> l \in Mail(d)
    BY <1>2, <1>6
  <2>. QED
    BY <1>1, <1>2, <1>3, <1>6, <2>1, <2>2, MsgParts DEF Letters
<1>14. Reaping'
  BY <1>1, MsgParts DEF Reaping, Ended
<1>. QED
  BY <1>8, <1>9, <1>10, <1>11, <1>12, <1>13, <1>14 DEF MsgInv

\* At "quit" the queue goes, whatever is in it.
LEMMA MsgServiceRemoves == ASSUME MsgInv, Msg!ServiceRemove PROVE MsgInv'
<1>1. /\ service = "remove" /\ Msg!Remove(Msg!Public) /\ service' = "done" /\ held' = Msg!None
      /\ UNCHANGED <<program, client, mine, typed, child, childHeld, zombies, sigchld, merged>>
  BY DEF Msg!ServiceRemove, Msg!clientVars, Msg!childVars
<1>2. Msg!Public \in Msg!QueueIds /\ Clients \subseteq Msg!QueueIds
  BY DEF Msg!QueueIds
<1>3. program # "fork"
  BY <1>1, MsgParts DEF Labels
<1>4. /\ exists' = exists \ {Msg!Public}
      /\ queue' \in [Msg!QueueIds -> Seq(Msg!Messages)]
      /\ \A p \in Msg!QueueIds : OneEach(queue'[p])
      /\ \A p \in Msg!QueueIds : \A l : l \in Mail(p)' <=> l \in Mail(p) /\ p # Msg!Public
      /\ \A d \in Clients : Sent(d)' => Sent(d)
  BY <1>1, <1>2, MailRemoved
<1>5. \A d \in Clients : ~InHands(d)' /\ (ByChild(d)' <=> ByChild(d))
  BY <1>1 DEF InHands, ByChild
<1>6. Msg!TypeOK'
  BY <1>1, <1>4, MsgParts DEF Msg!TypeOK
<1>7. Once'
  <2>1. \A p, q \in Msg!QueueIds : \A k \in Mail(p)', l \in Mail(q)' : k.data.by = l.data.by => p = q
    BY <1>4, MsgParts DEF Once
  <2>2. \A d \in Clients : Sent(d)' => ~ByChild(d)'
    BY <1>4, <1>5, MsgParts DEF Once
  <2>. QED
    BY <1>4, <1>5, <2>1, <2>2 DEF Once
<1>8. OnItsWay'
  <2>1. \A d \in Clients : Msg!ClientQueue(d)' \notin exists'
    BY <1>1, <1>3, <1>4 DEF Msg!ClientQueue
  <2>. QED
    BY <1>1, <1>4, <1>5, <2>1, MsgParts DEF OnItsWay
<1>9. LastLine'
  BY <1>1, <1>4, MsgParts DEF LastLine
<1>10. Labels'
  BY <1>1, MsgParts DEF Labels
<1>11. Letters'
  BY <1>1, <1>2, <1>4, MsgParts DEF Letters
<1>12. Reaping'
  BY <1>1, MsgParts DEF Reaping, Ended
<1>. QED
  BY <1>6, <1>7, <1>8, <1>9, <1>10, <1>11, <1>12 DEF MsgInv

\* When no message moves, only the labels and the counts are to be looked at.
LEMMA MsgStill ==
    ASSUME MsgInv, UNCHANGED <<program, exists, queue, held, childHeld, typed, mine, client>>,
           \A c \in Clients : child'[c] = "none" <=> child[c] = "none"
    PROVE  Once' /\ OnItsWay' /\ LastLine' /\ Letters'
<1>1. /\ \A p \in Msg!QueueIds : OneEach(queue'[p])
      /\ \A p \in Msg!QueueIds : Mail(p)' = Mail(p)
      /\ \A d \in Clients : Sent(d)' <=> Sent(d)
  BY MailSame
<1>2. \A d \in Clients : /\ InHands(d)' <=> InHands(d)
                         /\ ByChild(d)' <=> ByChild(d)
                         /\ Msg!ClientQueue(d)' = Msg!ClientQueue(d)
  BY DEF InHands, ByChild, Msg!ClientQueue
<1>3. Once'
  BY <1>1, <1>2, MsgParts DEF Once
<1>4. OnItsWay'
  BY <1>1, <1>2, MsgParts DEF OnItsWay
<1>5. LastLine'
  BY <1>1, MsgParts DEF LastLine
<1>6. Letters'
  <2>1. Msg!Public \in Msg!QueueIds /\ Clients \subseteq Msg!QueueIds
    BY DEF Msg!QueueIds
  <2>2. \A m \in Mail(Msg!Public) : m.data.by \in Clients
    BY <2>1, MailFrom
  <2>. QED
    BY <1>1, <2>1, <2>2, MsgParts DEF Letters
<1>. QED
  BY <1>3, <1>4, <1>5, <1>6

\* The handler waits for one child that ended, if there is one.
LEMMA MsgSigChld == ASSUME MsgInv, Msg!SigChld PROVE MsgInv'
<1>1. /\ sigchld = TRUE /\ sigchld' = FALSE /\ zombies' = (IF zombies > 0 THEN zombies - 1 ELSE zombies)
      /\ UNCHANGED <<program, exists, queue, service, held, client, mine, typed, child, childHeld, merged>>
  BY MsgParts DEF Msg!SigChld, Msg!Reaped, Msg!clientVars, Msg!TypeOK
<1>2. Once' /\ OnItsWay' /\ LastLine' /\ Letters'
  BY <1>1, MsgStill
<1>3. PICK n, k, e \in Nat :
        n = zombies /\ k = merged /\ n <= k + 1 /\ e = Cardinality(Clients) /\ n <= e
  <2>1. IsFiniteSet(Clients)
    BY ClientsAssumption
  <2>2. Cardinality(Clients) \in Nat
    BY <2>1, FS_CardinalityType
  <2>3. zombies \in 0 .. Cardinality(Clients)
    BY SameCount, MsgParts DEF Msg!TypeOK
  <2>4. zombies \in Nat /\ merged \in Nat /\ zombies <= merged + 1
    BY <1>1, MsgParts DEF Reaping
  <2>. QED
    BY <2>2, <2>3, <2>4
<1>4. zombies' \in 0 .. e /\ zombies' <= k /\ zombies' <= n /\ zombies' \in Nat
  BY <1>1, <1>3
<1>5. Msg!TypeOK'
  <2>1. zombies' \in 0 .. Msg!Cardinality(Clients)
    BY <1>3, <1>4, SameCount
  <2>. QED
    BY <1>1, <2>1, MsgParts DEF Msg!TypeOK
<1>6. Labels'
  BY <1>1, MsgParts DEF Labels
<1>7. Reaping'
  <2>1. Ended' = Ended /\ Cardinality(Ended) \in Nat
    <3>1. IsFiniteSet(Clients)
      BY ClientsAssumption
    <3>2. IsFiniteSet(Ended)
      BY <3>1, FS_Subset DEF Ended
    <3>. QED
      BY <1>1, <3>2, FS_CardinalityType DEF Ended
  <2>2. zombies <= Cardinality(Ended) /\ merged <= Cardinality(Ended)
    BY MsgParts DEF Reaping
  <2>3. zombies' <= Cardinality(Ended)
    BY <1>3, <1>4, <2>1, <2>2
  <2>4. zombies' \in Nat /\ merged' \in Nat /\ merged' <= Cardinality(Ended) /\ zombies' <= merged'
    BY <1>1, <1>3, <1>4, <2>2
  <2>. QED
    BY <1>1, <2>1, <2>3, <2>4 DEF Reaping
<1>. QED
  BY <1>2, <1>5, <1>6, <1>7 DEF MsgInv

\* A child that goes on is counted nowhere.
LEMMA ChildGoes ==
    ASSUME MsgInv, NEW c \in Clients, NEW label \in {"greet", "receive", "answer"},
           child[c] \notin {"done", "failed"}, child' = [child EXCEPT ![c] = label],
           UNCHANGED <<zombies, sigchld, merged>>
    PROVE  /\ child' \in [Clients -> {"none", "greet", "receive", "answer", "done", "failed"}]
           /\ child'[c] = label /\ \A d \in Clients : d # c => child'[d] = child[d]
           /\ Reaping'
<1>1. /\ child' \in [Clients -> {"none", "greet", "receive", "answer", "done", "failed"}]
      /\ child'[c] = label /\ \A d \in Clients : d # c => child'[d] = child[d]
  <2>1. child \in [Clients -> {"none", "greet", "receive", "answer", "done", "failed"}]
    BY MsgParts DEF Msg!TypeOK
  <2>. QED
    BY <2>1
<1>2. Ended' = Ended
  BY <1>1 DEF Ended
<1>3. Reaping'
  BY <1>2, MsgParts DEF Reaping
<1>. QED
  BY <1>1, <1>3

\* A child that ends is a zombie until it is waited for.
LEMMA ChildEnds ==
    ASSUME MsgInv, NEW c \in Clients, NEW label \in {"done", "failed"},
           child[c] \notin {"done", "failed"}, Msg!ChildExit(c, label)
    PROVE  /\ child' \in [Clients -> {"none", "greet", "receive", "answer", "done", "failed"}]
           /\ child'[c] = label /\ \A d \in Clients : d # c => child'[d] = child[d]
           /\ zombies' \in 0 .. Msg!Cardinality(Clients) /\ sigchld' \in BOOLEAN
           /\ merged' \in 0 .. Msg!Cardinality(Clients)
           /\ Reaping'
<1>1. /\ child' = [child EXCEPT ![c] = label]
      /\ zombies' = zombies + 1 /\ sigchld' = TRUE
      /\ merged' = merged + (IF sigchld THEN 1 ELSE 0)
  BY DEF Msg!ChildExit
<1>2. /\ child' \in [Clients -> {"none", "greet", "receive", "answer", "done", "failed"}]
      /\ child'[c] = label /\ \A d \in Clients : d # c => child'[d] = child[d]
  <2>1. child \in [Clients -> {"none", "greet", "receive", "answer", "done", "failed"}]
    BY MsgParts DEF Msg!TypeOK
  <2>. QED
    BY <1>1, <2>1
<1>3. IsFiniteSet(Ended) /\ IsFiniteSet(Ended') /\ IsFiniteSet(Clients)
  <2>1. Ended \subseteq Clients /\ Ended' \subseteq Clients /\ IsFiniteSet(Clients)
    BY ClientsAssumption DEF Ended
  <2>. QED
    BY <2>1, FS_Subset
<1>4. Cardinality(Ended') = Cardinality(Ended) + 1
  <2>1. Ended' = Ended \cup {c} /\ c \notin Ended
    BY <1>2 DEF Ended
  <2>. QED
    BY <1>3, <2>1, FS_AddElement
<1>5. Cardinality(Ended') <= Cardinality(Clients) /\ Cardinality(Ended) \in Nat /\ Cardinality(Clients) \in Nat
  <2>1. Ended' \subseteq Clients
    BY DEF Ended
  <2>. QED
    BY <1>3, <2>1, FS_Subset, FS_CardinalityType
<1>6. /\ zombies \in Nat /\ merged \in Nat
      /\ zombies <= Cardinality(Ended) /\ merged <= Cardinality(Ended)
      /\ zombies <= merged + (IF sigchld THEN 1 ELSE 0)
  BY MsgParts DEF Reaping
<1>7. PICK e, s \in Nat : /\ e = Cardinality(Ended) /\ s = Cardinality(Clients)
                          /\ Cardinality(Ended') = e + 1 /\ e + 1 <= s
                          /\ zombies <= e /\ merged <= e
  BY <1>4, <1>5, <1>6
<1>8. /\ zombies' \in Nat /\ merged' \in Nat /\ zombies' <= e + 1 /\ merged' <= e + 1
      /\ zombies' <= merged' + 1
  BY <1>1, <1>6, <1>7
<1>9. zombies' \in 0 .. Msg!Cardinality(Clients) /\ merged' \in 0 .. Msg!Cardinality(Clients)
  BY <1>7, <1>8, SameCount
<1>10. Reaping'
  BY <1>1, <1>7, <1>8 DEF Reaping
<1>. QED
  BY <1>1, <1>2, <1>9, <1>10

\* What the child of a client holds is about that client's last line.
LEMMA ChildHolds ==
    ASSUME MsgInv, NEW c \in Clients, child[c] \in {"greet", "answer"}
    PROVE  /\ childHeld[c] \in Msg!Messages /\ ByChild(c) /\ program = "fork" /\ client[c] # "start"
           /\ childHeld[c].data.by = c /\ childHeld[c].data.n = typed[c]
           /\ childHeld[c].peer \in {Msg!Pid(c), Msg!ChildPid(c)} /\ childHeld[c].data.is # "quit"
           /\ ~Sent(c) /\ ~InHands(c)
<1>1. childHeld[c] # Msg!None /\ program = "fork" /\ client[c] # "start"
  BY MsgParts DEF Labels
<1>2. childHeld[c] \in Msg!Messages
  BY <1>1, MsgParts DEF Msg!TypeOK
<1>3. /\ childHeld[c].data.by = c /\ childHeld[c].data.n = typed[c]
      /\ childHeld[c].peer \in {Msg!Pid(c), Msg!ChildPid(c)} /\ childHeld[c].data.is # "quit"
  BY <1>1, MsgParts DEF LastLine, Letters
<1>4. ByChild(c) /\ ~Sent(c) /\ ~InHands(c)
  BY <1>1, MsgParts DEF ByChild, Once
<1>. QED
  BY <1>1, <1>2, <1>3, <1>4

\* The answer of a child goes to the queue of its client, or the child ends.
LEMMA MsgChildSends == ASSUME MsgInv, NEW c \in Clients, Msg!ChildSend(c) PROVE MsgInv'
<1>1. /\ child[c] \in {"greet", "answer"} /\ childHeld' = [childHeld EXCEPT ![c] = Msg!None]
      /\ UNCHANGED <<program, exists, service, held, client, mine, typed>>
  BY DEF Msg!ChildSend, Msg!clientVars
<1>2. /\ childHeld[c] \in Msg!Messages /\ ByChild(c) /\ program = "fork" /\ client[c] # "start"
      /\ childHeld[c].data.by = c /\ childHeld[c].data.n = typed[c]
      /\ childHeld[c].peer \in {Msg!Pid(c), Msg!ChildPid(c)} /\ childHeld[c].data.is # "quit"
      /\ ~Sent(c) /\ ~InHands(c)
  BY <1>1, ChildHolds
<1>3. Msg!Public \in Msg!QueueIds /\ Clients \subseteq Msg!QueueIds /\ Msg!Public \notin Clients /\ c \in Msg!QueueIds
  BY ClientsAssumption DEF Msg!QueueIds, Msg!Public
<1>4. /\ childHeld' \in [Clients -> Msg!Messages \cup {Msg!None}]
      /\ childHeld'[c] = Msg!None /\ \A d \in Clients : d # c => childHeld'[d] = childHeld[d]
  <2>1. childHeld \in [Clients -> Msg!Messages \cup {Msg!None}]
    BY MsgParts DEF Msg!TypeOK
  <2>. QED
    BY <1>1, <2>1
<1>5. \A d \in Clients : /\ InHands(d)' <=> InHands(d)
                         /\ ByChild(d)' <=> ByChild(d) /\ d # c
                         /\ Msg!ClientQueue(d)' = Msg!ClientQueue(d)
  BY <1>1, <1>4 DEF InHands, ByChild, Msg!ClientQueue
<1>6. \A d \in Clients :
        /\ childHeld'[d] # Msg!None => childHeld'[d].data.by = d /\ childHeld'[d].data.n = typed[d]
        /\ childHeld'[d] # Msg!None => /\ childHeld'[d].peer \in {Msg!Pid(d), Msg!ChildPid(d)}
                                       /\ childHeld'[d].data.is # "quit"
  BY <1>4, MsgParts DEF LastLine, Letters
<1>7. ASSUME child'[c] \in {"receive", "failed"}, \A d \in Clients : d # c => child'[d] = child[d]
      PROVE  Labels'
  <2>1. \A d \in Clients : /\ childHeld'[d] # Msg!None <=> child'[d] \in {"greet", "answer"}
                           /\ client[d] = "start" => child'[d] = "none"
    BY <1>2, <1>4, <1>7, MsgParts DEF Labels
  <2>. QED
    BY <1>1, <1>2, <2>1, MsgParts DEF Labels
<1>8. CASE c \in exists
  <2>1. /\ Msg!Put(c, Msg!Answer(childHeld[c], childHeld[c].peer, Msg!ChildPid(c)))
        /\ child' = [child EXCEPT ![c] = "receive"] /\ UNCHANGED <<zombies, sigchld, merged>>
    BY <1>8 DEF Msg!ChildSend
  <2>2. PICK m \in Msg!Messages :
          /\ m = Msg!Answer(childHeld[c], childHeld[c].peer, Msg!ChildPid(c))
          /\ m.data.by = c /\ m.data.n = typed[c] /\ m.data.is # "quit" /\ m.peer = Msg!ChildPid(c)
    <3>1. childHeld[c].peer \in Msg!Types /\ Msg!ChildPid(c) \in Msg!Pids
      BY <1>2 DEF Msg!Types, Msg!Pids
    <3>. QED
      BY <1>2, <3>1, AnswerOf
  <2>3. /\ queue' \in [Msg!QueueIds -> Seq(Msg!Messages)]
        /\ \A p \in Msg!QueueIds : OneEach(queue'[p])
        /\ \A p \in Msg!QueueIds : \A l : l \in Mail(p)' <=> l \in Mail(p) \/ (p = c /\ l = m)
        /\ \A p, r \in Msg!QueueIds : \A l \in Mail(p)', k \in Mail(r)' : l.data.by = k.data.by => p = r
        /\ \A d \in Clients : Sent(d)' <=> Sent(d) \/ d = c
    BY <1>2, <1>3, <2>1, <2>2, MailPut
  <2>4. /\ child' \in [Clients -> {"none", "greet", "receive", "answer", "done", "failed"}]
        /\ child'[c] = "receive" /\ \A d \in Clients : d # c => child'[d] = child[d]
        /\ Reaping'
    BY <1>1, <2>1, ChildGoes
  <2>5. Msg!TypeOK'
    BY <1>1, <1>4, <2>1, <2>3, <2>4, MsgParts DEF Msg!TypeOK
  <2>6. Once'
    <3>1. \A d \in Clients : /\ Sent(d)' => ~InHands(d)' /\ ~ByChild(d)'
                             /\ InHands(d)' => ~ByChild(d)'
      BY <1>2, <1>5, <2>3, MsgParts DEF Once
    <3>. QED
      BY <2>3, <3>1 DEF Once
  <2>7. OnItsWay'
    <3>1. \A d \in Clients : (Sent(d) \/ InHands(d) \/ ByChild(d)) <=> (Sent(d)' \/ InHands(d)' \/ ByChild(d)')
      BY <1>2, <1>5, <2>3
    <3>. QED
      BY <1>1, <1>5, <3>1, MsgParts DEF OnItsWay
  <2>8. LastLine'
    <3>1. \A q \in Msg!QueueIds : \A l \in Mail(q)' : l.data.n = typed[l.data.by]
      BY <2>2, <2>3, MsgParts DEF LastLine
    <3>. QED
      BY <1>1, <1>6, <3>1, MsgParts DEF LastLine
  <2>9. Labels'
    BY <1>7, <2>4
  <2>10. Letters'
    <3>1. \A l : l \in Mail(Msg!Public)' <=> l \in Mail(Msg!Public)
      BY <1>3, <2>3
    <3>2. \A l \in Mail(Msg!Public) : l.data.by \in Clients /\ l.data.by # c
      BY <1>2, <1>3, MailFrom
    <3>3. \A d \in Clients : \A l \in Mail(d)' : /\ program = "fork" /\ l.data.by = d
                                                 /\ l.peer \in {Msg!Pid(d), Msg!ChildPid(d)}
                                                 /\ l.data.is = "quit" => client[d] # "receive"
      BY <1>2, <1>3, <2>2, <2>3, MsgParts DEF Letters
    <3>4. program = "fork" => \A l \in Mail(Msg!Public) :
                                /\ l.text = "C" /\ l.peer = Msg!Pid(l.data.by) /\ l.data.is # "quit"
                                /\ child'[l.data.by] = "none"
      BY <2>4, <3>2, MsgParts DEF Letters
    <3>. QED
      BY <1>1, <1>2, <1>6, <3>1, <3>3, <3>4 DEF Letters
  <2>. QED
    BY <2>4, <2>5, <2>6, <2>7, <2>8, <2>9, <2>10 DEF MsgInv
<1>9. CASE c \notin exists
  <2>1. Msg!ChildExit(c, "failed") /\ UNCHANGED queue
    BY <1>9 DEF Msg!ChildSend
  <2>2. /\ child' \in [Clients -> {"none", "greet", "receive", "answer", "done", "failed"}]
        /\ child'[c] = "failed" /\ \A d \in Clients : d # c => child'[d] = child[d]
        /\ zombies' \in 0 .. Msg!Cardinality(Clients) /\ sigchld' \in BOOLEAN
        /\ merged' \in 0 .. Msg!Cardinality(Clients)
        /\ Reaping'
    BY <1>1, <2>1, ChildEnds
  <2>3. /\ queue' \in [Msg!QueueIds -> Seq(Msg!Messages)]
        /\ \A p \in Msg!QueueIds : OneEach(queue'[p])
        /\ \A p \in Msg!QueueIds : Mail(p)' = Mail(p)
        /\ \A d \in Clients : Sent(d)' <=> Sent(d)
    BY <2>1, MailSame
  <2>4. Msg!TypeOK'
    BY <1>1, <1>4, <2>2, <2>3, MsgParts DEF Msg!TypeOK
  <2>5. Once'
    <3>1. \A d \in Clients : /\ Sent(d)' => ~InHands(d)' /\ ~ByChild(d)'
                             /\ InHands(d)' => ~ByChild(d)'
      BY <1>5, <2>3, MsgParts DEF Once
    <3>2. \A p, q \in Msg!QueueIds : \A k \in Mail(p)', l \in Mail(q)' : k.data.by = l.data.by => p = q
      BY <2>3, MsgParts DEF Once
    <3>. QED
      BY <2>3, <3>1, <3>2 DEF Once
  <2>6. OnItsWay'
    <3>1. Msg!ClientQueue(c) = c
      BY <1>2 DEF Msg!ClientQueue
    <3>. QED
      BY <1>1, <1>5, <1>9, <2>3, <3>1, MsgParts DEF OnItsWay
  <2>7. LastLine'
    BY <1>1, <1>6, <2>3, MsgParts DEF LastLine
  <2>8. Labels'
    BY <1>7, <2>2
  <2>9. Letters'
    <3>1. \A l \in Mail(Msg!Public) : l.data.by \in Clients
      BY <1>3, MailFrom
    <3>2. \A l \in Mail(Msg!Public) : l.data.by # c
      BY <1>2, <1>3, MailFrom
    <3>3. program = "fork" => \A l \in Mail(Msg!Public) :
                                /\ l.text = "C" /\ l.peer = Msg!Pid(l.data.by) /\ l.data.is # "quit"
                                /\ child'[l.data.by] = "none"
      BY <2>2, <3>1, <3>2, MsgParts DEF Letters
    <3>. QED
      BY <1>1, <1>2, <1>3, <1>6, <2>3, <3>3, MsgParts DEF Letters
  <2>. QED
    BY <2>2, <2>4, <2>5, <2>6, <2>7, <2>8, <2>9 DEF MsgInv
<1>. QED
  BY <1>8, <1>9

\* A child takes what its client sent, or its own answer back; at "quit" it ends.
LEMMA MsgChildReceives == ASSUME MsgInv, NEW c \in Clients, Msg!ChildReceive(c) PROVE MsgInv'
<1>1. child[c] = "receive" /\ UNCHANGED <<program, exists, service, held, client, mine, typed>>
  BY DEF Msg!ChildReceive, Msg!clientVars
<1>2. Msg!Public \in Msg!QueueIds /\ Clients \subseteq Msg!QueueIds /\ Msg!Public \notin Clients /\ c \in Msg!QueueIds
  BY ClientsAssumption DEF Msg!QueueIds, Msg!Public
<1>3. childHeld[c] = Msg!None /\ ~ByChild(c) /\ program = "fork" /\ client[c] # "start"
  BY <1>1, MsgParts DEF Labels, ByChild
<1>4. Msg!ClientQueue(c) = c /\ \A d \in Clients : Msg!ClientQueue(d)' = Msg!ClientQueue(d)
  BY <1>1, <1>3 DEF Msg!ClientQueue
<1>5. \A d \in Clients : /\ InHands(d)' <=> InHands(d)
                         /\ ~InHands(d)
  BY <1>1, <1>3, MsgParts DEF InHands, Labels
<1>6. ASSUME \/ child'[c] \in {"done", "failed"} /\ UNCHANGED childHeld
             \/ child'[c] = "answer" /\ childHeld'[c] # Msg!None /\ \A d \in Clients : d # c => childHeld'[d] = childHeld[d],
             \A d \in Clients : d # c => child'[d] = child[d]
      PROVE  Labels'
  <2>1. \A d \in Clients : /\ childHeld'[d] # Msg!None <=> child'[d] \in {"greet", "answer"}
                           /\ client[d] = "start" => child'[d] = "none"
    BY <1>3, <1>6, MsgParts DEF Labels
  <2>. QED
    BY <1>1, <1>3, <2>1, MsgParts DEF Labels
<1>7. CASE c \notin exists /\ Msg!ChildExit(c, "failed") /\ UNCHANGED <<queue, childHeld>>
  <2>1. /\ child' \in [Clients -> {"none", "greet", "receive", "answer", "done", "failed"}]
        /\ child'[c] = "failed" /\ \A d \in Clients : d # c => child'[d] = child[d]
        /\ zombies' \in 0 .. Msg!Cardinality(Clients) /\ sigchld' \in BOOLEAN
        /\ merged' \in 0 .. Msg!Cardinality(Clients)
        /\ Reaping'
    BY <1>1, <1>7, ChildEnds
  <2>2. \A d \in Clients : child'[d] = "none" <=> child[d] = "none"
    BY <1>1, <2>1
  <2>3. Once' /\ OnItsWay' /\ LastLine' /\ Letters'
    BY <1>1, <1>7, <2>2, MsgStill
  <2>4. Msg!TypeOK'
    BY <1>1, <1>7, <2>1, MsgParts DEF Msg!TypeOK
  <2>5. Labels'
    BY <1>6, <1>7, <2>1
  <2>. QED
    BY <2>1, <2>3, <2>4, <2>5 DEF MsgInv
<1>8. CASE \E i \in DOMAIN queue[c] :
             LET m == queue[c][i] IN
             /\ queue' = [queue EXCEPT ![c] = Msg!Without(@, i)]
             /\ IF m.data.is = "quit"
                THEN Msg!ChildExit(c, "done") /\ UNCHANGED childHeld
                ELSE /\ child' = [child EXCEPT ![c] = "answer"]
                     /\ childHeld' = [childHeld EXCEPT ![c] = m]
                     /\ UNCHANGED <<zombies, sigchld, merged>>
  <2>1. PICK i \in DOMAIN queue[c] :
          /\ queue' = [queue EXCEPT ![c] = Msg!Without(@, i)]
          /\ queue[c][i].data.is = "quit" => Msg!ChildExit(c, "done") /\ UNCHANGED childHeld
          /\ queue[c][i].data.is # "quit" => /\ child' = [child EXCEPT ![c] = "answer"]
                                             /\ childHeld' = [childHeld EXCEPT ![c] = queue[c][i]]
                                             /\ UNCHANGED <<zombies, sigchld, merged>>
    BY <1>8
  <2>2. PICK m : m = queue[c][i]
    OBVIOUS
  <2>3. /\ m \in Mail(c)
        /\ queue' \in [Msg!QueueIds -> Seq(Msg!Messages)]
        /\ \A p \in Msg!QueueIds : OneEach(queue'[p])
        /\ \A p \in Msg!QueueIds : \A l : l \in Mail(p)' <=> l \in Mail(p) /\ l.data.by # m.data.by
        /\ \A d \in Clients : Sent(d)' <=> Sent(d) /\ d # m.data.by
    BY ZenonT(30), <1>2, <2>1, <2>2, MailTaken
  <2>4. m \in Msg!Messages /\ m.data.by = c /\ Sent(c)
    BY <1>2, <2>3, MailFrom, MsgParts DEF Letters
  <2>5. /\ m.data.n = typed[c] /\ m.peer \in {Msg!Pid(c), Msg!ChildPid(c)}
        /\ m.data.is = "quit" => client[c] # "receive"
    BY <1>2, <2>3, <2>4, MsgParts DEF LastLine, Letters
  <2>6. \A p, q \in Msg!QueueIds : \A k \in Mail(p)', l \in Mail(q)' : k.data.by = l.data.by => p = q
    BY <2>3, MsgParts DEF Once
  <2>7. \A q \in Msg!QueueIds : \A l \in Mail(q)' : l.data.n = typed[l.data.by]
    BY <2>3, MsgParts DEF LastLine
  <2>8. \A l \in Mail(Msg!Public)' : l \in Mail(Msg!Public) /\ l.data.by \in Clients /\ l.data.by # c
    BY <1>2, <2>3, <2>4, MailFrom
  <2>9. \A d \in Clients : \A l \in Mail(d)' : /\ program = "fork" /\ l.data.by = d
                                               /\ l.peer \in {Msg!Pid(d), Msg!ChildPid(d)}
                                               /\ l.data.is = "quit" => client[d] # "receive"
    BY <1>2, <2>3, MsgParts DEF Letters
  <2>10. client[c] \notin {"absent", "start", "read"}
    BY <2>4, MsgParts DEF OnItsWay
  <2>11. CASE m.data.is = "quit"
    <3>1. Msg!ChildExit(c, "done") /\ UNCHANGED childHeld
      BY <2>1, <2>2, <2>11
    <3>2. /\ child' \in [Clients -> {"none", "greet", "receive", "answer", "done", "failed"}]
          /\ child'[c] = "done" /\ \A d \in Clients : d # c => child'[d] = child[d]
          /\ zombies' \in 0 .. Msg!Cardinality(Clients) /\ sigchld' \in BOOLEAN
          /\ merged' \in 0 .. Msg!Cardinality(Clients)
          /\ Reaping'
      BY <1>1, <3>1, ChildEnds
    <3>3. \A d \in Clients : ByChild(d)' <=> ByChild(d)
      BY <3>1 DEF ByChild
    <3>4. Msg!TypeOK'
      BY <1>1, <2>3, <3>1, <3>2, MsgParts DEF Msg!TypeOK
    <3>5. Once'
      <4>1. \A d \in Clients : Sent(d)' => ~ByChild(d)'
        BY <2>3, <3>3, MsgParts DEF Once
      <4>. QED
        BY <1>5, <2>3, <2>6, <4>1 DEF Once
    <3>6. OnItsWay'
      <4>1. client'[c] \notin {"absent", "start", "read", "receive"}
        BY <1>1, <2>5, <2>10, <2>11
      <4>2. \A d \in Clients : d # c => (Sent(d)' <=> Sent(d))
        BY <2>3, <2>4
      <4>. QED
        BY <1>1, <1>4, <1>5, <3>3, <4>1, <4>2, MsgParts DEF OnItsWay
    <3>7. LastLine'
      BY <1>1, <2>7, <3>1, MsgParts DEF LastLine
    <3>8. Labels'
      BY <1>6, <3>1, <3>2
    <3>9. Letters'
      <4>1. program = "fork" => \A l \in Mail(Msg!Public)' :
                                  /\ l.text = "C" /\ l.peer = Msg!Pid(l.data.by) /\ l.data.is # "quit"
                                  /\ child'[l.data.by] = "none"
        BY <2>8, <3>2, MsgParts DEF Letters
      <4>. QED
        BY <1>1, <1>3, <2>9, <3>1, <4>1, MsgParts DEF Letters
    <3>. QED
      BY <3>2, <3>4, <3>5, <3>6, <3>7, <3>8, <3>9 DEF MsgInv
  <2>12. CASE m.data.is # "quit"
    <3>1. /\ child' = [child EXCEPT ![c] = "answer"] /\ childHeld' = [childHeld EXCEPT ![c] = m]
          /\ UNCHANGED <<zombies, sigchld, merged>>
      BY <2>1, <2>2, <2>12
    <3>2. /\ child' \in [Clients -> {"none", "greet", "receive", "answer", "done", "failed"}]
          /\ child'[c] = "answer" /\ \A d \in Clients : d # c => child'[d] = child[d]
          /\ Reaping'
      BY <1>1, <3>1, ChildGoes
    <3>3. /\ childHeld' \in [Clients -> Msg!Messages \cup {Msg!None}]
          /\ childHeld'[c] = m /\ \A d \in Clients : d # c => childHeld'[d] = childHeld[d]
      <4>1. childHeld \in [Clients -> Msg!Messages \cup {Msg!None}]
        BY MsgParts DEF Msg!TypeOK
      <4>. QED
        BY <2>4, <3>1, <4>1
    <3>4. m # Msg!None
      BY <2>4, MessageIsSome
    <3>5. \A d \in Clients : ByChild(d)' <=> ByChild(d) \/ d = c
      BY <3>3, <3>4 DEF ByChild
    <3>6. Msg!TypeOK'
      BY <1>1, <2>3, <3>1, <3>2, <3>3, MsgParts DEF Msg!TypeOK
    <3>7. Once'
      <4>1. \A d \in Clients : Sent(d)' => ~ByChild(d)'
        BY <2>3, <2>4, <3>5, MsgParts DEF Once
      <4>. QED
        BY <1>5, <2>3, <2>6, <4>1 DEF Once
    <3>8. OnItsWay'
      <4>1. client'[c] \notin {"absent", "start", "read"} /\ ByChild(c)'
        BY <1>1, <2>10, <3>5
      <4>2. \A d \in Clients : d # c => (Sent(d)' <=> Sent(d)) /\ (ByChild(d)' <=> ByChild(d))
        BY <2>3, <2>4, <3>5
      <4>. QED
        BY <1>1, <1>4, <1>5, <4>1, <4>2, MsgParts DEF OnItsWay
    <3>9. LastLine'
      <4>1. \A d \in Clients : childHeld'[d] # Msg!None => childHeld'[d].data.by = d /\ childHeld'[d].data.n = typed[d]
        BY <2>4, <2>5, <3>3, MsgParts DEF LastLine
      <4>. QED
        BY <1>1, <2>7, <4>1, MsgParts DEF LastLine
    <3>10. Labels'
      BY <1>6, <3>2, <3>3, <3>4
    <3>11. Letters'
      <4>1. program = "fork" => \A l \in Mail(Msg!Public)' :
                                  /\ l.text = "C" /\ l.peer = Msg!Pid(l.data.by) /\ l.data.is # "quit"
                                  /\ child'[l.data.by] = "none"
        BY <2>8, <3>2, MsgParts DEF Letters
      <4>2. \A d \in Clients : childHeld'[d] # Msg!None => /\ childHeld'[d].peer \in {Msg!Pid(d), Msg!ChildPid(d)}
                                                           /\ childHeld'[d].data.is # "quit"
        BY <2>5, <2>12, <3>3, MsgParts DEF Letters
      <4>. QED
        BY <1>1, <1>3, <2>9, <4>1, <4>2 DEF Letters
    <3>. QED
      BY <3>2, <3>6, <3>7, <3>8, <3>9, <3>10, <3>11 DEF MsgInv
  <2>. QED
    BY <2>11, <2>12
<1>9. \/ c \notin exists /\ Msg!ChildExit(c, "failed") /\ UNCHANGED <<queue, childHeld>>
      \/ \E i \in DOMAIN queue[c] :
           LET m == queue[c][i] IN
           /\ queue' = [queue EXCEPT ![c] = Msg!Without(@, i)]
           /\ IF m.data.is = "quit"
              THEN Msg!ChildExit(c, "done") /\ UNCHANGED childHeld
              ELSE /\ child' = [child EXCEPT ![c] = "answer"]
                   /\ childHeld' = [childHeld EXCEPT ![c] = m]
                   /\ UNCHANGED <<zombies, sigchld, merged>>
  BY DEF Msg!ChildReceive
<1>. QED
  BY <1>7, <1>8, <1>9

\* The label of one client changes.
LEMMA MsgClientMoves ==
    ASSUME MsgInv, NEW c \in Clients,
           NEW label \in {"read", "receive", "remove", "quit", "done", "failed"}, Msg!ClientGoto(c, label)
    PROVE  /\ client' \in [Clients -> {"absent", "start", "read", "receive", "remove", "quit", "done", "failed"}]
           /\ client'[c] = label /\ \A d \in Clients : d # c => client'[d] = client[d]
<1>1. client \in [Clients -> {"absent", "start", "read", "receive", "remove", "quit", "done", "failed"}]
  BY MsgParts DEF Msg!TypeOK
<1>2. client' = [client EXCEPT ![c] = label]
  BY DEF Msg!ClientGoto
<1>. QED
  BY <1>1, <1>2

\* The labels and who started, when a client moves on.
LEMMA MsgClientLabels ==
    ASSUME MsgInv, NEW c \in Clients, client[c] # "absent", client'[c] # "start",
           \A d \in Clients : d # c => client'[d] = client[d],
           service = "start" => client'[c] = "failed" /\ Msg!Public \notin exists',
           UNCHANGED <<program, service, held, child, childHeld>>
    PROVE  Labels'
<1>1. program = "pair" => \A d \in Clients : client[d] # "absent" => d = c
  BY MsgParts DEF Labels
<1>2. program' = "pair" => \A d, e \in Clients : client'[d] # "absent" /\ client'[e] # "absent" => d = e
  BY <1>1
<1>. QED
  BY <1>2, MsgParts DEF Labels

\* A client leaves, or finds its queue gone.
LEMMA MsgClientLeaves ==
    ASSUME MsgInv, NEW c \in Clients, NEW label \in {"done", "failed"}, Msg!ClientGoto(c, label),
           client[c] \in {"start", "read", "receive"}, label = "done" => client[c] = "read",
           UNCHANGED <<program, exists, queue, service, held, mine, child, childHeld, zombies, sigchld, merged>>,
           typed' \in [Clients -> 0 .. Lines], \A d \in Clients : d # c => typed'[d] = typed[d],
           client[c] # "read" => typed'[c] = typed[c]
    PROVE  MsgInv'
<1>1. /\ client' \in [Clients -> {"absent", "start", "read", "receive", "remove", "quit", "done", "failed"}]
      /\ client'[c] = label /\ \A d \in Clients : d # c => client'[d] = client[d]
  BY MsgClientMoves
<1>2. /\ queue' \in [Msg!QueueIds -> Seq(Msg!Messages)]
      /\ \A p \in Msg!QueueIds : OneEach(queue'[p])
      /\ \A p \in Msg!QueueIds : Mail(p)' = Mail(p)
      /\ \A d \in Clients : Sent(d)' <=> Sent(d)
  BY MailSame
<1>3. \A d \in Clients : /\ InHands(d)' <=> InHands(d)
                         /\ ByChild(d)' <=> ByChild(d)
                         /\ Msg!ClientQueue(d)' = Msg!ClientQueue(d)
  BY DEF InHands, ByChild, Msg!ClientQueue
<1>4. Msg!TypeOK'
  BY <1>1, <1>2, MsgParts DEF Msg!TypeOK
<1>5. Once'
  BY <1>2, <1>3, MsgParts DEF Once
<1>6. OnItsWay'
  BY <1>1, <1>2, <1>3, MsgParts DEF OnItsWay
<1>7. LastLine'
  <2>1. \A d \in Clients : Sent(d) \/ InHands(d) \/ ByChild(d) => typed'[d] = typed[d]
    BY MsgParts DEF OnItsWay
  <2>2. \A q \in Msg!QueueIds : \A m \in Mail(q)' : m.data.n = typed'[m.data.by]
    <3>1. TAKE q \in Msg!QueueIds
    <3>2. TAKE m \in Mail(q)'
    <3>3. m \in Mail(q) /\ m.data.by \in Clients /\ Sent(m.data.by)
      BY <1>2, MailFrom
    <3>. QED
      BY <2>1, <3>3, MsgParts DEF LastLine
  <2>3. held' # Msg!None => held'.data.n = typed'[held'.data.by]
    <3>1. SUFFICES ASSUME held # Msg!None PROVE held.data.n = typed'[held.data.by]
      OBVIOUS
    <3>2. held.data.by \in Clients /\ InHands(held.data.by)
      <4>1. held \in Msg!Messages
        BY <3>1, MsgParts DEF Msg!TypeOK
      <4>. QED
        BY <3>1, <4>1, MessageParts DEF InHands
    <3>. QED
      BY <2>1, <3>1, <3>2, MsgParts DEF LastLine
  <2>4. \A d \in Clients : childHeld[d] # Msg!None => childHeld[d].data.by = d /\ childHeld[d].data.n = typed'[d]
    BY <2>1, MsgParts DEF LastLine, ByChild
  <2>5. \A d \in Clients :
          /\ mine[d] # Msg!None => mine[d].data.by = d /\ (client'[d] = "read" => mine[d].data.n = typed'[d])
          /\ client'[d] = "start" => mine[d] = Msg!None /\ typed'[d] = 0
    BY <1>1, MsgParts DEF LastLine
  <2>. QED
    BY <2>2, <2>3, <2>4, <2>5 DEF LastLine
<1>8. Labels'
  <2>1. service = "start" => client'[c] = "failed" /\ Msg!Public \notin exists'
    BY <1>1, MsgParts DEF Labels
  <2>. QED
    BY <1>1, <2>1, MsgClientLabels
<1>9. Letters'
  <2>1. Msg!Public \in Msg!QueueIds /\ Clients \subseteq Msg!QueueIds
    BY DEF Msg!QueueIds
  <2>2. \A d \in Clients : client'[d] = "receive" => client[d] = "receive"
    BY <1>1
  <2>. QED
    BY <1>2, <2>1, <2>2, MsgParts DEF Letters
<1>10. Reaping'
  BY MsgParts DEF Reaping, Ended
<1>. QED
  BY <1>4, <1>5, <1>6, <1>7, <1>8, <1>9, <1>10 DEF MsgInv

\* At the end of its input the client of "pair" leaves.
LEMMA MsgClientEof == ASSUME MsgInv, NEW c \in Clients, Msg!ClientEof(c) PROVE MsgInv'
<1>1. /\ client[c] = "read" /\ Msg!ClientGoto(c, "done")
      /\ UNCHANGED <<program, exists, queue, service, held, mine, typed, child, childHeld, zombies, sigchld, merged>>
  BY DEF Msg!ClientEof, Msg!childVars
<1>2. typed' \in [Clients -> 0 .. Lines]
  BY <1>1, MsgParts DEF Msg!TypeOK
<1>. QED
  BY <1>1, <1>2, MsgClientLeaves

\* The client of "fork" removes its queue, whatever its child still sends.
LEMMA MsgClientRemoves == ASSUME MsgInv, NEW c \in Clients, Msg!ClientRemove(c) PROVE MsgInv'
<1>1. /\ client[c] = "remove" /\ Msg!Remove(c) /\ Msg!ClientGoto(c, "quit")
      /\ UNCHANGED <<program, service, held, mine, typed, child, childHeld, zombies, sigchld, merged>>
  BY DEF Msg!ClientRemove, Msg!childVars
<1>2. Msg!Public \in Msg!QueueIds /\ Clients \subseteq Msg!QueueIds /\ c \in Msg!QueueIds
  BY DEF Msg!QueueIds
<1>3. /\ client' \in [Clients -> {"absent", "start", "read", "receive", "remove", "quit", "done", "failed"}]
      /\ client'[c] = "quit" /\ \A d \in Clients : d # c => client'[d] = client[d]
  BY <1>1, MsgClientMoves
<1>4. /\ exists' = exists \ {c}
      /\ queue' \in [Msg!QueueIds -> Seq(Msg!Messages)]
      /\ \A p \in Msg!QueueIds : OneEach(queue'[p])
      /\ \A p \in Msg!QueueIds : \A l : l \in Mail(p)' <=> l \in Mail(p) /\ p # c
      /\ \A d \in Clients : Sent(d)' => Sent(d)
  BY <1>1, <1>2, MailRemoved
<1>5. \A d \in Clients : /\ InHands(d)' <=> InHands(d)
                         /\ ByChild(d)' <=> ByChild(d)
                         /\ Msg!ClientQueue(d)' = Msg!ClientQueue(d)
  BY <1>1 DEF InHands, ByChild, Msg!ClientQueue
<1>6. \A d \in Clients : d # c => (Sent(d)' <=> Sent(d))
  <2>1. \A m \in Mail(c) : m.data.by = c
    BY MsgParts DEF Letters
  <2>. QED
    BY <1>4, <2>1 DEF Sent
<1>7. Msg!TypeOK'
  BY <1>1, <1>3, <1>4, MsgParts DEF Msg!TypeOK
<1>8. Once'
  <2>1. \A p, q \in Msg!QueueIds : \A k \in Mail(p)', l \in Mail(q)' : k.data.by = l.data.by => p = q
    BY <1>4, MsgParts DEF Once
  <2>2. \A d \in Clients : /\ Sent(d)' => ~InHands(d)' /\ ~ByChild(d)'
                           /\ InHands(d)' => ~ByChild(d)'
    BY <1>4, <1>5, MsgParts DEF Once
  <2>. QED
    BY <1>4, <2>1, <2>2 DEF Once
<1>9. OnItsWay'
  <2>1. \A d \in Clients : d # c /\ client[d] = "receive" /\ Msg!ClientQueue(d) \in exists' => Sent(d) \/ InHands(d) \/ ByChild(d)
    BY <1>4, MsgParts DEF OnItsWay
  <2>2. \A d \in Clients : client[d] \in {"absent", "start", "read"} => ~Sent(d)' /\ ~InHands(d) /\ ~ByChild(d)
    BY <1>4, MsgParts DEF OnItsWay
  <2>. QED
    BY <1>3, <1>5, <1>6, <2>1, <2>2 DEF OnItsWay
<1>10. LastLine'
  BY <1>1, <1>3, <1>4, MsgParts DEF LastLine
<1>11. Labels'
  <2>1. service # "start"
    BY <1>1, MsgParts DEF Labels
  <2>. QED
    BY <1>1, <1>3, <2>1, MsgClientLabels
<1>12. Letters'
  <2>1. \A l \in Mail(Msg!Public)' : l \in Mail(Msg!Public)
    BY <1>2, <1>4
  <2>2. \A d \in Clients : \A l \in Mail(d)' : l \in Mail(d)
    BY <1>2, <1>4
  <2>3. \A d \in Clients : client'[d] = "receive" => client[d] = "receive"
    BY <1>3
  <2>. QED
    BY <1>1, <2>1, <2>2, <2>3, MsgParts DEF Letters
<1>13. Reaping'
  BY <1>1, MsgParts DEF Reaping, Ended
<1>. QED
  BY <1>7, <1>8, <1>9, <1>10, <1>11, <1>12, <1>13 DEF MsgInv

\* A client that finds the queue of the forking service makes its own and says hello.
LEMMA MsgClientStart == ASSUME MsgInv, NEW c \in Clients, Msg!ClientStart(c) PROVE MsgInv'
<1>1. client[c] = "start" /\ UNCHANGED <<program, service, held, mine, typed, child, childHeld, zombies, sigchld, merged>>
  BY DEF Msg!ClientStart, Msg!childVars
<1>2. Msg!Public \in Msg!QueueIds /\ Clients \subseteq Msg!QueueIds /\ Msg!Public \notin Clients
  BY ClientsAssumption DEF Msg!QueueIds, Msg!Public
<1>3. mine[c] = Msg!None /\ typed[c] = 0 /\ ~Sent(c) /\ ~InHands(c) /\ ~ByChild(c) /\ child[c] = "none"
  BY <1>1, MsgParts DEF LastLine, OnItsWay, Labels
<1>4. CASE Msg!Public \notin exists
  <2>1. Msg!ClientGoto(c, "failed") /\ UNCHANGED <<exists, queue>>
    BY <1>4 DEF Msg!ClientStart
  <2>2. typed' \in [Clients -> 0 .. Lines]
    BY <1>1, MsgParts DEF Msg!TypeOK
  <2>. QED
    BY <1>1, <2>1, <2>2, MsgClientLeaves
<1>5. ASSUME Msg!Public \in exists PROVE service # "start"
  BY <1>5, MsgParts DEF Labels
<1>6. \A d \in Clients : /\ InHands(d)' <=> InHands(d)
                         /\ ByChild(d)' <=> ByChild(d)
                         /\ Msg!ClientQueue(d)' = Msg!ClientQueue(d)
  BY <1>1 DEF InHands, ByChild, Msg!ClientQueue
<1>7. CASE Msg!Public \in exists /\ program # "fork"
  <2>1. Msg!ClientGoto(c, "read") /\ UNCHANGED <<exists, queue>>
    BY <1>7 DEF Msg!ClientStart
  <2>2. /\ client' \in [Clients -> {"absent", "start", "read", "receive", "remove", "quit", "done", "failed"}]
        /\ client'[c] = "read" /\ \A d \in Clients : d # c => client'[d] = client[d]
    BY <2>1, MsgClientMoves
  <2>3. /\ queue' \in [Msg!QueueIds -> Seq(Msg!Messages)]
        /\ \A p \in Msg!QueueIds : OneEach(queue'[p])
        /\ \A p \in Msg!QueueIds : Mail(p)' = Mail(p)
        /\ \A d \in Clients : Sent(d)' <=> Sent(d)
    BY <2>1, MailSame
  <2>4. Msg!TypeOK'
    BY <1>1, <2>1, <2>2, <2>3, MsgParts DEF Msg!TypeOK
  <2>5. Once'
    BY <1>6, <2>3, MsgParts DEF Once
  <2>6. OnItsWay'
    BY <1>3, <1>6, <2>1, <2>2, <2>3, MsgParts DEF OnItsWay
  <2>7. LastLine'
    BY SMTT(30), <1>1, <1>3, <2>2, <2>3, MsgParts DEF LastLine
  <2>8. Labels'
    BY <1>1, <1>5, <1>7, <2>2, MsgClientLabels
  <2>9. Letters'
    <3>1. \A d \in Clients : client'[d] = "receive" => client[d] = "receive"
      BY <2>2
    <3>2. /\ \A l \in Mail(Msg!Public)' : l \in Mail(Msg!Public)
          /\ \A d \in Clients : \A l \in Mail(d)' : l \in Mail(d)
      BY <1>2, <2>3
    <3>. QED
      BY <1>1, <3>1, <3>2, MsgParts DEF Letters
  <2>10. Reaping'
    BY <1>1, MsgParts DEF Reaping, Ended
  <2>. QED
    BY <2>4, <2>5, <2>6, <2>7, <2>8, <2>9, <2>10 DEF MsgInv
<1>8. CASE Msg!Public \in exists /\ program = "fork"
  <2>1. /\ exists' = exists \cup {c} /\ Msg!Put(Msg!Public, Msg!Request(c, 0, "hello"))
        /\ Msg!ClientGoto(c, "receive")
    BY <1>8 DEF Msg!ClientStart
  <2>2. PICK m \in Msg!Messages :
          /\ m = Msg!Request(c, 0, "hello") /\ m.data.by = c /\ m.data.n = 0 /\ m.data.is = "hello"
          /\ m.text = "C" /\ m.peer = Msg!Pid(c)
    <3>1. 0 \in 0 .. Lines /\ program \in {"pair", "echo", "fork"}
      BY LinesAssumption, MsgParts
    <3>. QED
      BY <1>8, <3>1, RequestOf
  <2>3. /\ client' \in [Clients -> {"absent", "start", "read", "receive", "remove", "quit", "done", "failed"}]
        /\ client'[c] = "receive" /\ \A d \in Clients : d # c => client'[d] = client[d]
    BY <2>1, MsgClientMoves
  <2>4. /\ queue' \in [Msg!QueueIds -> Seq(Msg!Messages)]
        /\ \A p \in Msg!QueueIds : OneEach(queue'[p])
        /\ \A p \in Msg!QueueIds : \A l : l \in Mail(p)' <=> l \in Mail(p) \/ (p = Msg!Public /\ l = m)
        /\ \A p, r \in Msg!QueueIds : \A l \in Mail(p)', k \in Mail(r)' : l.data.by = k.data.by => p = r
        /\ \A d \in Clients : Sent(d)' <=> Sent(d) \/ d = c
    BY <1>2, <1>3, <2>1, <2>2, MailPut
  <2>5. Msg!TypeOK'
    BY <1>1, <1>2, <2>1, <2>3, <2>4, MsgParts DEF Msg!TypeOK
  <2>6. Once'
    <3>1. \A d \in Clients : /\ Sent(d)' => ~InHands(d)' /\ ~ByChild(d)'
                             /\ InHands(d)' => ~ByChild(d)'
      BY <1>3, <1>6, <2>4, MsgParts DEF Once
    <3>. QED
      BY <2>4, <3>1 DEF Once
  <2>7. OnItsWay'
    <3>1. \A d \in Clients : d # c => (Sent(d)' <=> Sent(d))
      BY <2>4
    <3>2. \A d \in Clients : d # c => (Msg!ClientQueue(d) \in exists' <=> Msg!ClientQueue(d) \in exists)
      BY <1>8, <2>1 DEF Msg!ClientQueue
    <3>3. Sent(c)'
      BY <2>4
    <3>. QED
      BY <1>6, <2>3, <3>1, <3>2, <3>3, MsgParts DEF OnItsWay
  <2>8. LastLine'
    <3>1. \A q \in Msg!QueueIds : \A l \in Mail(q)' : l.data.n = typed[l.data.by]
      BY <1>3, <2>2, <2>4, MsgParts DEF LastLine
    <3>. QED
      BY <1>1, <1>3, <2>3, <3>1, MsgParts DEF LastLine
  <2>9. Labels'
    BY <1>1, <1>5, <1>8, <2>3, MsgClientLabels
  <2>10. Letters'
    <3>1. \A l \in Mail(Msg!Public)' : /\ l.text = "C" /\ l.peer = Msg!Pid(l.data.by) /\ l.data.is # "quit"
                                       /\ child[l.data.by] = "none"
      BY <1>2, <1>3, <1>8, <2>2, <2>4, MsgParts DEF Letters
    <3>2. \A d \in Clients : \A l \in Mail(d)' : l \in Mail(d)
      BY <1>2, <2>4
    <3>3. \A l \in Mail(c) : FALSE
      BY <1>2, <1>3, MsgParts DEF Sent, Letters
    <3>4. \A d \in Clients : \A l \in Mail(d)' : /\ program = "fork" /\ l.data.by = d
                                                 /\ l.peer \in {Msg!Pid(d), Msg!ChildPid(d)}
                                                 /\ l.data.is = "quit" => client'[d] # "receive"
      BY <2>3, <3>2, <3>3, MsgParts DEF Letters
    <3>. QED
      BY <1>1, <1>8, <3>1, <3>4, MsgParts DEF Letters
  <2>11. Reaping'
    BY <1>1, MsgParts DEF Reaping, Ended
  <2>. QED
    BY <2>5, <2>6, <2>7, <2>8, <2>9, <2>10, <2>11 DEF MsgInv
<1>. QED
  BY <1>4, <1>7, <1>8

\* A client takes a message that is for it: it is the answer to its last line.
LEMMA MsgClientReceives == ASSUME MsgInv, NEW c \in Clients, Msg!ClientReceive(c) PROVE MsgInv'
<1>1. /\ client[c] = "receive"
      /\ UNCHANGED <<program, exists, service, held, typed, child, childHeld, zombies, sigchld, merged>>
  BY DEF Msg!ClientReceive, Msg!childVars
<1>2. Msg!Public \in Msg!QueueIds /\ Clients \subseteq Msg!QueueIds /\ Msg!ClientQueue(c) \in Msg!QueueIds
  BY DEF Msg!QueueIds, Msg!ClientQueue
<1>3. CASE Msg!ClientGoto(c, "failed") /\ UNCHANGED <<queue, mine>>
  <2>1. typed' \in [Clients -> 0 .. Lines]
    BY <1>1, MsgParts DEF Msg!TypeOK
  <2>. QED
    BY <1>1, <1>3, <2>1, MsgClientLeaves
<1>4. ASSUME NEW q \in Msg!QueueIds, q = Msg!ClientQueue(c), NEW i \in DOMAIN queue[q],
             queue[q][i].type = Msg!ClientType(c),
             mine' = [mine EXCEPT ![c] = queue[q][i]], queue' = [queue EXCEPT ![q] = Msg!Without(@, i)],
             Msg!ClientGoto(c, "read")
      PROVE  MsgInv'
  <2>1. PICK m : m = queue[q][i]
    OBVIOUS
  <2>2. /\ m \in Mail(q)
        /\ queue' \in [Msg!QueueIds -> Seq(Msg!Messages)]
        /\ \A p \in Msg!QueueIds : OneEach(queue'[p])
        /\ \A p \in Msg!QueueIds : \A l : l \in Mail(p)' <=> l \in Mail(p) /\ l.data.by # m.data.by
        /\ \A d \in Clients : Sent(d)' <=> Sent(d) /\ d # m.data.by
    <3>1. queue' = [queue EXCEPT ![q] = Msg!Without(@, i)]
      BY <1>4
    <3>2. /\ queue[q][i] \in Mail(q)
          /\ queue' \in [Msg!QueueIds -> Seq(Msg!Messages)]
          /\ \A p \in Msg!QueueIds : OneEach(queue'[p])
          /\ \A p \in Msg!QueueIds : \A l : l \in Mail(p)' <=> l \in Mail(p) /\ l.data.by # queue[q][i].data.by
          /\ \A d \in Clients : Sent(d)' <=> Sent(d) /\ d # queue[q][i].data.by
      BY <3>1, MailTaken
    <3>. QED
      BY <2>1, <3>2
  <2>3. m \in Msg!Messages /\ m.data.by \in Clients /\ Sent(m.data.by) /\ m.data.n = typed[m.data.by]
    BY <2>2, MailFrom, MsgParts DEF LastLine
  <2>4. m.data.by = c
    <3>1. CASE program = "pair"
      <4>1. client[m.data.by] # "absent" /\ client[c] # "absent"
        BY <1>1, <2>3, MsgParts DEF OnItsWay
      <4>. QED
        BY <2>3, <3>1, <4>1, MsgParts DEF Labels
    <3>2. CASE program = "echo"
      <4>1. q = Msg!Public /\ m.type = Msg!Pid(c)
        BY <1>4, <2>1, <3>2 DEF Msg!ClientQueue, Msg!ClientType
      <4>2. m.type = Msg!Pid(m.data.by)
        BY <2>2, <3>2, <4>1, MsgParts DEF Letters
      <4>. QED
        BY <2>3, <4>1, <4>2, PidsDiffer
    <3>3. CASE program = "fork"
      <4>1. q = c
        BY <1>4, <3>3 DEF Msg!ClientQueue
      <4>. QED
        BY <2>2, <4>1, MsgParts DEF Letters
    <3>. QED
      BY <3>1, <3>2, <3>3, MsgParts
  <2>5. /\ client' \in [Clients -> {"absent", "start", "read", "receive", "remove", "quit", "done", "failed"}]
        /\ client'[c] = "read" /\ \A d \in Clients : d # c => client'[d] = client[d]
    BY <1>4, MsgClientMoves
  <2>6. /\ mine' \in [Clients -> Msg!Messages \cup {Msg!None}]
        /\ mine'[c] = m /\ \A d \in Clients : d # c => mine'[d] = mine[d]
    <3>1. mine \in [Clients -> Msg!Messages \cup {Msg!None}]
      BY MsgParts DEF Msg!TypeOK
    <3>. QED
      BY <1>4, <2>1, <2>3, <3>1
  <2>7. \A d \in Clients : /\ InHands(d)' <=> InHands(d)
                           /\ ByChild(d)' <=> ByChild(d)
                           /\ Msg!ClientQueue(d)' = Msg!ClientQueue(d)
    BY <1>1 DEF InHands, ByChild, Msg!ClientQueue
  <2>8. Msg!TypeOK'
    BY <1>1, <2>2, <2>5, <2>6, MsgParts DEF Msg!TypeOK
  <2>9. Once'
    <3>1. \A p, r \in Msg!QueueIds : \A k \in Mail(p)', l \in Mail(r)' : k.data.by = l.data.by => p = r
      BY <2>2, MsgParts DEF Once
    <3>2. \A d \in Clients : /\ Sent(d)' => ~InHands(d)' /\ ~ByChild(d)'
                             /\ InHands(d)' => ~ByChild(d)'
      BY <2>2, <2>7, MsgParts DEF Once
    <3>. QED
      BY <2>2, <3>1, <3>2 DEF Once
  <2>10. OnItsWay'
    <3>1. ~Sent(c)' /\ ~InHands(c)' /\ ~ByChild(c)'
      BY <2>2, <2>3, <2>4, <2>7, MsgParts DEF Once
    <3>2. \A d \in Clients : d # c => (Sent(d)' <=> Sent(d))
      BY <2>2, <2>4
    <3>. QED
      BY <1>1, <2>5, <2>7, <3>1, <3>2, MsgParts DEF OnItsWay
  <2>11. LastLine'
    <3>1. \A p \in Msg!QueueIds : \A l \in Mail(p)' : l.data.n = typed[l.data.by]
      BY <2>2, MsgParts DEF LastLine
    <3>2. \A d \in Clients :
            /\ mine'[d] # Msg!None => mine'[d].data.by = d /\ (client'[d] = "read" => mine'[d].data.n = typed[d])
            /\ client'[d] = "start" => mine'[d] = Msg!None /\ typed[d] = 0
      BY <2>3, <2>4, <2>5, <2>6, MsgParts DEF LastLine
    <3>. QED
      BY <1>1, <3>1, <3>2, MsgParts DEF LastLine
  <2>12. Labels'
    <3>1. service # "start"
      BY <1>1, MsgParts DEF Labels
    <3>. QED
      BY <1>1, <2>5, <3>1, MsgClientLabels
  <2>13. Letters'
    <3>1. \A l \in Mail(Msg!Public)' : l \in Mail(Msg!Public)
      BY <1>2, <2>2
    <3>2. \A d \in Clients : \A l \in Mail(d)' : l \in Mail(d)
      BY <1>2, <2>2
    <3>3. \A d \in Clients : client'[d] = "receive" => client[d] = "receive"
      BY <2>5
    <3>. QED
      BY <1>1, <3>1, <3>2, <3>3, MsgParts DEF Letters
  <2>14. Reaping'
    BY <1>1, MsgParts DEF Reaping, Ended
  <2>. QED
    BY <2>8, <2>9, <2>10, <2>11, <2>12, <2>13, <2>14 DEF MsgInv
<1>5. \/ Msg!ClientGoto(c, "failed") /\ UNCHANGED <<queue, mine>>
      \/ \E i \in DOMAIN queue[Msg!ClientQueue(c)] :
           /\ queue[Msg!ClientQueue(c)][i].type = Msg!ClientType(c)
           /\ mine' = [mine EXCEPT ![c] = queue[Msg!ClientQueue(c)][i]]
           /\ queue' = [queue EXCEPT ![Msg!ClientQueue(c)] = Msg!Without(@, i)]
           /\ Msg!ClientGoto(c, "read")
  BY DEF Msg!ClientReceive, Msg!Takes
<1>. QED
  BY <1>2, <1>3, <1>4, <1>5

\* A client that typed a line waits for the answer to this one, or leaves.
LEMMA MsgClientSends == ASSUME MsgInv, NEW c \in Clients, Msg!ClientSend(c) PROVE MsgInv'
<1>1. /\ client[c] = "read"
      /\ UNCHANGED <<program, exists, service, held, mine, child, childHeld, zombies, sigchld, merged>>
  BY DEF Msg!ClientSend, Msg!childVars
<1>2. /\ Msg!Public \in Msg!QueueIds /\ Clients \subseteq Msg!QueueIds /\ Msg!Public \notin Clients
      /\ Msg!ClientQueue(c) \in Msg!QueueIds
  BY ClientsAssumption DEF Msg!QueueIds, Msg!Public, Msg!ClientQueue
<1>3. /\ typed' \in [Clients -> 0 .. Lines] /\ \A d \in Clients : d # c => typed'[d] = typed[d]
  <2>1. typed \in [Clients -> 0 .. Lines] /\ typed[c] \in Nat
    BY LinesAssumption, MsgParts DEF Msg!TypeOK
  <2>2. typed[c] < Lines /\ typed' = [typed EXCEPT ![c] = typed[c] + 1]
    BY DEF Msg!ClientSend
  <2>3. typed[c] + 1 \in 0 .. Lines
    BY <2>1, <2>2, LinesAssumption
  <2>. QED
    BY <2>1, <2>2, <2>3
<1>4. ~Sent(c) /\ ~InHands(c) /\ ~ByChild(c) /\ service # "start"
  BY <1>1, MsgParts DEF OnItsWay, Labels
<1>5. CASE Msg!ClientGoto(c, "failed") /\ UNCHANGED queue
  BY <1>1, <1>3, <1>5, MsgClientLeaves
<1>6. ASSUME NEW is \in {"line", "time", "quit"}, NEW q \in Msg!QueueIds, q = Msg!ClientQueue(c),
             Msg!Put(q, Msg!Request(c, typed'[c], is)), Msg!ClientGoto(c, Msg!AfterSend(is))
      PROVE  MsgInv'
  <2>1. PICK m \in Msg!Messages :
          /\ m = Msg!Request(c, typed'[c], is) /\ m.data.by = c /\ m.data.n = typed'[c] /\ m.data.is = is
          /\ program # "pair" => m.type = Msg!Pid(c)
          /\ program = "fork" => m.peer = Msg!Pid(c)
    <3>1. typed'[c] \in 0 .. Lines
      BY <1>3
    <3>2. program \in {"pair", "echo", "fork"} /\ is \in {"line", "time", "quit", "hello"}
      BY <1>6, MsgParts
    <3>. QED
      BY <3>1, <3>2, RequestOf
  <2>2. PICK label \in {"receive", "remove", "quit"} :
          /\ label = Msg!AfterSend(is)
          /\ program = "fork" /\ is = "quit" => label = "remove"
    BY DEF Msg!AfterSend
  <2>3. /\ client' \in [Clients -> {"absent", "start", "read", "receive", "remove", "quit", "done", "failed"}]
        /\ client'[c] = label /\ \A d \in Clients : d # c => client'[d] = client[d]
    BY <1>6, <2>2, MsgClientMoves
  <2>4. /\ queue' \in [Msg!QueueIds -> Seq(Msg!Messages)]
        /\ \A p \in Msg!QueueIds : OneEach(queue'[p])
        /\ \A p \in Msg!QueueIds : \A l : l \in Mail(p)' <=> l \in Mail(p) \/ (p = q /\ l = m)
        /\ \A p, r \in Msg!QueueIds : \A l \in Mail(p)', k \in Mail(r)' : l.data.by = k.data.by => p = r
        /\ \A d \in Clients : Sent(d)' <=> Sent(d) \/ d = c
    <3>1. Msg!Put(q, m) /\ ~Sent(m.data.by)
      BY <1>4, <1>6, <2>1
    <3>. QED
      BY <2>1, <3>1, MailPut
  <2>5. \A d \in Clients : /\ InHands(d)' <=> InHands(d)
                           /\ ByChild(d)' <=> ByChild(d)
                           /\ Msg!ClientQueue(d)' = Msg!ClientQueue(d)
    BY <1>1 DEF InHands, ByChild, Msg!ClientQueue
  <2>6. Msg!TypeOK'
    BY <1>1, <1>3, <2>3, <2>4, MsgParts DEF Msg!TypeOK
  <2>7. Once'
    <3>1. \A d \in Clients : /\ Sent(d)' => ~InHands(d)' /\ ~ByChild(d)'
                             /\ InHands(d)' => ~ByChild(d)'
      BY <1>4, <2>4, <2>5, MsgParts DEF Once
    <3>. QED
      BY <2>4, <3>1 DEF Once
  <2>8. OnItsWay'
    <3>1. Sent(c)' /\ \A d \in Clients : d # c => (Sent(d)' <=> Sent(d))
      BY <2>4
    <3>. QED
      BY <1>1, <2>3, <2>5, <3>1, MsgParts DEF OnItsWay
  <2>9. LastLine'
    <3>1. \A p \in Msg!QueueIds : \A l \in Mail(p)' : l.data.n = typed'[l.data.by]
      <4>1. TAKE p \in Msg!QueueIds
      <4>2. TAKE l \in Mail(p)'
      <4>3. CASE l \in Mail(p)
        <5>1. l.data.by \in Clients /\ l.data.by # c
          BY <1>4, <4>3, MailFrom
        <5>. QED
          BY <1>3, <4>3, <5>1, MsgParts DEF LastLine
      <4>4. CASE l = m
        BY <2>1, <4>4
      <4>. QED
        BY <2>4, <4>3, <4>4
    <3>2. held' # Msg!None => held'.data.n = typed'[held'.data.by]
      <4>1. SUFFICES ASSUME held # Msg!None PROVE held.data.n = typed'[held.data.by]
        BY <1>1
      <4>2. held.data.by \in Clients /\ held.data.by # c
        <5>1. held \in Msg!Messages
          BY <4>1, MsgParts DEF Msg!TypeOK
        <5>. QED
          BY <1>4, <4>1, <5>1, MessageParts DEF InHands
      <4>. QED
        BY <1>3, <4>1, <4>2, MsgParts DEF LastLine
    <3>3. \A d \in Clients : childHeld[d] # Msg!None => childHeld[d].data.by = d /\ childHeld[d].data.n = typed'[d]
      BY <1>3, <1>4, MsgParts DEF LastLine, ByChild
    <3>4. \A d \in Clients :
            /\ mine[d] # Msg!None => mine[d].data.by = d /\ (client'[d] = "read" => mine[d].data.n = typed'[d])
            /\ client'[d] = "start" => mine[d] = Msg!None /\ typed'[d] = 0
      <4>1. client'[c] # "read" /\ client'[c] # "start"
        BY <2>3
      <4>2. \A d \in Clients : d # c => client'[d] = client[d] /\ typed'[d] = typed[d]
        BY <1>3, <2>3
      <4>. QED
        BY <4>1, <4>2, MsgParts DEF LastLine
    <3>. QED
      BY <1>1, <3>1, <3>2, <3>3, <3>4 DEF LastLine
  <2>10. Labels'
    BY <1>1, <1>4, <2>3, MsgClientLabels
  <2>11. Letters'
    <3>1. program = "echo" => \A l \in Mail(Msg!Public)' : l.type = Msg!Pid(l.data.by)
      BY <1>2, <2>1, <2>4, MsgParts DEF Letters
    <3>2. program = "fork" => q = c
      BY <1>6 DEF Msg!ClientQueue
    <3>3. program = "fork" => \A l \in Mail(Msg!Public)' :
                                /\ l.text = "C" /\ l.peer = Msg!Pid(l.data.by) /\ l.data.is # "quit"
                                /\ child[l.data.by] = "none"
      BY <1>2, <2>4, <3>2, MsgParts DEF Letters
    <3>4. ASSUME NEW d \in Clients, NEW l \in Mail(d)'
          PROVE  /\ program = "fork" /\ l.data.by = d /\ l.peer \in {Msg!Pid(d), Msg!ChildPid(d)}
                 /\ l.data.is = "quit" => client'[d] # "receive"
      <4>1. CASE l \in Mail(d)
        <5>1. /\ program = "fork" /\ l.data.by = d /\ l.peer \in {Msg!Pid(d), Msg!ChildPid(d)}
              /\ l.data.is = "quit" => client[d] # "receive"
          BY <4>1, MsgParts DEF Letters
        <5>2. d # c
          BY <1>2, <1>4, <4>1, <5>1 DEF Sent
        <5>. QED
          BY <2>3, <5>1, <5>2
      <4>2. CASE d = q /\ l = m
        <5>1. program = "fork" /\ d = c
          <6>1. program # "fork" => q = Msg!Public
            BY <1>6 DEF Msg!ClientQueue
          <6>. QED
            BY <1>2, <3>2, <4>2, <6>1
        <5>. QED
          BY <2>1, <2>2, <2>3, <4>2, <5>1
      <4>. QED
        BY <1>2, <2>4, <3>4, <4>1, <4>2
    <3>. QED
      BY <1>1, <3>1, <3>3, <3>4, MsgParts DEF Letters
  <2>12. Reaping'
    BY <1>1, MsgParts DEF Reaping, Ended
  <2>. QED
    BY <2>6, <2>7, <2>8, <2>9, <2>10, <2>11, <2>12 DEF MsgInv
<1>7. \/ Msg!ClientGoto(c, "failed") /\ UNCHANGED queue
      \/ \E is \in {"line", "time", "quit"} : /\ Msg!Put(Msg!ClientQueue(c), Msg!Request(c, typed'[c], is))
                                              /\ Msg!ClientGoto(c, Msg!AfterSend(is))
  BY DEF Msg!ClientSend
<1>. QED
  BY <1>2, <1>5, <1>6, <1>7

\* Every step of a service, a child or a client keeps the invariant.
LEMMA MsgNext == ASSUME MsgInv, Msg!Next PROVE MsgInv'
<1>1. CASE Msg!Service
  <2>1. CASE Msg!ServiceReceive
    BY <2>1, MsgServiceReceives, MsgServiceForks
  <2>. QED
    BY <1>1, <2>1, MsgServiceStart, MsgServiceAnswers, MsgServiceRemoves, MsgSigChld DEF Msg!Service
<1>2. ASSUME NEW c \in Clients, Msg!Client(c) PROVE MsgInv'
  BY <1>2, MsgClientStart, MsgClientSends, MsgClientEof, MsgClientReceives, MsgClientRemoves DEF Msg!Client
<1>3. ASSUME NEW c \in Clients, Msg!Child(c) PROVE MsgInv'
  BY <1>3, MsgChildSends, MsgChildReceives DEF Msg!Child
<1>. QED
  BY <1>1, <1>2, <1>3 DEF Msg!Next

\* What another kind of program does is nothing to it.
LEMMA MsgUnchanged == ASSUME MsgInv, UNCHANGED msgVars PROVE MsgInv'
<1>1. UNCHANGED <<program, exists, queue, service, held, client, mine, typed, child, childHeld, zombies, sigchld, merged>>
  BY DEF msgVars
<1>2. Once' /\ OnItsWay' /\ LastLine' /\ Letters'
  BY <1>1, MsgStill
<1>3. Msg!TypeOK'
  BY <1>1, MsgParts DEF Msg!TypeOK
<1>4. Labels' /\ Reaping'
  BY <1>1, MsgParts DEF Labels, Reaping, Ended
<1>. QED
  BY <1>2, <1>3, <1>4 DEF MsgInv

\* No message was sent yet, or the programs are not run at all.
LEMMA MsgInit == ASSUME Msg!Init \/ Msg!NotRun PROVE MsgInv
<1>1. /\ Msg!Quiet /\ service \in {"start", "done"} /\ client \in [Clients -> {"start", "absent"}]
      /\ program = "pair" => \A c, d \in Clients : client[c] # "absent" /\ client[d] # "absent" => c = d
      /\ service = "done" => \A c \in Clients : client[c] = "absent"
  <2>1. CASE Msg!Init
    <3>1. /\ Msg!Quiet /\ service = "start" /\ client \in [Clients -> {"start", "absent"}]
          /\ program = "pair" => Msg!Cardinality({c \in Clients : client[c] = "start"}) = 1
      BY <2>1 DEF Msg!Init
    <3>2. ASSUME program = "pair" PROVE \A c, d \in Clients : client[c] # "absent" /\ client[d] # "absent" => c = d
      <4>1. PICK S : S = {c \in Clients : client[c] = "start"}
        OBVIOUS
      <4>2. IsFiniteSet(S) /\ Cardinality(S) = 1
        <5>1. S \subseteq Clients
          BY <4>1
        <5>. QED
          BY <3>1, <3>2, <4>1, <5>1, ClientsAssumption, SameCount, FS_Subset
      <4>3. PICK e : S = {e}
        BY <4>2, FS_Singleton
      <4>4. \A c \in Clients : client[c] # "absent" => c \in S
        BY <3>1, <4>1
      <4>. QED
        BY <4>3, <4>4
    <3>. QED
      BY <3>1, <3>2
  <2>2. CASE Msg!NotRun
    BY <2>2 DEF Msg!NotRun
  <2>. QED
    BY <2>1, <2>2
<1>2. /\ program \in {"pair", "echo", "fork"} /\ exists = {} /\ held = Msg!None
      /\ queue = [q \in Msg!QueueIds |-> <<>>]
      /\ mine = [c \in Clients |-> Msg!None] /\ typed = [c \in Clients |-> 0]
      /\ child = [c \in Clients |-> "none"] /\ childHeld = [c \in Clients |-> Msg!None]
      /\ zombies = 0 /\ sigchld = FALSE /\ merged = 0
  BY <1>1 DEF Msg!Quiet, Msg!Programs
<1>3. \A q \in Msg!QueueIds : OneEach(queue[q]) /\ \A m \in Mail(q) : FALSE
  BY <1>2 DEF OneEach, Mail, Elements
<1>4. \A c \in Clients : ~Sent(c) /\ ~InHands(c) /\ ~ByChild(c)
  BY <1>2, <1>3 DEF Sent, InHands, ByChild
<1>5. Msg!TypeOK
  <2>1. 0 \in 0 .. Msg!Cardinality(Clients)
    <3>1. Cardinality(Clients) \in Nat
      BY ClientsAssumption, FS_CardinalityType
    <3>. QED
      BY <3>1, SameCount
  <2>2. typed \in [Clients -> 0 .. Lines]
    BY <1>2, LinesAssumption
  <2>3. queue \in [Msg!QueueIds -> Seq(Msg!Messages)]
    BY <1>2, EmptySeq
  <2>. QED
    BY <1>1, <1>2, <2>1, <2>2, <2>3 DEF Msg!TypeOK, Msg!Programs
<1>6. Once
  BY <1>3, <1>4 DEF Once
<1>7. OnItsWay
  BY <1>1, <1>4 DEF OnItsWay
<1>8. LastLine
  BY <1>2, <1>3 DEF LastLine
<1>9. Labels
  BY <1>1, <1>2 DEF Labels
<1>10. Letters
  BY <1>2, <1>3 DEF Letters, Msg!QueueIds
<1>11. Reaping
  <2>1. Ended = {}
    BY <1>2 DEF Ended
  <2>2. Cardinality(Ended) = 0
    BY <2>1, FS_EmptySet
  <2>. QED
    BY <1>2, <2>2 DEF Reaping
<1>. QED
  BY <1>5, <1>6, <1>7, <1>8, <1>9, <1>10, <1>11 DEF MsgInv

\* Each client has a message once: a queue is not longer than there are clients.
LEMMA QueueIsShort ==
    ASSUME MsgInv, NEW q \in Msg!QueueIds
    PROVE  \A i \in DOMAIN queue[q] : i \in 1 .. Msg!Cardinality(Clients) + 1
<1>1. PICK n \in Nat : n = Len(queue[q]) /\ DOMAIN queue[q] = 1 .. n
  BY MsgParts
<1>2. PICK f \in [1 .. n -> Clients] : f = [i \in 1 .. n |-> queue[q][i].data.by]
  <2>1. \A i \in 1 .. n : queue[q][i].data.by \in Clients
    <3>1. \A i \in 1 .. n : queue[q][i] \in Mail(q)
      BY <1>1 DEF Mail, Elements
    <3>. QED
      BY <3>1, MailFrom
  <2>. QED
    BY <2>1
<1>3. f \in Injection(1 .. n, Clients)
  <2>1. \A i, j \in 1 .. n : queue[q][i].data.by = queue[q][j].data.by => i = j
    BY <1>1, MsgParts DEF Once, OneEach
  <2>2. \A i, j \in 1 .. n : f[i] = f[j] => i = j
    BY <1>2, <2>1
  <2>. QED
    BY <2>2 DEF Injection, IsInjective
<1>4. IsFiniteSet(1 .. n) /\ Cardinality(1 .. n) = n
  <2>1. 1 \in Int /\ n \in Int
    OBVIOUS
  <2>2. IsFiniteSet(1 .. n) /\ Cardinality(1 .. n) = (IF 1 > n THEN 0 ELSE n - 1 + 1)
    BY <2>1, FS_Interval
  <2>. QED
    BY <2>2
<1>5. IsFiniteSet(Clients)
  BY ClientsAssumption
<1>6. n <= Cardinality(Clients) /\ Cardinality(Clients) \in Nat
  BY <1>3, <1>4, <1>5, FS_Injection, FS_CardinalityType
<1>. QED
  BY <1>1, <1>6, SameCount

\* Where it is decides what InFlight counts.
LEMMA OneInFlight ==
    ASSUME MsgInv, NEW c \in Clients
    PROVE  /\ ~Sent(c) /\ ~InHands(c) /\ ~ByChild(c) => Msg!InFlight(c) = {}
           /\ Sent(c) \/ InHands(c) \/ ByChild(c) => Msg!Cardinality(Msg!InFlight(c)) = 1
<1>. DEFINE Slots == {m \in Msg!QueueIds \X (1 .. Msg!Cardinality(Clients) + 1) :
                        m[2] \in DOMAIN queue[m[1]] /\ queue[m[1]][m[2]].data.by = c}
            AtService == IF held # Msg!None /\ held.data.by = c THEN {<<"service", 0>>} ELSE {}
            AtChild == IF childHeld[c] # Msg!None THEN {<<"child", 0>>} ELSE {}
<1>1. Msg!InFlight(c) = (Slots \cup AtService) \cup AtChild
  BY DEF Msg!InFlight
<1>2. AtService = (IF InHands(c) THEN {<<"service", 0>>} ELSE {}) /\ AtChild = (IF ByChild(c) THEN {<<"child", 0>>} ELSE {})
  BY DEF InHands, ByChild
<1>3. ~Sent(c) => Slots = {}
  <2>1. \A s \in Slots : queue[s[1]][s[2]] \in Mail(s[1]) /\ s[1] \in Msg!QueueIds /\ queue[s[1]][s[2]].data.by = c
    BY DEF Mail, Elements
  <2>. QED
    BY <2>1 DEF Sent
<1>4. Sent(c) => \E s : Slots = {s}
  <2>1. SUFFICES ASSUME Sent(c) PROVE \E s : Slots = {s}
    OBVIOUS
  <2>2. PICK q \in Msg!QueueIds : \E i \in DOMAIN queue[q] : queue[q][i].data.by = c
    BY <2>1 DEF Sent, Mail, Elements
  <2>3. PICK i \in DOMAIN queue[q] : queue[q][i].data.by = c
    BY <2>2
  <2>4. i \in 1 .. Msg!Cardinality(Clients) + 1
    BY QueueIsShort
  <2>5. <<q, i>> \in Slots
    BY <2>3, <2>4
  <2>6. \A s \in Slots : s = <<q, i>>
    <3>1. TAKE s \in Slots
    <3>2. PICK p \in Msg!QueueIds : p = s[1]
      OBVIOUS
    <3>3. PICK j \in DOMAIN queue[p] : s = <<p, j>> /\ queue[p][j].data.by = c
      BY <3>2
    <3>4. queue[p][j] \in Mail(p) /\ queue[q][i] \in Mail(q)
      BY DEF Mail, Elements
    <3>5. p = q
      BY <2>3, <3>3, <3>4, MsgParts DEF Once
    <3>6. j = i
      BY <2>3, <3>3, <3>5, MsgParts DEF Once, OneEach
    <3>. QED
      BY <3>3, <3>5, <3>6
  <2>. QED
    BY <2>5, <2>6
<1>. HIDE DEF Slots, AtService, AtChild
<1>5. Sent(c) => ~InHands(c) /\ ~ByChild(c)
  BY MsgParts DEF Once
<1>6. InHands(c) => ~ByChild(c)
  BY MsgParts DEF Once
<1>7. Sent(c) \/ InHands(c) \/ ByChild(c) => \E s : Msg!InFlight(c) = {s}
  <2>1. CASE Sent(c)
    BY <1>1, <1>2, <1>4, <1>5, <2>1
  <2>2. CASE ~Sent(c) /\ InHands(c)
    BY <1>1, <1>2, <1>3, <1>6, <2>2
  <2>3. CASE ~Sent(c) /\ ~InHands(c)
    BY <1>1, <1>2, <1>3, <2>3
  <2>. QED
    BY <2>1, <2>2, <2>3
<1>8. ASSUME Sent(c) \/ InHands(c) \/ ByChild(c) PROVE Msg!Cardinality(Msg!InFlight(c)) = 1
  BY <1>7, <1>8, SameCount, FS_Singleton
<1>. QED
  BY <1>1, <1>2, <1>3, <1>8

\* The invariant says that one message is on its way, and the right one.
LEMMA MsgCounts == ASSUME MsgInv PROVE OneMessageInFlight /\ ZombiesOnlyFromMergedSignals
<1>1. Msg!OneMessageInFlight
  BY OneInFlight, MsgParts DEF OnItsWay, Msg!OneMessageInFlight
<1>2. Msg!OwnAnswer
  BY MsgParts DEF LastLine, Msg!OwnAnswer
<1>3. Msg!ZombiesOnlyFromMergedSignals
  BY MsgParts DEF Reaping, Msg!ZombiesOnlyFromMergedSignals
<1>. QED
  BY <1>1, <1>2, <1>3 DEF OneMessageInFlight, ZombiesOnlyFromMergedSignals

-----------------------------------------------------------------------------
(* The four kinds of program together.                                     *)

ChannelsInv == MsgInv /\ FifoInv /\ PairInv /\ MqInv

\* One kind of program starts; the others are not run.
LEMMA ChannelsInit == ASSUME Init PROVE ChannelsInv
<1>1. (Msg!Init \/ Msg!NotRun) /\ (Fifo!Init \/ Fifo!NotRun) /\ (Pair!Init \/ Pair!NotRun) /\ (Mq!Init \/ Mq!NotRun)
  BY DEF Init
<1>. QED
  BY <1>1, MsgInit, FifoInit, PairInit, MqInit DEF ChannelsInv

\* A step is one of one kind of program; the states of the others stay.
LEMMA ChannelsNext == ASSUME ChannelsInv, Next PROVE ChannelsInv'
<1>1. MsgInv /\ FifoInv /\ PairInv /\ MqInv
  BY DEF ChannelsInv
<1>2. CASE Msg!Next /\ UNCHANGED <<fifoVars, pairVars, mqVars>>
  BY <1>1, <1>2, MsgNext, FifoUnchanged, PairUnchanged, MqUnchanged DEF ChannelsInv
<1>3. CASE Fifo!Next /\ UNCHANGED <<msgVars, pairVars, mqVars>>
  BY <1>1, <1>3, FifoNext, MsgUnchanged, PairUnchanged, MqUnchanged DEF ChannelsInv
<1>4. CASE Pair!Next /\ UNCHANGED <<msgVars, fifoVars, mqVars>>
  BY <1>1, <1>4, PairNext, MsgUnchanged, FifoUnchanged, MqUnchanged DEF ChannelsInv
<1>5. CASE Mq!Next /\ UNCHANGED <<msgVars, fifoVars, pairVars>>
  BY <1>1, <1>5, MqNext, MsgUnchanged, FifoUnchanged, PairUnchanged DEF ChannelsInv
<1>. QED
  BY <1>2, <1>3, <1>4, <1>5 DEF Next

\* A stuttering step.
LEMMA ChannelsUnchanged == ASSUME ChannelsInv, UNCHANGED vars PROVE ChannelsInv'
BY MsgUnchanged, FifoUnchanged, PairUnchanged, MqUnchanged DEF ChannelsInv, vars

\* Where every message, request, answer and open end can be (msg_test.cpp,
\* fifo_test.cpp, mqueue_test.cpp), in every state of Channels.
THEOREM ChannelsInvariant == Spec => []ChannelsInv
<1>1. Init => ChannelsInv
  BY ChannelsInit
<1>2. ChannelsInv /\ [Next]_vars => ChannelsInv'
  BY ChannelsNext, ChannelsUnchanged
<1>. QED
  BY <1>1, <1>2, PTL DEF Spec

\* In every state, the variables of the four kinds of program have values of
\* their kind; at most as many children are zombies as there are clients.
THEOREM ChannelsTypes == Spec => []TypeOK
<1>1. ChannelsInv => TypeOK
  BY MsgParts, FifoParts DEF ChannelsInv, PairInv, MqInv, TypeOK
<1>. QED
  BY <1>1, ChannelsInvariant, PTL

\* In every state, a client of the System V services that waits has exactly one
\* message on its way, one that types has none, and what it received last is
\* about the line it typed last (msg_test.cpp:256-276, 454-478).
THEOREM OneMessageOnItsWay == Spec => []OneMessageInFlight
<1>1. ChannelsInv => OneMessageInFlight
  BY MsgCounts DEF ChannelsInv
<1>. QED
  BY <1>1, ChannelsInvariant, PTL

\* In every state, there are no more zombies than SIGCHLDs that merged, and the
\* one that is pending (process_signal.cpp:585-591).
THEOREM ZombiesMerged == Spec => []ZombiesOnlyFromMergedSignals
<1>1. ChannelsInv => ZombiesOnlyFromMergedSignals
  BY MsgCounts DEF ChannelsInv
<1>. QED
  BY <1>1, ChannelsInvariant, PTL

\* In every state, a request to the FIFO service that was read alone is waiting,
\* in its hands or answered once and completely, and only an interrupted client
\* kills or blocks the service (fifo_test.cpp:278-302, 388).
THEOREM RequestsAccounted == Spec => []RequestsAccountedFor
<1>1. ChannelsInv => RequestsAccountedFor
  BY FifoAccounted DEF ChannelsInv
<1>. QED
  BY <1>1, ChannelsInvariant, PTL

\* In every state, a client that misses the answer to its last line has lost its
\* service (fifo_test.cpp:145-185), and on the POSIX queue only the queue that an
\* earlier run left gives a message of that run (mqueue_test.cpp:334-350).
THEOREM AnswersMatch == Spec => []AnswerMatchesLine
<1>1. MqInv => Mq!StaleOnlyFromOldQueue
  BY DEF MqInv, Mq!StaleOnlyFromOldQueue
<1>2. ChannelsInv => AnswerMatchesLine
  BY <1>1, PairMatches DEF ChannelsInv, AnswerMatchesLine
<1>. QED
  BY <1>2, ChannelsInvariant, PTL
=============================================================================
