------------------------------- MODULE MqPair -------------------------------
(***************************************************************************)
(* test_mq_service and test_mq_client of                                   *)
(* Posix_message_queue/mqueue_test.cpp: the service unlinks the name of    *)
(* the queue and creates a new queue, takes one message and sends it back  *)
(* to the same queue; the client opens what the name stands for, or        *)
(* creates it, sends one message and takes one.  An earlier run may have   *)
(* left a queue behind, with a message or empty.  A queue without a name   *)
(* lives on for those who have it open.                                    *)
(***************************************************************************)
EXTENDS Naturals, Sequences

Queues == {"left", "clients", "services"}   \* by who created it
Free == "no queue"

VARIABLES
  named,      \* the queue the name stands for
  posted,     \* the messages of each queue
  mqService,  \* label of the service
  mqClient,   \* label of the client
  mqd,        \* the queue each of them has open
  got         \* the message each of them received

vars == <<named, posted, mqService, mqClient, mqd, got>>

Quiet ==
  /\ mqd = [p \in {"service", "client"} |-> Free]
  /\ got = [p \in {"service", "client"} |-> "nothing"]
Init ==
  /\ Quiet /\ mqService = "unlink" /\ mqClient = "open"
  /\ \E old \in {<<>>, <<"stale">>} : posted = [q \in Queues |-> IF q = "left" THEN old ELSE <<>>]
  /\ named \in IF posted["left"] = <<>> THEN {"left", Free} ELSE {"left"}
NotRun == /\ Quiet /\ mqService = "done" /\ mqClient = "done"
          /\ named = Free /\ posted = [q \in Queues |-> <<>>]

\* Wrong on purpose: the service opens the queue that is there.
ServiceUnlinkNothing ==
  /\ mqService = "unlink" /\ mqService' = "open"
  /\ UNCHANGED <<named, posted, mqClient, mqd, got>>

\* Mq_unlink; an error is only reported.
ServiceUnlink ==
  /\ mqService = "unlink" /\ mqService' = "open" /\ named' = Free
  /\ UNCHANGED <<posted, mqClient, mqd, got>>

\* Mq_open with O_CREAT and without O_EXCL
OpenOrCreate(p, new) ==
  /\ named' = IF named = Free THEN new ELSE named
  /\ mqd' = [mqd EXCEPT ![p] = named']
ServiceOpen ==
  /\ mqService = "open" /\ mqService' = "receive" /\ OpenOrCreate("service", "services")
  /\ UNCHANGED <<posted, mqClient, got>>
ClientOpen ==
  /\ mqClient = "open" /\ mqClient' = "send" /\ OpenOrCreate("client", "clients")
  /\ UNCHANGED <<posted, mqService, got>>

Send(p, m) == posted' = [posted EXCEPT ![mqd[p]] = Append(@, m)]
Receive(p) ==
  /\ posted[mqd[p]] # <<>>
  /\ got' = [got EXCEPT ![p] = Head(posted[mqd[p]])]
  /\ posted' = [posted EXCEPT ![mqd[p]] = Tail(@)]

ServiceReceive ==
  /\ mqService = "receive" /\ mqService' = "answer" /\ Receive("service")
  /\ UNCHANGED <<named, mqClient, mqd>>
ServiceAnswer ==
  /\ mqService = "answer" /\ mqService' = "done" /\ Send("service", got["service"])
  /\ UNCHANGED <<named, mqClient, mqd, got>>
ClientSend ==
  /\ mqClient = "send" /\ mqClient' = "receive" /\ Send("client", "typed")
  /\ UNCHANGED <<named, mqService, mqd, got>>
ClientReceive ==
  /\ mqClient = "receive" /\ mqClient' = "done" /\ Receive("client")
  /\ UNCHANGED <<named, mqService, mqd>>

Service == ServiceUnlink \/ ServiceOpen \/ ServiceReceive \/ ServiceAnswer
Client == ClientOpen \/ ClientSend \/ ClientReceive
Next == Service \/ Client

Fairness == WF_vars(Service) /\ WF_vars(Client)
Spec == Init /\ [][Next]_vars /\ Fairness

-----------------------------------------------------------------------------

TypeOK ==
  /\ named \in Queues \cup {Free} /\ posted \in [Queues -> Seq({"stale", "typed"})]
  /\ mqService \in {"unlink", "open", "receive", "answer", "done"}
  /\ mqClient \in {"open", "send", "receive", "done"}
  /\ mqd \in [{"service", "client"} -> Queues \cup {Free}]
  /\ got \in [{"service", "client"} -> {"nothing", "stale", "typed"}]

\* The unlink before the open (mqueue_test.cpp:334-350) keeps the service from
\* answering what an earlier run left; a client that opens the old queue first
\* gets a left message in place of its own, and only then.
StaleOnlyFromOldQueue ==
  /\ got["service"] # "stale"
  /\ got["client"] = "stale" => mqd["client"] = "left"

\* Whichever queue it opened and whoever takes which message, the client gets
\* one (mqueue_test.cpp:392-393) and ends.
ClientGetsMessage == mqClient = "receive" ~> mqClient = "done"
=============================================================================
