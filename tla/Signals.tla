------------------------------- MODULE Signals -------------------------------
(***************************************************************************)
(* The programs of process_signal/: process_kill, process_sigaction,        *)
(* process_shield and process_signal of process_signal.cpp, and             *)
(* test01_signal_rt of realtime_signal.cpp, as scripts of their parent and  *)
(* child.  One process of each program receives signals: the child of       *)
(* test01_signal_rt, the parent elsewhere; the user sends them to a parent  *)
(* at any time.  A sleep may end at any time.                               *)
(***************************************************************************)
EXTENDS Integers, Sequences, FiniteSets

CONSTANTS
  Queued,     \* bound: how often each signal is queued by the parent (3)
  MaxSent,    \* bound: signals the user sends
  MaxLines    \* bound: inputs the user types

Realtime == {"SIGRTMAX", "SIGRTMAX-1", "SIGRTMAX-2"}
Standard == {"SIGTERM", "SIGINT", "SIGUSR1", "SIGUSR2"}
AllSignals == Realtime \cup Standard
Procs == {"parent", "child"}

-----------------------------------------------------------------------------
(* Steps and scripts *)

Step(op, on, n) == [op |-> op, on |-> on, n |-> n]
Fork == Step("fork", {}, 0)
Handle(s) == Step("handle", {s}, 0)                 \* sigaction, signal, Signal_rt
Block(S) == Step("block", S, 0)
Unblock(S) == Step("unblock", S, 0)
Sleep == Step("sleep", {}, 0)
WhileRunning(jump) == Step("while", {}, jump)       \* jumps when running is 0
Jump(jump) == Step("jump", {}, jump)
CallRead == Step("call_read", {}, 0)
InRead == Step("in_read", {}, 0)
Queue(s, n) == Step("queue", {s}, n)
Waitpid == Step("wait", {}, 0)
WaitNoHang(jump) == Step("wait_no_hang", {}, jump)  \* jumps when the child has ended
Kill == Step("kill", {}, 0)

QueueAll(s) == [n \in 1..Queued |-> Queue(s, n)]

process_kill == [parent |-> <<Fork, WaitNoHang(2), Kill>>, child |-> <<Sleep>>]

process_sigaction ==
  [parent |-> <<Handle("SIGUSR1"), Handle("SIGUSR2"), WhileRunning(4), CallRead, InRead, Jump(-3)>>,
   child |-> <<>>]

process_shield ==
  [parent |-> <<Handle("SIGINT"), Block({"SIGINT"}), Sleep, Unblock({"SIGINT"})>>, child |-> <<>>]

process_signal ==
  [parent |-> <<Handle("SIGINT"), WhileRunning(3), Sleep, Jump(-2)>>, child |-> <<>>]

\* Wrong on purpose: the handlers are there before the signals are blocked.
BlocksLate ==
  [parent |-> <<Fork, Sleep>> \o QueueAll("SIGRTMAX") \o <<Waitpid>>,
   child |-> <<Handle("SIGRTMAX"), Handle("SIGRTMAX-1"), Handle("SIGRTMAX-2"), Handle("SIGTERM"),
               Block(Realtime), Sleep, Unblock(Realtime)>>]
test01_signal_rt ==
  [parent |-> <<Fork, Sleep>> \o QueueAll("SIGRTMAX") \o QueueAll("SIGRTMAX-1")
                \o QueueAll("SIGRTMAX-2") \o QueueAll("SIGTERM") \o <<Waitpid>>,
   child |-> <<Block(Realtime), Handle("SIGRTMAX"), Handle("SIGRTMAX-1"), Handle("SIGRTMAX-2"),
               Handle("SIGTERM"), Sleep, Unblock(Realtime)>>]

Tasks == [kill |-> process_kill, sigaction |-> process_sigaction, shield |-> process_shield,
          signal |-> process_signal, realtime |-> test01_signal_rt]
ScriptOf(name) == IF name = "none" THEN [p \in Procs |-> <<>>] ELSE Tasks[name]

VARIABLES
  task,       \* the program
  at,         \* the next step of each process
  life,       \* what has become of each process
  caught,     \* the signals the receiver has a handler for
  mask,       \* the signals the receiver blocks
  pending,    \* the signals that wait for the receiver, with their values
  sent,       \* the values sent with each signal while the receiver lived
  handled,    \* the values its handlers got
  running,    \* the variable that sig_usr and signal_handler_fun reset
  typed,      \* inputs the user typed
  ignored     \* inputs read after running was reset

vars == <<task, at, life, caught, mask, pending, sent, handled, running, typed, ignored>>

Receiver == IF task = "realtime" THEN "child" ELSE "parent"

Quiet ==
  /\ at = [p \in Procs |-> 1] /\ caught = {} /\ mask = {}
  /\ pending = [s \in AllSignals |-> <<>>] /\ sent = pending /\ handled = pending
  /\ running = TRUE /\ typed = 0 /\ ignored = 0
Init ==
  /\ task \in DOMAIN Tasks /\ Quiet
  /\ life = [p \in Procs |-> IF p = "parent" THEN "runs" ELSE "absent"]
NotRun == task = "none" /\ Quiet /\ life = [p \in Procs |-> "absent"]

-----------------------------------------------------------------------------
(* Signals *)

\* A standard signal is pending once, a realtime signal as often as it is queued.
Raise(s, n) ==
  IF life[Receiver] = "runs"
  THEN /\ sent' = [sent EXCEPT ![s] = Append(@, n)]
       /\ pending' = [pending EXCEPT ![s] = IF s \in Realtime \/ @ = <<>> THEN Append(@, n) ELSE @]
  ELSE UNCHANGED <<sent, pending>>

Deliverable == {s \in AllSignals \ mask : pending[s] # <<>>}

Here(p) == ScriptOf(task)[p][at[p]]
Alive(p) == life[p] = "runs" /\ (p = Receiver => Deliverable = {})
AtEnd(p) == at[p] > Len(ScriptOf(task)[p])
Does(p, op) == Alive(p) /\ ~AtEnd(p) /\ Here(p).op = op
Move(p, jump) == at' = [at EXCEPT ![p] = @ + jump]
Become(p, what) == life' = [life EXCEPT ![p] = what]

\* A handler runs, or the signal kills.  It interrupts read, which sets EINTR.
Deliver ==
  /\ life[Receiver] = "runs"
  /\ \E s \in Deliverable :
       /\ pending' = [pending EXCEPT ![s] = Tail(@)]
       /\ IF s \in caught
          THEN /\ handled' = [handled EXCEPT ![s] = Append(@, Head(pending[s]))]
               /\ running' = IF task \in {"sigaction", "signal"} THEN FALSE ELSE running
               /\ IF ~AtEnd(Receiver) /\ Here(Receiver).op = "in_read"
                  THEN Move(Receiver, 1) ELSE UNCHANGED at
               /\ UNCHANGED life
          ELSE Become(Receiver, "killed") /\ UNCHANGED <<handled, running, at>>
  /\ UNCHANGED <<task, caught, mask, sent, typed, ignored>>

\* kill from a shell
UserSends ==
  /\ task \in {"sigaction", "shield", "signal"} /\ life["parent"] = "runs"
  /\ \E s \in IF task = "sigaction" THEN {"SIGUSR1", "SIGUSR2"} ELSE {"SIGINT"} :
       /\ Len(sent["SIGINT"]) + Len(sent["SIGUSR1"]) + Len(sent["SIGUSR2"]) < MaxSent
       /\ Raise(s, Len(sent[s]) + 1)
  /\ UNCHANGED <<task, at, life, caught, mask, handled, running, typed, ignored>>

-----------------------------------------------------------------------------
(* The steps of the processes *)

\* A fork that fails ends the process: exit(EXIT_FAILURE), or Fork's err_sys.
Forks(p) ==
  /\ Does(p, "fork")
  /\ \/ Become("child", "runs") /\ Move(p, 1)
     \/ Become(p, "ended") /\ UNCHANGED at
  /\ UNCHANGED <<task, caught, mask, pending, sent, handled, running, typed, ignored>>

\* Sigaction_rt and sigaction_func
Sigaction(p) ==
  /\ Does(p, "handle") /\ caught' = caught \cup Here(p).on /\ Move(p, 1)
  /\ UNCHANGED <<task, life, mask, pending, sent, handled, running, typed, ignored>>

Sigprocmask(p) ==
  /\ \/ Does(p, "block") /\ mask' = mask \cup Here(p).on
     \/ Does(p, "unblock") /\ mask' = mask \ Here(p).on
  /\ Move(p, 1)
  /\ UNCHANGED <<task, life, caught, pending, sent, handled, running, typed, ignored>>

Goes(p) ==
  /\ \/ (Does(p, "sleep") \/ Does(p, "call_read")) /\ Move(p, 1)
     \/ Does(p, "jump") /\ Move(p, Here(p).n)
     \/ Does(p, "while") /\ Move(p, IF running THEN 1 ELSE Here(p).n)
  /\ UNCHANGED <<task, life, caught, mask, pending, sent, handled, running, typed, ignored>>

ReadReturns(p) ==
  /\ Does(p, "in_read") /\ typed < MaxLines /\ typed' = typed + 1
  /\ ignored' = IF running THEN ignored ELSE ignored + 1
  /\ Move(p, 1)
  /\ UNCHANGED <<task, life, caught, mask, pending, sent, handled, running>>

Sigqueue(p) ==
  /\ Does(p, "queue") /\ \E s \in Here(p).on : Raise(s, Here(p).n)
  /\ Move(p, 1)
  /\ UNCHANGED <<task, life, caught, mask, handled, running, typed, ignored>>

\* waitpid, with and without WNOHANG
Waits(p) ==
  /\ \/ /\ Does(p, "wait") /\ life["child"] \in {"ended", "killed"} /\ Move(p, 1)
        /\ IF life["child"] = "ended" THEN Become("child", "reaped") ELSE UNCHANGED life
     \/ /\ Does(p, "wait_no_hang")
        /\ IF life["child"] = "ended" THEN Become("child", "reaped") /\ Move(p, Here(p).n)
           ELSE UNCHANGED life /\ Move(p, 1)
  /\ UNCHANGED <<task, caught, mask, pending, sent, handled, running, typed, ignored>>

\* SIGKILL; for a child that has ended it does nothing.
Kills(p) ==
  /\ Does(p, "kill") /\ Move(p, 1)
  /\ IF life["child"] = "runs" THEN Become("child", "killed") ELSE UNCHANGED life
  /\ UNCHANGED <<task, caught, mask, pending, sent, handled, running, typed, ignored>>

Ends(p) ==
  /\ Alive(p) /\ AtEnd(p) /\ Become(p, "ended")
  /\ UNCHANGED <<task, at, caught, mask, pending, sent, handled, running, typed, ignored>>

Process(p) == Forks(p) \/ Sigaction(p) \/ Sigprocmask(p) \/ Goes(p) \/ Sigqueue(p) \/ Waits(p)
                \/ Kills(p) \/ Ends(p)

Next == Deliver \/ UserSends \/ \E p \in Procs : Process(p) \/ ReadReturns(p)

\* The processes go on and signals are delivered; the user need not do anything.
Fairness == WF_vars(Deliver) /\ \A p \in Procs : WF_vars(Process(p))

Spec == Init /\ [][Next]_vars /\ Fairness

-----------------------------------------------------------------------------
(* Properties *)

Gone(p) == life[p] \in {"ended", "killed", "reaped"}
Values == 0..(Queued + MaxSent)

TypeOK ==
  /\ task \in DOMAIN Tasks \cup {"none"}
  /\ \A p \in Procs : at[p] \in 1..Len(ScriptOf(task)[p]) + 1
  /\ life \in [Procs -> {"absent", "runs", "ended", "killed", "reaped"}]
  /\ caught \subseteq AllSignals /\ mask \subseteq AllSignals
  /\ pending \in [AllSignals -> Seq(Values)] /\ sent \in [AllSignals -> Seq(Values)]
  /\ handled \in [AllSignals -> Seq(Values)]
  /\ running \in BOOLEAN /\ typed \in 0..MaxLines /\ ignored \in 0..MaxLines

\* While its receiver lives, a realtime signal is handled as often as it was
\* queued and in that order (realtime_signal.cpp:368-374); of a standard
\* signal, those raised while one is pending are lost, but the first never is,
\* and its process handles it before it goes on (process_signal.cpp:490-503).
SignalsHandled ==
  /\ life[Receiver] = "runs" =>
       \A s \in Realtime : handled[s] \o pending[s] = sent[s]
  /\ \A s \in Standard :
       /\ Len(handled[s]) + Len(pending[s]) <= Len(sent[s])
       /\ sent[s] # <<>> => handled[s] \o pending[s] # <<>> \/ life[Receiver] = "killed"
  /\ life[Receiver] = "ended" => Deliverable = {}

\* Only a signal that comes before its handler kills; nothing handled in a
\* blocked section; a program that was told to stop between its test of
\* running and its read ignores no more than one input (process_signal.cpp:429-444).
SignalsStop ==
  /\ life[Receiver] = "killed" => \E s \in AllSignals \ caught : Len(handled[s]) < Len(sent[s])
  /\ life["child"] = "killed" /\ task = "kill" => at["parent"] > 3
  /\ task = "realtime" /\ at["child"] \in 2..7 => \A s \in Realtime : handled[s] = <<>>
  /\ ignored <= 1

\* The programs without input end, and process_signal once it has handled SIGINT.
SignalProgramsEnd ==
  /\ task \in {"kill", "shield", "realtime"} ~> Gone("parent") /\ life["child"] # "runs"
  /\ task = "signal" /\ ~running ~> Gone("parent")
=============================================================================
