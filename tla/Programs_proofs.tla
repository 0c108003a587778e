-------------------------- MODULE Programs_proofs --------------------------
(***************************************************************************)
(* The safety properties of the programs about signals and of those that   *)
(* start commands, for any number of signals and lines, and any exit codes *)
(* and signal numbers a command can end with:                              *)
(*                                                                         *)
(*   SignalsHandled       process_signal.cpp:429-503, realtime_signal.cpp  *)
(*   FailuresStopTheList  process_create_fork_exec_system_popen.cpp:13-46, *)
(*                        448-559, and pipe_test.cpp, popen's program      *)
(*                                                                         *)
(* ProcInv and SigInv are inductive.  ProcInv counts what a list of        *)
(* commands has reported against the command it is at, and says which      *)
(* sockets each place of service_fork's two processes leaves open.  SigInv *)
(* keeps an account of each signal, sent against handled and pending, and  *)
(* says what holds at the places of the scripts where it matters: in the   *)
(* loops, in the blocked section, before a child is forked.                *)
(***************************************************************************)
EXTENDS Programs, TLAPS

-----------------------------------------------------------------------------
(* Sequences.                                                              *)

LEMMA LenProperties ==
    ASSUME NEW S, NEW s \in Seq(S)
    PROVE  Len(s) \in Nat /\ s \in [1 .. Len(s) -> S] /\ DOMAIN s = 1 .. Len(s)
OBVIOUS

LEMMA ElementOfSeq ==
    ASSUME NEW S, NEW s \in Seq(S), NEW k \in 1 .. Len(s)
    PROVE  s[k] \in S
OBVIOUS

LEMMA SeqOfTable ==
    ASSUME NEW S, NEW n \in Nat, NEW F \in [1 .. n -> S]
    PROVE  F \in Seq(S) /\ Len(F) = n
OBVIOUS

LEMMA EmptySeq == ASSUME NEW S PROVE <<>> \in Seq(S) /\ Len(<<>>) = 0
OBVIOUS

LEMMA SeqEqual ==
    ASSUME NEW S, NEW s \in Seq(S), NEW r \in Seq(S), Len(s) = Len(r),
           \A k \in 1 .. Len(s) : s[k] = r[k]
    PROVE  s = r
OBVIOUS

LEMMA ConcatProperties ==
    ASSUME NEW S, NEW s \in Seq(S), NEW r \in Seq(S)
    PROVE  /\ s \o r \in Seq(S) /\ Len(s \o r) = Len(s) + Len(r)
           /\ \A k \in 1 .. Len(s) + Len(r) :
                (s \o r)[k] = IF k <= Len(s) THEN s[k] ELSE r[k - Len(s)]
OBVIOUS

LEMMA ConcatEqualIffEmpty ==
    ASSUME NEW S, NEW s \in Seq(S), NEW r \in Seq(S)
    PROVE  s \o r = s <=> r = <<>>
<1>1. ASSUME s \o r = s PROVE r = <<>>
  <2>1. Len(r) = 0
    BY <1>1, ConcatProperties, LenProperties
  <2>. QED
    BY <2>1
<1>2. ASSUME r = <<>> PROVE s \o r = s
  BY <1>2
<1>. QED
  BY <1>1, <1>2

LEMMA AppendProperties ==
    ASSUME NEW S, NEW s \in Seq(S), NEW e \in S
    PROVE  /\ Append(s, e) \in Seq(S) /\ Append(s, e) # <<>>
           /\ Len(Append(s, e)) = Len(s) + 1
           /\ \A k \in 1 .. Len(s) : Append(s, e)[k] = s[k]
           /\ Append(s, e)[Len(s) + 1] = e
OBVIOUS

LEMMA HeadTailProperties ==
    ASSUME NEW S, NEW s \in Seq(S), s # <<>>
    PROVE  /\ Head(s) \in S /\ Tail(s) \in Seq(S) /\ Len(Tail(s)) = Len(s) - 1
           /\ \A k \in 1 .. Len(Tail(s)) : Tail(s)[k] = s[k + 1]
OBVIOUS

-----------------------------------------------------------------------------
(* Commands, fork and exec (Processes).                                    *)

Lists == {"system", "popen", "pipe_popen"}
Stops ==
  Proc!Status \cup
    {Proc!Outcome(end, 0) : end \in {"exited", "signaled", "dumped", "nothing", "error", "replaced", "line after exec"}}

\* What a program is, and how it ends.
Endings == [how : {"runs", "exited", "signaled", "dumped"}, with : 0 .. 255]
Finals == [how : {"exited", "signaled", "dumped"}, with : 0 .. 255]

Fine == {Proc!Outcome("nothing", 0), Proc!Exited(0)}

\* A list reports one result for each command it is past, and popen's goes on
\* while none failed; while it has a stream open, it is at a command.
ListLength == Len(Proc!Commands[job])
ListGoesOn ==
  job \in Lists =>
    /\ number <= ListLength + 1
    /\ main.how = "runs" => Len(results) = number - 1
    /\ main.how = "runs" /\ job # "system" => \A i \in DOMAIN results : results[i] \in Fine
    /\ stream # "closed" => main.how = "runs" /\ number <= ListLength

\* system's list ends at its end; the other programs report once.
OthersReportOnce ==
  /\ job \notin {"popen", "pipe_popen"} => stream = "closed"
  /\ job \notin Lists => Len(results) = (IF main.how = "runs" \/ results = <<>> THEN 0 ELSE 1)
  /\ job = "service_fork" => main.how = "runs"

\* Which sockets each place of service_fork's child leaves open.
SocketsOpen ==
  job = "service_fork" =>
    /\ forked \in {"none", "failed"} =>
         sockets.listen = {"parent"} /\ sockets.accept = {"parent"}
    /\ forked = "has listen" => sockets.listen = {"parent", "child"}
    /\ forked \notin {"none", "failed", "has listen"} => sockets.listen = {"parent"}
    /\ forked = "exited" => sockets.accept \subseteq {"parent"}
    /\ forked # "returns"

ProcInv ==
  /\ Proc!TypeOK
  /\ main \in Endings
  /\ results \in Seq(Stops)
  /\ sockets = [listen |-> sockets.listen, accept |-> sockets.accept]
  /\ ListGoesOn
  /\ OthersReportOnce
  /\ SocketsOpen
  /\ Proc!FailuresStopTheList /\ Proc!SystemRunsAll

\* The lengths of the lists of commands.
LEMMA ListLengths ==
    /\ Len(Proc!Commands["system"]) = 7 /\ Len(Proc!process_system) = 7
    /\ Len(Proc!Commands["popen"]) = 9
    /\ Len(Proc!Commands["pipe_popen"]) = 10
BY DEF Proc!Commands, Proc!process_system, Proc!popen_pclose, Proc!test_popen_pclose

\* What Report appends.
LEMMA Reported ==
    ASSUME NEW S, NEW s \in Seq(S), NEW x \in S
    PROVE  /\ Append(s, x) \in Seq(S) /\ Len(Append(s, x)) = Len(s) + 1
           /\ Append(s, x)[Len(s) + 1] = x
           /\ \A i \in 1 .. Len(s) : Append(s, x)[i] = s[i]
           /\ Append(s, x) # <<>>
           /\ DOMAIN Append(s, x) = 1 .. Len(s) + 1
BY AppendProperties

\* A record of how something ended, and with what.
LEMMA OutcomeRecord ==
    ASSUME NEW How, NEW With, NEW o \in [how : How, with : With]
    PROVE  o = [how |-> o.how, with |-> o.with] /\ o.how \in How /\ o.with \in With
OBVIOUS

\* What a status is.
LEMMA Statuses ==
    ASSUME NEW status \in Proc!Status
    PROVE  /\ status = [how |-> status.how, with |-> status.with]
           /\ status.how \in {"exited", "signaled", "dumped"} /\ status.with \in 0 .. 255
           /\ status.how \in {"signaled", "dumped"} => status.with \in 1 .. 126
<1>1. CASE status \in [how : {"exited"}, with : Codes]
  <2>1. status = [how |-> status.how, with |-> status.with] /\ status.how = "exited" /\ status.with \in Codes
    BY <1>1
  <2>2. status.with \in 0 .. 255
    BY <2>1, CodesAssumption
  <2>. QED
    BY <2>1, <2>2
<1>2. CASE status \in [how : {"signaled"}, with : SignalNos]
  <2>1. status = [how |-> status.how, with |-> status.with] /\ status.how = "signaled" /\ status.with \in SignalNos
    BY <1>2
  <2>2. status.with \in 1 .. 126
    BY <2>1, CodesAssumption
  <2>. QED
    BY <2>1, <2>2
<1>3. CASE status \in [how : {"dumped"}, with : Dumping]
  <2>1. status = [how |-> status.how, with |-> status.with] /\ status.how = "dumped" /\ status.with \in Dumping
    BY <1>3
  <2>2. status.with \in 1 .. 126
    BY <2>1, CodesAssumption
  <2>. QED
    BY <2>1, <2>2
<1>. QED
  BY <1>1, <1>2, <1>3 DEF Proc!Status

\* -1, as exit hands it on.
LEMMA MinusOne == ASSUME NEW n \in Int, n + 1 = 0 PROVE n % 256 = 255
BY Z3

\* The word pclose returns, cut to eight bits by exit.
LEMMA Words ==
    ASSUME NEW status \in Proc!Status \cup {Proc!NoStatus}
    PROVE  /\ Proc!Word(status) = 0 => status = Proc!Exited(0)
           /\ Proc!Word(status) # 0 => Proc!ExitTells(status, Proc!ExitCode(Proc!Word(status)))
           /\ Proc!ExitCode(Proc!Word(status)) \in 0 .. 255
           /\ status \in Stops
<1>1. CASE status \in Proc!Status /\ status.how = "exited"
  <2>1. status.with \in 0 .. 255 /\ status = [how |-> "exited", with |-> status.with]
    BY <1>1, Statuses
  <2>2. (status.with * 256) % 256 = 0 /\ (status.with * 256 = 0 <=> status.with = 0)
    BY <2>1
  <2>3. Proc!Word(status) = status.with * 256
    BY <1>1 DEF Proc!Word
  <2>4. status.with = 0 => status = Proc!Exited(0)
    BY <2>1 DEF Proc!Exited, Proc!Outcome
  <2>5. Proc!ExitCode(Proc!Word(status)) = 0
    BY <2>2, <2>3 DEF Proc!ExitCode
  <2>6. Proc!Word(status) # 0 => Proc!ExitTells(status, Proc!ExitCode(Proc!Word(status)))
    BY <1>1, <2>2, <2>3, <2>5 DEF Proc!ExitTells
  <2>7. Proc!Word(status) = 0 => status = Proc!Exited(0)
    BY <2>2, <2>3, <2>4
  <2>8. status \in Stops
    BY <1>1 DEF Stops
  <2>. QED
    BY <2>5, <2>6, <2>7, <2>8
<1>2. CASE status \in Proc!Status /\ status.how = "signaled"
  <2>1. status.with \in 1 .. 126
    BY <1>2, Statuses
  <2>2. status.with % 256 = status.with /\ status.with \in 0 .. 255 /\ status.with # 255 /\ status.with # 0
    BY <2>1
  <2>3. Proc!Word(status) = status.with
    BY <1>2 DEF Proc!Word
  <2>4. Proc!ExitCode(Proc!Word(status)) = status.with
    BY <2>2, <2>3 DEF Proc!ExitCode
  <2>5. Proc!ExitTells(status, Proc!ExitCode(Proc!Word(status)))
    BY <1>2, <2>2, <2>4 DEF Proc!ExitTells
  <2>. QED
    BY <1>2, <2>2, <2>3, <2>4, <2>5 DEF Stops
<1>3. CASE status \in Proc!Status /\ status.how = "dumped"
  <2>. DEFINE w == status.with + 128
  <2>1. status.with \in 1 .. 126
    BY <1>3, Statuses
  <2>2. w % 256 = w /\ w \in 0 .. 255 /\ w # 255 /\ w # 0
    BY <2>1
  <2>3. Proc!Word(status) = w
    BY <1>3 DEF Proc!Word
  <2>4. Proc!ExitCode(Proc!Word(status)) = w
    BY <2>2, <2>3 DEF Proc!ExitCode
  <2>5. Proc!ExitTells(status, Proc!ExitCode(Proc!Word(status)))
    BY <1>3, <2>2, <2>4 DEF Proc!ExitTells
  <2>. HIDE DEF w
  <2>. QED
    BY <1>3, <2>2, <2>3, <2>4, <2>5 DEF Stops
<1>4. CASE status = Proc!NoStatus
  <2>1. status.how = "error" /\ Proc!Word(status) = -1
    BY <1>4 DEF Proc!NoStatus, Proc!Outcome, Proc!Word
  <2>2. -1 \in Int /\ -1 + 1 = 0
    OBVIOUS
  <2>3. (-1) % 256 = 255
    BY <2>2, MinusOne
  <2>4. Proc!ExitCode(Proc!Word(status)) = 255
    BY <2>1, <2>3 DEF Proc!ExitCode
  <2>5. status \in Stops
    BY <1>4 DEF Stops, Proc!NoStatus
  <2>6. Proc!Word(status) # 0
    BY <2>1
  <2>. QED
    BY <2>1, <2>4, <2>5, <2>6 DEF Proc!ExitTells
<1>5. status \in Proc!Status => status.how \in {"exited", "signaled", "dumped"}
  BY Statuses
<1>. QED
  BY <1>1, <1>2, <1>3, <1>4, <1>5

\* The parts of ProcInv, by name: what is a number, and the rest.
LEMMA ProcNumbers ==
    ASSUME ProcInv
    PROVE  /\ number \in 1 .. 11 /\ results \in Seq(Stops)
           /\ Len(results) \in Nat /\ Len(results) <= 10 /\ DOMAIN results = 1 .. Len(results)
           /\ job \in Lists => ListLength \in 7 .. 10
           /\ job = "system" => ListLength = 7
           /\ job \in Lists => number <= ListLength + 1
           /\ job \in Lists /\ main.how = "runs" => Len(results) = number - 1
<1>1. Len(results) \in Nat /\ DOMAIN results = 1 .. Len(results)
  BY LenProperties DEF ProcInv
<1>2. job \in Lists => ListLength \in 7 .. 10
  BY ListLengths DEF Lists, ListLength
<1>3. job = "system" => ListLength = 7
  BY ListLengths DEF ListLength
<1>4. Proc!TypeOK /\ ListGoesOn /\ results \in Seq(Stops)
  BY DEF ProcInv
<1>5. number \in 1 .. 11 /\ Len(results) <= 10
  BY <1>4 DEF Proc!TypeOK
<1>. QED
  BY <1>1, <1>2, <1>3, <1>4, <1>5 DEF ListGoesOn

\* The other parts of ProcInv.
LEMMA ProcParts ==
    ASSUME ProcInv
    PROVE  /\ job \in Proc!Jobs /\ stream \in {"closed", "open", "at end"}
           /\ forked \in {"none", "failed", "returns", "has listen", "has accept", "exited"}
           /\ main.how \in {"runs", "exited", "signaled", "dumped"} /\ main.with \in 0 .. 255
           /\ main \in Endings
           /\ sockets = [listen |-> sockets.listen, accept |-> sockets.accept]
           /\ sockets.listen \subseteq {"parent", "child"} /\ sockets.accept \subseteq {"parent", "child"}
           /\ ListGoesOn /\ OthersReportOnce /\ SocketsOpen
           /\ Proc!FailuresStopTheList /\ Proc!SystemRunsAll
BY DEF ProcInv, Proc!TypeOK

\* The list does not change.
LEMMA SameLength == ASSUME job' = job PROVE ListLength' = ListLength
BY DEF ListLength

\* Each of the words that a list or a program reports.
LEMMA OutcomeStops ==
    ASSUME NEW end \in {"exited", "signaled", "dumped", "nothing", "error", "replaced", "line after exec"}
    PROVE  Proc!Outcome(end, 0) \in Stops
BY DEF Stops

\* What is reported of a command.
LEMMA StatusStops == \A status \in Proc!Status : status \in Stops /\ status \in Finals
<1> SUFFICES ASSUME NEW status \in Proc!Status PROVE status \in Stops /\ status \in Finals
  OBVIOUS
<1>1. /\ status.how \in {"exited", "signaled", "dumped"} /\ status.with \in 0 .. 255
      /\ status = [how |-> status.how, with |-> status.with]
  BY Statuses
<1>. QED
  BY <1>1 DEF Stops, Finals

\* What the results are once x is reported.
LEMMA ReportStep ==
    ASSUME ProcInv, NEW x \in Stops, results' = Append(results, x)
    PROVE  /\ results' \in Seq(Stops) /\ results' # <<>>
           /\ Len(results') = Len(results) + 1 /\ DOMAIN results' = 1 .. Len(results) + 1
           /\ results'[Len(results) + 1] = x
           /\ \A i \in 1 .. Len(results) : results'[i] = results[i]
BY ProcNumbers, Reported

\* After one more report, all that were fine are, and the last one if it is.
LEMMA StillFine ==
    ASSUME ProcInv, NEW x \in Stops, results' = Append(results, x),
           \A i \in DOMAIN results : results[i] \in Fine
    PROVE  /\ x \in Fine => \A i \in DOMAIN results' : results'[i] \in Fine
           /\ \A i \in DOMAIN results' : i < Len(results') => results'[i] \in Fine
<1>1. DOMAIN results = 1 .. Len(results) /\ Len(results) \in Nat
  BY ProcNumbers
<1>. QED
  BY <1>1, ReportStep

\* A command that is skipped.
LEMMA SkipStep == ASSUME ProcInv, Proc!Skip PROVE ProcInv'
<1>1. job \in Lists /\ main.how = "runs" /\ stream = "closed" /\ number <= ListLength
  BY DEF Proc!Skip, Proc!Running, Proc!More, Lists, ListLength
<1>2. /\ job' = job /\ main' = main /\ stream' = stream /\ forked' = forked /\ sockets' = sockets
      /\ number' = number + 1 /\ results' = Append(results, Proc!Outcome("nothing", 0))
  BY DEF Proc!Skip, Proc!Report
<1>3. Proc!Outcome("nothing", 0) \in Stops /\ Proc!Outcome("nothing", 0) \in Fine
  BY OutcomeStops DEF Fine
<1>4. number \in 1 .. 10 /\ Len(results) = number - 1 /\ ListLength' = ListLength /\ ListLength \in 7 .. 10
  BY <1>1, <1>2, ProcNumbers, SameLength
<1>5. results' \in Seq(Stops) /\ Len(results') = number /\ results' # <<>>
  BY <1>2, <1>3, <1>4, ReportStep
<1>6. job # "system" => \A i \in DOMAIN results' : results'[i] \in Fine
  BY <1>1, <1>2, <1>3, StillFine, ProcParts DEF ListGoesOn
<1>7. Proc!TypeOK'
  <2>1. Len(results') <= 10 /\ number' \in 1 .. 11
    BY <1>2, <1>4, <1>5
  <2>. QED
    BY <1>2, <2>1, ProcParts DEF Proc!TypeOK
<1>8. ListGoesOn'
  <2>1. number' <= ListLength' + 1 /\ Len(results') = number' - 1
    BY <1>1, <1>2, <1>4, <1>5
  <2>. QED
    BY <1>1, <1>2, <1>6, <2>1 DEF ListGoesOn
<1>9. OthersReportOnce' /\ SocketsOpen'
  BY <1>1, <1>2, ProcParts DEF OthersReportOnce, SocketsOpen, Lists
<1>10. Proc!FailuresStopTheList' /\ Proc!SystemRunsAll'
  BY <1>1, <1>2, <1>6 DEF Proc!FailuresStopTheList, Proc!SystemRunsAll, Lists, Fine
<1>. QED
  BY <1>2, <1>5, <1>7, <1>8, <1>9, <1>10, ProcParts DEF ProcInv

\* A command of system, however it ends.
LEMMA SystemStep == ASSUME ProcInv, Proc!System PROVE ProcInv'
<1>1. job = "system" /\ job \in Lists /\ main.how = "runs" /\ number <= ListLength
  BY DEF Proc!System, Proc!Running, Proc!More, Lists, ListLength
<1>2. /\ job' = job /\ main' = main /\ stream' = stream /\ forked' = forked /\ sockets' = sockets
      /\ number' = number + 1
  BY DEF Proc!System
<1>3. PICK x \in Stops : results' = Append(results, x)
  <2>1. Proc!Outcome("error", 0) \in Stops /\ \A status \in Proc!Status : Proc!Outcome(status.how, 0) \in Stops
    BY Statuses, OutcomeStops
  <2>. QED
    BY <2>1 DEF Proc!System, Proc!Report
<1>4. number \in 1 .. 10 /\ Len(results) = number - 1 /\ ListLength' = ListLength /\ ListLength \in 7 .. 10
  BY <1>1, <1>2, ProcNumbers, SameLength
<1>5. results' \in Seq(Stops) /\ Len(results') = number /\ results' # <<>>
  BY <1>3, <1>4, ReportStep
<1>7. Proc!TypeOK'
  <2>1. Len(results') <= 10 /\ number' \in 1 .. 11
    BY <1>2, <1>4, <1>5
  <2>. QED
    BY <1>2, <2>1, ProcParts DEF Proc!TypeOK
<1>8. ListGoesOn'
  <2>1. number' <= ListLength' + 1 /\ Len(results') = number' - 1
    BY <1>1, <1>2, <1>4, <1>5
  <2>2. stream = "closed"
    BY <1>1, ProcParts DEF OthersReportOnce
  <2>. QED
    BY <1>1, <1>2, <2>1, <2>2 DEF ListGoesOn
<1>9. OthersReportOnce' /\ SocketsOpen'
  BY <1>1, <1>2, ProcParts DEF OthersReportOnce, SocketsOpen, Lists
<1>10. Proc!FailuresStopTheList' /\ Proc!SystemRunsAll'
  BY <1>1, <1>2 DEF Proc!FailuresStopTheList, Proc!SystemRunsAll
<1>. QED
  BY <1>2, <1>5, <1>7, <1>8, <1>9, <1>10, ProcParts DEF ProcInv

\* The main process ends: with main's value, exit's or a signal's.
LEMMA ExitedRecord ==
    ASSUME NEW n \in 0 .. 255
    PROVE  /\ Proc!Exited(n) \in Endings
           /\ Proc!Exited(n).how = "exited" /\ Proc!Exited(n).with = n
BY DEF Proc!Exited, Proc!Outcome, Endings

\* A stream is opened, or there is no process for the shell.
LEMMA PopenStep == ASSUME ProcInv, Proc!Popen PROVE ProcInv'
<1>1. job \in {"popen", "pipe_popen"} /\ job \in Lists /\ main.how = "runs" /\ number <= ListLength
  BY DEF Proc!Popen, Proc!Running, Proc!More, Lists, ListLength
<1>2. /\ job' = job /\ number' = number /\ results' = results /\ forked' = forked /\ sockets' = sockets
  BY DEF Proc!Popen
<1>3. \/ stream' = "open" /\ main' = main
      \/ main' = Proc!Exited(1) /\ stream' = "closed"
  BY DEF Proc!Popen
<1>4. Len(results) = number - 1 /\ ListLength' = ListLength
  BY <1>1, <1>2, ProcNumbers, SameLength
<1>5. main' \in Endings
      /\ (main' = main \/ (main'.how = "exited" /\ main'.with = 1))
  <2>1. 1 \in 0 .. 255
    OBVIOUS
  <2>2. /\ Proc!Exited(1) \in Endings
        /\ Proc!Exited(1).how = "exited" /\ Proc!Exited(1).with = 1
    BY <2>1, ExitedRecord
  <2>. QED
    BY <1>3, <2>2, ProcParts
<1>6. Proc!TypeOK'
  <2>1. Len(results') <= 10 /\ number' \in 1 .. 11 /\ stream' \in {"closed", "open", "at end"}
    BY <1>2, <1>3, ProcNumbers
  <2>2. main'.how \in {"runs", "exited", "signaled", "dumped"} /\ main'.with \in 0 .. 255
    BY <1>5 DEF Endings
  <2>. QED
    BY <1>2, <2>1, <2>2, ProcParts DEF Proc!TypeOK
<1>7. ListGoesOn'
  <2>1. number <= ListLength + 1
    BY <1>1, ProcNumbers
  <2>2. main'.how = "runs" => main' = main
    BY <1>5
  <2>3. stream' # "closed" => main' = main
    BY <1>3
  <2>. QED
    BY <1>1, <1>2, <1>4, <2>1, <2>2, <2>3, ProcParts DEF ListGoesOn
<1>8. OthersReportOnce' /\ SocketsOpen'
  BY <1>1, <1>2, ProcParts DEF OthersReportOnce, SocketsOpen, Lists
<1>9. Proc!FailuresStopTheList'
  <2>1. main' = main => main'.how = "runs"
    BY <1>1
  <2>2. \A i \in DOMAIN results : results[i] \in Fine
    BY <1>1, ProcParts DEF ListGoesOn
  <2>. QED
    BY <1>1, <1>2, <1>4, <1>5, <2>1, <2>2 DEF Proc!FailuresStopTheList, Fine
<1>10. Proc!SystemRunsAll'
  BY <1>1, <1>2 DEF Proc!SystemRunsAll
<1>. QED
  BY <1>2, <1>5, <1>6, <1>7, <1>8, <1>9, <1>10, ProcParts DEF ProcInv

\* The output of the command is read to its end.
LEMMA ReadToEndStep == ASSUME ProcInv, Proc!ReadToEnd PROVE ProcInv'
<1>1. job \in {"popen", "pipe_popen"} /\ job \in Lists /\ main.how = "runs" /\ stream = "open"
  BY DEF Proc!ReadToEnd, Proc!Running, Lists
<1>2. /\ job' = job /\ number' = number /\ results' = results /\ forked' = forked /\ sockets' = sockets
      /\ main' = main /\ stream' = "at end"
  BY DEF Proc!ReadToEnd
<1>3. ListLength' = ListLength
  BY <1>2 DEF ListLength
<1>4. Proc!TypeOK'
  BY <1>2, ProcParts, ProcNumbers DEF Proc!TypeOK
<1>5. ListGoesOn'
  BY <1>1, <1>2, <1>3, ProcParts DEF ListGoesOn
<1>6. OthersReportOnce' /\ SocketsOpen'
  BY <1>1, <1>2, ProcParts DEF OthersReportOnce, SocketsOpen, Lists
<1>7. Proc!FailuresStopTheList' /\ Proc!SystemRunsAll'
  <2>1. \A i \in DOMAIN results : results[i] \in Fine
    BY <1>1, ProcParts DEF ListGoesOn
  <2>. QED
    BY <1>1, <1>2, <2>1 DEF Proc!FailuresStopTheList, Proc!SystemRunsAll, Fine
<1>. QED
  BY <1>2, <1>4, <1>5, <1>6, <1>7, ProcParts, ProcNumbers DEF ProcInv

\* pclose: the next command, or exit.
LEMMA PcloseStep == ASSUME ProcInv, Proc!Pclose PROVE ProcInv'
<1>1. job \in {"popen", "pipe_popen"} /\ job \in Lists /\ main.how = "runs" /\ stream = "at end"
  BY DEF Proc!Pclose, Proc!Running, Lists
<1>2. /\ job' = job /\ forked' = forked /\ sockets' = sockets /\ stream' = "closed"
  BY DEF Proc!Pclose
<1>3. PICK status \in Proc!Status \cup {Proc!NoStatus} :
        /\ results' = Append(results, status)
        /\ IF Proc!Word(status) = 0 THEN number' = number + 1 /\ main' = main
           ELSE main' = Proc!Exited(Proc!ExitCode(Proc!Word(status))) /\ number' = number
  BY DEF Proc!Pclose, Proc!Report
<1>4. number \in 1 .. 10 /\ Len(results) = number - 1 /\ ListLength' = ListLength /\ ListLength \in 7 .. 10
      /\ number <= ListLength
  <2>1. number <= ListLength
    BY <1>1, ProcParts DEF ListGoesOn
  <2>2. ListLength' = ListLength
    BY <1>2, SameLength
  <2>3. number \in 1 .. 11 /\ ListLength \in 7 .. 10 /\ Len(results) = number - 1
    BY <1>1, ProcNumbers
  <2>. QED
    BY <2>1, <2>2, <2>3
<1>5. status \in Stops
  BY Words
<1>6. results' \in Seq(Stops) /\ Len(results') = number /\ results' # <<>> /\ results'[number] = status
  <2>1. Len(results) + 1 = number
    BY <1>4
  <2>. QED
    BY <1>3, <1>5, <2>1, ReportStep
<1>7. \A i \in DOMAIN results' : i < Len(results') => results'[i] \in Fine
  BY <1>1, <1>3, <1>5, StillFine, ProcParts DEF ListGoesOn
<1>8. CASE Proc!Word(status) = 0
  <2>1. number' = number + 1 /\ main' = main
    BY <1>3, <1>8
  <2>2. status \in Fine
    BY <1>8, Words DEF Fine
  <2>3. \A i \in DOMAIN results' : results'[i] \in Fine
    BY <1>1, <1>3, <1>5, <2>2, StillFine, ProcParts DEF ListGoesOn
  <2>4. Proc!TypeOK'
    <3>1. Len(results') <= 10 /\ number' \in 1 .. 11
      BY <2>1, <1>4, <1>6
    <3>. QED
      BY <1>2, <2>1, <3>1, ProcParts DEF Proc!TypeOK
  <2>5. ListGoesOn'
    <3>1. number' <= ListLength' + 1 /\ Len(results') = number' - 1
      BY <1>4, <1>6, <2>1
    <3>. QED
      BY <1>1, <1>2, <2>1, <2>3, <3>1 DEF ListGoesOn
  <2>6. OthersReportOnce' /\ SocketsOpen'
    BY <1>1, <1>2, ProcParts DEF OthersReportOnce, SocketsOpen, Lists
  <2>7. Proc!FailuresStopTheList' /\ Proc!SystemRunsAll'
    BY <1>1, <1>2, <2>1, <2>3 DEF Proc!FailuresStopTheList, Proc!SystemRunsAll, Fine
  <2>. QED
    BY <1>2, <1>6, <2>1, <2>4, <2>5, <2>6, <2>7, ProcParts DEF ProcInv
<1>9. CASE Proc!Word(status) # 0
  <2>. DEFINE code == Proc!ExitCode(Proc!Word(status))
  <2>1. number' = number /\ main' = Proc!Exited(code)
    BY <1>3, <1>9
  <2>2. Proc!ExitTells(status, code) /\ code \in 0 .. 255
    BY <1>9, Words
  <2>. HIDE DEF code
  <2>3. /\ main' \in Endings
        /\ main'.how = "exited" /\ main'.with = code
    BY <2>1, <2>2, ExitedRecord
  <2>4. Proc!TypeOK'
    <3>1. Len(results') <= 10 /\ number' \in 1 .. 11
      BY <2>1, <1>4, <1>6
    <3>. QED
      BY <1>2, <2>2, <2>3, <3>1, ProcParts DEF Proc!TypeOK
  <2>5. ListGoesOn'
    <3>1. number' <= ListLength' + 1
      BY <1>4, <2>1
    <3>. QED
      BY <1>1, <1>2, <2>3, <3>1 DEF ListGoesOn
  <2>6. OthersReportOnce' /\ SocketsOpen'
    BY <1>1, <1>2, ProcParts DEF OthersReportOnce, SocketsOpen, Lists
  <2>7. Proc!FailuresStopTheList' /\ Proc!SystemRunsAll'
    BY <1>1, <1>2, <1>6, <1>7, <2>1, <2>2, <2>3 DEF Proc!FailuresStopTheList, Proc!SystemRunsAll, Fine
  <2>. QED
    BY <1>2, <1>6, <2>3, <2>4, <2>5, <2>6, <2>7, ProcParts DEF ProcInv
<1>. QED
  BY <1>8, <1>9

\* A list has been run to its end.
LEMMA DoneStep == ASSUME ProcInv, Proc!Done PROVE ProcInv'
<1>1. job \in Lists /\ main.how = "runs" /\ ~(number <= ListLength)
  BY DEF Proc!Done, Proc!Running, Proc!More, Lists, ListLength
<1>2. /\ job' = job /\ number' = number /\ results' = results /\ forked' = forked /\ sockets' = sockets
      /\ main' = Proc!Exited(0) /\ stream' = stream
  BY DEF Proc!Done
<1>3. /\ main' \in Endings
      /\ main'.how = "exited" /\ main'.with = 0 /\ main'.with \in 0 .. 255
  BY <1>2, ExitedRecord
<1>4. ListLength' = ListLength /\ Len(results) = number - 1 /\ number <= ListLength + 1
      /\ ListLength \in 7 .. 10 /\ number \in 1 .. 11 /\ (job = "system" => ListLength = 7)
  BY <1>1, <1>2, SameLength, ProcNumbers
<1>5. number = ListLength + 1
  BY <1>1, <1>4
<1>6. Proc!TypeOK'
  BY <1>2, <1>3, ProcParts, ProcNumbers DEF Proc!TypeOK
<1>7. stream = "closed"
  BY <1>1, ProcParts DEF ListGoesOn
<1>8. ListGoesOn'
  <2>1. number' <= ListLength' + 1
    BY <1>2, <1>4
  <2>. QED
    BY <1>1, <1>2, <1>3, <1>7, <2>1 DEF ListGoesOn
<1>9. OthersReportOnce' /\ SocketsOpen'
  BY <1>1, <1>2, <1>7, ProcParts DEF OthersReportOnce, SocketsOpen, Lists
<1>10. Proc!FailuresStopTheList'
  <2>1. ~Proc!More'
    BY <1>1, <1>2, <1>4, <1>5 DEF Proc!More, ListLength
  <2>2. job # "system" => \A i \in DOMAIN results : results[i] \in Fine
    BY <1>1, ProcParts DEF ListGoesOn
  <2>. QED
    BY <1>1, <1>2, <2>1, <2>2 DEF Proc!FailuresStopTheList, Fine
<1>11. Proc!SystemRunsAll'
  <2>1. job = "system" => Len(results) = 7
    BY <1>4, <1>5
  <2>. QED
    BY <1>2, <2>1, ListLengths DEF Proc!SystemRunsAll
<1>. QED
  BY <1>2, <1>3, <1>6, <1>8, <1>9, <1>10, <1>11, ProcParts, ProcNumbers DEF ProcInv

-----------------------------------------------------------------------------

\* The programs without a list that report once and end.
LEMMA OnceStep ==
    ASSUME ProcInv, job \notin Lists, job # "service_fork", main.how = "runs",
           job' = job, number' = number, stream' = stream, forked' = forked, sockets' = sockets,
           NEW x \in Stops, results' = Append(results, x),
           NEW end \in Finals, main' = end
    PROVE  ProcInv'
<1>1. Len(results) = 0 /\ stream = "closed"
  BY ProcParts DEF OthersReportOnce, Lists
<1>2. results' \in Seq(Stops) /\ Len(results') = 1 /\ results' # <<>>
  BY <1>1, ReportStep
<1>3. /\ main' \in Endings
      /\ main'.how \in {"exited", "signaled", "dumped"} /\ main'.with \in 0 .. 255
  BY DEF Endings, Finals
<1>4. Proc!TypeOK'
  <2>1. Len(results') <= 10
    BY <1>2
  <2>. QED
    BY <1>3, <2>1, ProcParts, ProcNumbers DEF Proc!TypeOK
<1>5. ListGoesOn' /\ SocketsOpen' /\ OthersReportOnce'
  BY <1>1, <1>2, <1>3 DEF ListGoesOn, SocketsOpen, OthersReportOnce, Lists
<1>6. Proc!FailuresStopTheList' /\ Proc!SystemRunsAll'
  BY DEF Proc!FailuresStopTheList, Proc!SystemRunsAll, Lists
<1>. QED
  BY <1>2, <1>3, <1>4, <1>5, <1>6, ProcParts DEF ProcInv


\* unix_process_system, and its err_quit.
LEMMA UnixSystemStep == ASSUME ProcInv, Proc!UnixSystem PROVE ProcInv'
<1>1. job = "unix_system" /\ main.how = "runs"
      /\ job' = job /\ number' = number /\ stream' = stream /\ forked' = forked /\ sockets' = sockets
  BY DEF Proc!UnixSystem, Proc!Running
<1>2. PICK x \in Stops : results' = Append(results, x)
  BY StatusStops, OutcomeStops DEF Proc!UnixSystem, Proc!Report
<1>3. PICK end \in Finals : main' = end
  BY DEF Proc!UnixSystem, Proc!Exited, Proc!Outcome, Finals
<1>4. job \notin Lists /\ job # "service_fork"
  BY <1>1 DEF Lists
<1>. QED
  BY <1>1, <1>2, <1>3, <1>4, OnceStep

\* process_exec: the new program, or the line after execlp.
LEMMA ExecStep == ASSUME ProcInv, Proc!process_exec PROVE ProcInv'
<1>1. job = "exec" /\ main.how = "runs"
      /\ job' = job /\ number' = number /\ stream' = stream /\ forked' = forked /\ sockets' = sockets
  BY DEF Proc!process_exec, Proc!Running
<1>2. PICK x \in Stops : results' = Append(results, x)
  BY OutcomeStops DEF Proc!process_exec, Proc!Report
<1>3. PICK end \in Finals : main' = end
  <2>1. CASE main' = Proc!Exited(0)
    BY <2>1 DEF Proc!Exited, Proc!Outcome, Finals
  <2>2. CASE \E status \in Proc!Status : main' = status
    <3>1. PICK status \in Proc!Status : main' = status
      BY <2>2
    <3>2. status \in Finals
      BY StatusStops
    <3>. QED
      BY <3>1, <3>2
  <2>. QED
    BY <2>1, <2>2 DEF Proc!process_exec
<1>4. job \notin Lists /\ job # "service_fork"
  BY <1>1 DEF Lists
<1>. QED
  BY <1>1, <1>2, <1>3, <1>4, OnceStep

\* process_fork: both return.
LEMMA ProcessForkStep == ASSUME ProcInv, Proc!process_fork PROVE ProcInv'
<1>1. job = "fork" /\ main.how = "runs"
      /\ job' = job /\ number' = number /\ stream' = stream /\ results' = results /\ sockets' = sockets
  BY DEF Proc!process_fork, Proc!Running
<1>2. forked' \in {"none", "failed", "returns", "has listen", "has accept", "exited"}
  BY ProcParts DEF Proc!process_fork
<1>3. main' = main \/ main' = Proc!Exited(0)
  BY DEF Proc!process_fork
<1>4. /\ main' \in Endings
      /\ main'.how \in {"runs", "exited", "signaled", "dumped"} /\ main'.with \in 0 .. 255
  <2>1. 0 \in 0 .. 255
    OBVIOUS
  <2>2. /\ Proc!Exited(0) \in Endings
        /\ Proc!Exited(0).how = "exited" /\ Proc!Exited(0).with = 0
    BY <2>1, ExitedRecord
  <2>. QED
    BY <1>3, <2>1, <2>2, ProcParts
<1>5. Proc!TypeOK'
  BY <1>1, <1>2, <1>4, ProcParts, ProcNumbers DEF Proc!TypeOK
<1>6. results = <<>>
  <2>1. Len(results) = 0
    BY <1>1, ProcParts DEF OthersReportOnce, Lists
  <2>. QED
    BY <2>1, ProcNumbers, EmptySeq
<1>7. ListGoesOn' /\ SocketsOpen' /\ OthersReportOnce'
  BY <1>1, <1>6, ProcParts DEF ListGoesOn, SocketsOpen, OthersReportOnce, Lists
<1>8. Proc!FailuresStopTheList' /\ Proc!SystemRunsAll'
  BY <1>1 DEF Proc!FailuresStopTheList, Proc!SystemRunsAll
<1>. QED
  BY <1>1, <1>4, <1>5, <1>7, <1>8, ProcParts, ProcNumbers DEF ProcInv

\* The server's sockets: who closes which.
LEMMA ServiceForkStep == ASSUME ProcInv, Proc!service_fork PROVE ProcInv'
<1>1. job = "service_fork" /\ main.how = "runs" /\ main' = main
      /\ job' = job /\ number' = number /\ stream' = stream /\ results' = results
  BY DEF Proc!service_fork, Proc!Running
<1>2. SocketsOpen
  BY ProcParts
<1>3. /\ sockets' = [listen |-> sockets'.listen, accept |-> sockets'.accept]
      /\ forked' \in {"none", "failed", "returns", "has listen", "has accept", "exited"}
      /\ sockets'.listen \subseteq {"parent", "child"} /\ sockets'.accept \subseteq {"parent", "child"}
      /\ SocketsOpen'
  <2>1. CASE forked = "none" /\ forked' = "failed" /\ UNCHANGED sockets
    BY <1>1, <1>2, <2>1, ProcParts DEF SocketsOpen
  <2>2. CASE forked = "none" /\ forked' = "has listen"
             /\ sockets' = [s \in {"listen", "accept"} |-> sockets[s] \cup {"child"}]
    <3>1. /\ sockets' = [listen |-> sockets'.listen, accept |-> sockets'.accept]
          /\ sockets'.listen = sockets.listen \cup {"child"} /\ sockets'.accept = sockets.accept \cup {"child"}
      BY <2>2, ProcParts
    <3>. QED
      BY <1>1, <1>2, <2>2, <3>1, ProcParts DEF SocketsOpen
  <2>3. CASE /\ forked \notin {"none", "failed"} /\ "parent" \in sockets.accept
             /\ sockets' = [sockets EXCEPT !.accept = @ \ {"parent"}] /\ UNCHANGED forked
    <3>1. /\ sockets' = [listen |-> sockets'.listen, accept |-> sockets'.accept]
          /\ sockets'.listen = sockets.listen /\ sockets'.accept = sockets.accept \ {"parent"}
      BY <2>3, ProcParts
    <3>. QED
      BY <1>1, <1>2, <2>3, <3>1, ProcParts DEF SocketsOpen
  <2>4. CASE /\ forked = "has listen" /\ forked' = "has accept"
             /\ sockets' = [sockets EXCEPT !.listen = @ \ {"child"}]
    <3>1. /\ sockets' = [listen |-> sockets'.listen, accept |-> sockets'.accept]
          /\ sockets'.listen = sockets.listen \ {"child"} /\ sockets'.accept = sockets.accept
      BY <2>4, ProcParts
    <3>. QED
      BY <1>1, <1>2, <2>4, <3>1, ProcParts DEF SocketsOpen
  <2>5. CASE /\ forked = "has accept" /\ forked' = "exited"
             /\ sockets' = [sockets EXCEPT !.accept = @ \ {"child"}]
    <3>1. /\ sockets' = [listen |-> sockets'.listen, accept |-> sockets'.accept]
          /\ sockets'.listen = sockets.listen /\ sockets'.accept = sockets.accept \ {"child"}
      BY <2>5, ProcParts
    <3>. QED
      BY <1>1, <1>2, <2>5, <3>1, ProcParts DEF SocketsOpen
  <2>. QED
    BY <2>1, <2>2, <2>3, <2>4, <2>5 DEF Proc!service_fork
<1>4. Proc!TypeOK'
  BY <1>1, <1>3, ProcParts, ProcNumbers DEF Proc!TypeOK
<1>5. ListGoesOn' /\ OthersReportOnce'
  BY <1>1, ProcParts DEF ListGoesOn, OthersReportOnce, Lists
<1>6. Proc!FailuresStopTheList' /\ Proc!SystemRunsAll'
  BY <1>1 DEF Proc!FailuresStopTheList, Proc!SystemRunsAll
<1>. QED
  BY <1>1, <1>3, <1>4, <1>5, <1>6, ProcParts, ProcNumbers DEF ProcInv

\* Every step of these programs preserves ProcInv.
LEMMA ProcNext == ASSUME ProcInv, Proc!Next PROVE ProcInv'
BY SkipStep, SystemStep, UnixSystemStep, PopenStep, ReadToEndStep, PcloseStep, DoneStep, ProcessForkStep,
   ExecStep, ServiceForkStep DEF Proc!Next

\* A step of another kind of program leaves ProcInv alone.
LEMMA ProcUnchanged == ASSUME ProcInv, UNCHANGED procVars PROVE ProcInv'
<1>1. /\ job' = job /\ number' = number /\ main' = main /\ stream' = stream /\ results' = results
      /\ forked' = forked /\ sockets' = sockets
  BY DEF procVars
<1>2. ListLength' = ListLength
  BY <1>1, SameLength
<1>3. Proc!TypeOK' /\ ListGoesOn' /\ OthersReportOnce' /\ SocketsOpen'
  BY ZenonT(30), <1>1, <1>2, ProcParts, ProcNumbers DEF Proc!TypeOK, ListGoesOn, OthersReportOnce, SocketsOpen
<1>4. Proc!FailuresStopTheList' /\ Proc!SystemRunsAll'
  BY <1>1, ProcParts DEF Proc!FailuresStopTheList, Proc!SystemRunsAll, Proc!More
<1>. QED
  BY <1>1, <1>3, <1>4, ProcParts, ProcNumbers DEF ProcInv

\* A program about to start, and one that is not run.
LEMMA ProcInit == ASSUME Proc!Init \/ Proc!NotRun PROVE ProcInv
<1>1. /\ job \in Proc!Jobs /\ number = 1 /\ stream = "closed" /\ results = <<>> /\ forked = "none"
      /\ main = Proc!Runs \/ (main = Proc!Exited(0) /\ job = "system")
  BY DEF Proc!Init, Proc!NotRun, Proc!Quiet, Proc!Jobs
<1>2. sockets = [listen |-> IF job = "service_fork" THEN {"parent"} ELSE {},
                 accept |-> IF job = "service_fork" THEN {"parent"} ELSE {}]
  BY DEF Proc!Init, Proc!NotRun
<1>3. /\ sockets = [listen |-> sockets.listen, accept |-> sockets.accept]
      /\ sockets.listen = (IF job = "service_fork" THEN {"parent"} ELSE {})
      /\ sockets.accept = (IF job = "service_fork" THEN {"parent"} ELSE {})
  BY <1>2
<1>4. /\ main \in Endings
      /\ main.how \in {"runs", "exited"} /\ main.with = 0 /\ main.with \in 0 .. 255
      /\ main.how = "exited" => job = "system"
  BY <1>1 DEF Proc!Runs, Proc!Exited, Proc!Outcome, Endings
<1>5. results \in Seq(Stops) /\ Len(results) = 0 /\ DOMAIN results = {}
  BY <1>1, EmptySeq
<1>6. Proc!TypeOK
  <2>1. Len(results) <= 10
    BY <1>5
  <2>. QED
    BY <1>1, <1>3, <1>4, <2>1 DEF Proc!TypeOK
<1>7. ListGoesOn
  <2>1. job \in Lists => ListLength \in 7 .. 10
    BY ListLengths DEF Lists, ListLength
  <2>2. job \in Lists => number <= ListLength + 1
    BY <1>1, <2>1
  <2>3. Len(results) = number - 1
    BY <1>1, <1>5
  <2>. QED
    BY <1>1, <1>5, <2>2, <2>3 DEF ListGoesOn
<1>8. OthersReportOnce /\ SocketsOpen
  BY <1>1, <1>3, <1>4, <1>5 DEF OthersReportOnce, SocketsOpen, Lists
<1>9. Proc!FailuresStopTheList /\ Proc!SystemRunsAll
  BY <1>1, <1>5 DEF Proc!FailuresStopTheList, Proc!SystemRunsAll
<1>. QED
  BY <1>3, <1>4, <1>5, <1>6, <1>7, <1>8, <1>9 DEF ProcInv

\* popen's list stops at the first failure, system's does not, and the server
\* and its child close their sockets.
LEMMA ProcStops == ASSUME ProcInv PROVE Proc!FailuresStopTheList /\ Proc!SystemRunsAll /\ Proc!ConnectionClosed
BY ProcParts DEF SocketsOpen, Proc!ConnectionClosed

-----------------------------------------------------------------------------
(* Signals (Signals).                                                      *)

SigNames == {"kill", "sigaction", "shield", "signal", "realtime", "none"}
ReceiverOf(name) == IF name = "realtime" THEN "child" ELSE "parent"
SigSteps == {Signal!Fork, Signal!Sleep, Signal!Waitpid}
              \cup {Signal!Queue(s, n) : s \in Signal!AllSignals, n \in Nat}

\* Only the receiver handles and blocks; only a parent forks, as its first
\* step; queueing is done by the parent of the realtime program, killing by
\* that of process_kill; two programs have loops.
SigRule(name, p, k, step) ==
  /\ step.op \in {"handle", "block", "unblock"} => p = ReceiverOf(name) /\ step.on \subseteq Signal!AllSignals
  /\ step.op = "fork" => name \in {"kill", "realtime"} /\ p = "parent" /\ k = 1
  /\ step.op = "queue" =>
       name = "realtime" /\ p = "parent" /\ step.n \in 1 .. Queued /\ step.on \subseteq Signal!AllSignals
  /\ step.op = "kill" => name = "kill" /\ p = "parent" /\ k = 3
  /\ step.op = "wait_no_hang" => name = "kill" /\ p = "parent" /\ k = 2 /\ step.n = 2
  /\ step.op = "in_read" => name = "sigaction" /\ p = "parent" /\ k = 5
  /\ step.op = "while" =>
       p = "parent" /\ ((name = "sigaction" /\ k = 3 /\ step.n = 4) \/ (name = "signal" /\ k = 2 /\ step.n = 3))
  /\ step.op = "jump" =>
       p = "parent" /\ ((name = "sigaction" /\ k = 6 /\ step.n = -3) \/ (name = "signal" /\ k = 4 /\ step.n = -2))
  /\ name = "realtime" /\ p = "child" =>
       /\ k = 1 => step.op = "block" /\ step.on = Signal!Realtime
       /\ step.op = "unblock" => k = 7
       /\ step.op = "block" => k = 1
  /\ name = "sigaction" /\ k = 3 /\ p = "parent" => step.op = "while"
  /\ name \in {"kill", "realtime"} /\ p = "parent" /\ k = 1 => step.op = "fork"

SigLengths(name, p, n) ==
  /\ n \in Nat
  /\ p = "parent" =>
       /\ name = "kill" => n = 3
       /\ name = "sigaction" => n = 6
       /\ name = "signal" => n = 4
       /\ name = "realtime" => n >= 1
  /\ p = "child" /\ name = "realtime" => n = 7

\* A first step that is a fork, and no other, also of a longer script.
Onwards(step) == /\ step.op \in {"sleep", "queue", "wait"}
                 /\ step.op = "queue" => step.n \in 1 .. Queued /\ step.on \subseteq Signal!AllSignals
ForkFirst(S) == /\ S \in Seq(SigSteps) /\ Len(S) >= 1 /\ S[1].op = "fork"
                /\ \A k \in 2 .. Len(S) : Onwards(S[k])
NoFork(S) == S \in Seq(SigSteps) /\ \A k \in 1 .. Len(S) : Onwards(S[k])

\* A script of this kind goes on with steps of this kind.
LEMMA ForkThenMore == ASSUME NEW S, NEW R, ForkFirst(S), NoFork(R) PROVE ForkFirst(S \o R)
<1>1. PICK m \in Nat, n \in Nat : m = Len(S) /\ n = Len(R) /\ m >= 1
  BY DEF ForkFirst, NoFork
<1>2. S \o R \in Seq(SigSteps) /\ Len(S \o R) = m + n
      /\ \A k \in 1 .. m + n : (S \o R)[k] = IF k <= m THEN S[k] ELSE R[k - m]
  BY <1>1, ConcatProperties DEF ForkFirst, NoFork
<1>3. (S \o R)[1].op = "fork"
  <2>1. 1 \in 1 .. m + n /\ 1 <= m
    BY <1>1
  <2>. QED
    BY <1>2, <2>1 DEF ForkFirst
<1>4. ASSUME NEW k \in 2 .. m + n PROVE Onwards((S \o R)[k])
  <2>1. CASE k <= m
    <3>1. k \in 2 .. m /\ k \in 1 .. m + n
      BY <1>1, <2>1
    <3>2. (S \o R)[k] = S[k]
      BY <1>2, <2>1, <3>1
    <3>. QED
      BY <1>1, <3>1, <3>2 DEF ForkFirst
  <2>2. CASE ~(k <= m)
    <3>1. k - m \in 1 .. n /\ k \in 1 .. m + n
      BY <1>1, <2>2
    <3>2. (S \o R)[k] = R[k - m]
      BY <1>2, <2>2, <3>1
    <3>. QED
      BY <1>1, <3>1, <3>2 DEF NoFork
  <2>. QED
    BY <2>1, <2>2
<1>5. Len(S \o R) >= 1
  BY <1>1, <1>2
<1>. QED
  BY <1>1, <1>2, <1>3, <1>4, <1>5 DEF ForkFirst

\* What QueueAll makes.
LEMMA QueueAllNoFork == ASSUME NEW s \in Signal!AllSignals PROVE NoFork(Signal!QueueAll(s))
<1>1. Queued \in Nat
  BY SignalsAssumption
<1>2. \A n \in 1 .. Queued : Signal!Queue(s, n) \in SigSteps /\ Onwards(Signal!Queue(s, n))
  <2>1. TAKE n \in 1 .. Queued
  <2>2. n \in Nat
    BY <1>1
  <2>3. Signal!Queue(s, n).op = "queue" /\ Signal!Queue(s, n).n = n /\ Signal!Queue(s, n).on = {s}
    BY DEF Signal!Queue, Signal!Step
  <2>. QED
    BY <2>2, <2>3 DEF SigSteps, Onwards
<1>3. Signal!QueueAll(s) \in Seq(SigSteps) /\ Len(Signal!QueueAll(s)) = Queued
      /\ \A k \in 1 .. Queued : Signal!QueueAll(s)[k] = Signal!Queue(s, k)
  BY <1>1, <1>2 DEF Signal!QueueAll
<1>. QED
  BY <1>2, <1>3 DEF NoFork

\* The script of the realtime program's parent, for any number of values.
LEMMA RealtimeParent == ForkFirst(Signal!test01_signal_rt.parent)
<1>1. /\ Signal!Fork \in SigSteps /\ Signal!Fork.op = "fork"
      /\ Signal!Sleep \in SigSteps /\ Onwards(Signal!Sleep)
      /\ Signal!Waitpid \in SigSteps /\ Onwards(Signal!Waitpid)
  <2>1. Signal!Fork.op = "fork" /\ Signal!Sleep.op = "sleep" /\ Signal!Waitpid.op = "wait"
    BY DEF Signal!Fork, Signal!Sleep, Signal!Waitpid, Signal!Step
  <2>. QED
    BY <2>1 DEF SigSteps, Onwards
<1>2. ForkFirst(<<Signal!Fork, Signal!Sleep>>) /\ NoFork(<<Signal!Waitpid>>)
  BY <1>1 DEF ForkFirst, NoFork
<1>3. \A s \in {"SIGRTMAX", "SIGRTMAX-1", "SIGRTMAX-2", "SIGTERM"} : NoFork(Signal!QueueAll(s))
  BY QueueAllNoFork DEF Signal!AllSignals, Signal!Realtime, Signal!Standard
<1>4. ForkFirst(<<Signal!Fork, Signal!Sleep>> \o Signal!QueueAll("SIGRTMAX"))
  BY <1>2, <1>3, ForkThenMore
<1>5. ForkFirst(<<Signal!Fork, Signal!Sleep>> \o Signal!QueueAll("SIGRTMAX") \o Signal!QueueAll("SIGRTMAX-1"))
  BY <1>3, <1>4, ForkThenMore
<1>6. ForkFirst(<<Signal!Fork, Signal!Sleep>> \o Signal!QueueAll("SIGRTMAX") \o Signal!QueueAll("SIGRTMAX-1")
                \o Signal!QueueAll("SIGRTMAX-2"))
  BY <1>3, <1>5, ForkThenMore
<1>7. ForkFirst(<<Signal!Fork, Signal!Sleep>> \o Signal!QueueAll("SIGRTMAX") \o Signal!QueueAll("SIGRTMAX-1")
                \o Signal!QueueAll("SIGRTMAX-2") \o Signal!QueueAll("SIGTERM"))
  BY <1>3, <1>6, ForkThenMore
<1>. QED
  BY <1>2, <1>7, ForkThenMore DEF Signal!test01_signal_rt

\* Every script of process_signal/ is made as SigRule says.
SigMade(name, p, S) ==
  /\ SigLengths(name, p, Len(S))
  /\ \A k \in 1 .. Len(S) : SigRule(name, p, k, S[k])

\* The scripts, one by one.
LEMMA Made_kill_parent == ASSUME NEW S, S = Signal!process_kill.parent PROVE SigMade("kill", "parent", S)
<1>1. S = <<Signal!Fork, Signal!WaitNoHang(2), Signal!Kill>>
  BY DEF Signal!process_kill
<1>2. Len(S) = 3 /\ S[1] = Signal!Fork /\ S[2] = Signal!WaitNoHang(2) /\ S[3] = Signal!Kill
  BY <1>1
<1>3. SigRule("kill", "parent", 1, S[1])
  <2>1. S[1].op = "fork"
    BY <1>2 DEF Signal!Fork, Signal!Step
  <2>. QED
    BY <2>1 DEF SigRule, ReceiverOf
<1>4. SigRule("kill", "parent", 2, S[2])
  <2>1. S[2].op = "wait_no_hang" /\ S[2].n = 2
    BY <1>2 DEF Signal!WaitNoHang, Signal!Step
  <2>. QED
    BY <2>1 DEF SigRule, ReceiverOf
<1>5. SigRule("kill", "parent", 3, S[3])
  <2>1. S[3].op = "kill"
    BY <1>2 DEF Signal!Kill, Signal!Step
  <2>. QED
    BY <2>1 DEF SigRule, ReceiverOf
<1>6. \A k \in 1 .. Len(S) : k = 1 \/ k = 2 \/ k = 3
  BY <1>2
<1>. QED
  BY <1>2, <1>6, <1>3, <1>4, <1>5 DEF SigMade, SigLengths

\* process_kill's child only sleeps.
LEMMA Made_kill_child == ASSUME NEW S, S = Signal!process_kill.child PROVE SigMade("kill", "child", S)
<1>1. S = <<Signal!Sleep>>
  BY DEF Signal!process_kill
<1>2. Len(S) = 1 /\ S[1] = Signal!Sleep
  BY <1>1
<1>3. SigRule("kill", "child", 1, S[1])
  <2>1. S[1].op = "sleep"
    BY <1>2 DEF Signal!Sleep, Signal!Step
  <2>. QED
    BY <2>1 DEF SigRule, ReceiverOf
<1>4. \A k \in 1 .. Len(S) : k = 1
  BY <1>2
<1>. QED
  BY <1>2, <1>4, <1>3 DEF SigMade, SigLengths

\* The loop of process_sigaction.
LEMMA Made_sigaction_parent == ASSUME NEW S, S = Signal!process_sigaction.parent PROVE SigMade("sigaction", "parent", S)
<1>1. S = <<Signal!Handle("SIGUSR1"), Signal!Handle("SIGUSR2"), Signal!WhileRunning(4), Signal!CallRead, Signal!InRead, Signal!Jump(-3)>>
  BY DEF Signal!process_sigaction
<1>2. Len(S) = 6 /\ S[1] = Signal!Handle("SIGUSR1") /\ S[2] = Signal!Handle("SIGUSR2") /\ S[3] = Signal!WhileRunning(4) /\ S[4] = Signal!CallRead /\ S[5] = Signal!InRead /\ S[6] = Signal!Jump(-3)
  BY <1>1
<1>3. SigRule("sigaction", "parent", 1, S[1])
  <2>1. S[1].op = "handle" /\ S[1].on = {"SIGUSR1"}
    BY <1>2 DEF Signal!Handle, Signal!Step
  <2>. QED
    BY <2>1 DEF SigRule, ReceiverOf, Signal!AllSignals, Signal!Realtime, Signal!Standard
<1>4. SigRule("sigaction", "parent", 2, S[2])
  <2>1. S[2].op = "handle" /\ S[2].on = {"SIGUSR2"}
    BY <1>2 DEF Signal!Handle, Signal!Step
  <2>. QED
    BY <2>1 DEF SigRule, ReceiverOf, Signal!AllSignals, Signal!Realtime, Signal!Standard
<1>5. SigRule("sigaction", "parent", 3, S[3])
  <2>1. S[3].op = "while" /\ S[3].n = 4
    BY <1>2 DEF Signal!WhileRunning, Signal!Step
  <2>. QED
    BY <2>1 DEF SigRule, ReceiverOf
<1>6. SigRule("sigaction", "parent", 4, S[4])
  <2>1. S[4].op = "call_read"
    BY <1>2 DEF Signal!CallRead, Signal!Step
  <2>. QED
    BY <2>1 DEF SigRule, ReceiverOf
<1>7. SigRule("sigaction", "parent", 5, S[5])
  <2>1. S[5].op = "in_read"
    BY <1>2 DEF Signal!InRead, Signal!Step
  <2>. QED
    BY <2>1 DEF SigRule, ReceiverOf
<1>8. SigRule("sigaction", "parent", 6, S[6])
  <2>1. S[6].op = "jump" /\ S[6].n = -3
    BY <1>2 DEF Signal!Jump, Signal!Step
  <2>. QED
    BY <2>1 DEF SigRule, ReceiverOf
<1>9. \A k \in 1 .. Len(S) : k = 1 \/ k = 2 \/ k = 3 \/ k = 4 \/ k = 5 \/ k = 6
  BY <1>2
<1>. QED
  BY <1>2, <1>9, <1>3, <1>4, <1>5, <1>6, <1>7, <1>8 DEF SigMade, SigLengths

\* process_shield.
LEMMA Made_shield_parent == ASSUME NEW S, S = Signal!process_shield.parent PROVE SigMade("shield", "parent", S)
<1>1. S = <<Signal!Handle("SIGINT"), Signal!Block({"SIGINT"}), Signal!Sleep, Signal!Unblock({"SIGINT"})>>
  BY DEF Signal!process_shield
<1>2. Len(S) = 4 /\ S[1] = Signal!Handle("SIGINT") /\ S[2] = Signal!Block({"SIGINT"}) /\ S[3] = Signal!Sleep /\ S[4] = Signal!Unblock({"SIGINT"})
  BY <1>1
<1>3. SigRule("shield", "parent", 1, S[1])
  <2>1. S[1].op = "handle" /\ S[1].on = {"SIGINT"}
    BY <1>2 DEF Signal!Handle, Signal!Step
  <2>. QED
    BY <2>1 DEF SigRule, ReceiverOf, Signal!AllSignals, Signal!Realtime, Signal!Standard
<1>4. SigRule("shield", "parent", 2, S[2])
  <2>1. S[2].op = "block" /\ S[2].on = {"SIGINT"}
    BY <1>2 DEF Signal!Block, Signal!Step
  <2>. QED
    BY <2>1 DEF SigRule, ReceiverOf, Signal!AllSignals, Signal!Realtime, Signal!Standard
<1>5. SigRule("shield", "parent", 3, S[3])
  <2>1. S[3].op = "sleep"
    BY <1>2 DEF Signal!Sleep, Signal!Step
  <2>. QED
    BY <2>1 DEF SigRule, ReceiverOf
<1>6. SigRule("shield", "parent", 4, S[4])
  <2>1. S[4].op = "unblock" /\ S[4].on = {"SIGINT"}
    BY <1>2 DEF Signal!Unblock, Signal!Step
  <2>. QED
    BY <2>1 DEF SigRule, ReceiverOf, Signal!AllSignals, Signal!Realtime, Signal!Standard
<1>7. \A k \in 1 .. Len(S) : k = 1 \/ k = 2 \/ k = 3 \/ k = 4
  BY <1>2
<1>. QED
  BY <1>2, <1>7, <1>3, <1>4, <1>5, <1>6 DEF SigMade, SigLengths

\* The loop of process_signal.
LEMMA Made_signal_parent == ASSUME NEW S, S = Signal!process_signal.parent PROVE SigMade("signal", "parent", S)
<1>1. S = <<Signal!Handle("SIGINT"), Signal!WhileRunning(3), Signal!Sleep, Signal!Jump(-2)>>
  BY DEF Signal!process_signal
<1>2. Len(S) = 4 /\ S[1] = Signal!Handle("SIGINT") /\ S[2] = Signal!WhileRunning(3) /\ S[3] = Signal!Sleep /\ S[4] = Signal!Jump(-2)
  BY <1>1
<1>3. SigRule("signal", "parent", 1, S[1])
  <2>1. S[1].op = "handle" /\ S[1].on = {"SIGINT"}
    BY <1>2 DEF Signal!Handle, Signal!Step
  <2>. QED
    BY <2>1 DEF SigRule, ReceiverOf, Signal!AllSignals, Signal!Realtime, Signal!Standard
<1>4. SigRule("signal", "parent", 2, S[2])
  <2>1. S[2].op = "while" /\ S[2].n = 3
    BY <1>2 DEF Signal!WhileRunning, Signal!Step
  <2>. QED
    BY <2>1 DEF SigRule, ReceiverOf
<1>5. SigRule("signal", "parent", 3, S[3])
  <2>1. S[3].op = "sleep"
    BY <1>2 DEF Signal!Sleep, Signal!Step
  <2>. QED
    BY <2>1 DEF SigRule, ReceiverOf
<1>6. SigRule("signal", "parent", 4, S[4])
  <2>1. S[4].op = "jump" /\ S[4].n = -2
    BY <1>2 DEF Signal!Jump, Signal!Step
  <2>. QED
    BY <2>1 DEF SigRule, ReceiverOf
<1>7. \A k \in 1 .. Len(S) : k = 1 \/ k = 2 \/ k = 3 \/ k = 4
  BY <1>2
<1>. QED
  BY <1>2, <1>7, <1>3, <1>4, <1>5, <1>6 DEF SigMade, SigLengths

\* The blocked section of the realtime child.
LEMMA Made_realtime_child == ASSUME NEW S, S = Signal!test01_signal_rt.child PROVE SigMade("realtime", "child", S)
<1>1. S = <<Signal!Block(Signal!Realtime), Signal!Handle("SIGRTMAX"), Signal!Handle("SIGRTMAX-1"), Signal!Handle("SIGRTMAX-2"), Signal!Handle("SIGTERM"), Signal!Sleep, Signal!Unblock(Signal!Realtime)>>
  BY DEF Signal!test01_signal_rt
<1>2. Len(S) = 7 /\ S[1] = Signal!Block(Signal!Realtime) /\ S[2] = Signal!Handle("SIGRTMAX") /\ S[3] = Signal!Handle("SIGRTMAX-1") /\ S[4] = Signal!Handle("SIGRTMAX-2") /\ S[5] = Signal!Handle("SIGTERM") /\ S[6] = Signal!Sleep /\ S[7] = Signal!Unblock(Signal!Realtime)
  BY <1>1
<1>3. SigRule("realtime", "child", 1, S[1])
  <2>1. S[1].op = "block" /\ S[1].on = Signal!Realtime
    BY <1>2 DEF Signal!Block, Signal!Step
  <2>. QED
    BY <2>1 DEF SigRule, ReceiverOf, Signal!AllSignals, Signal!Realtime, Signal!Standard
<1>4. SigRule("realtime", "child", 2, S[2])
  <2>1. S[2].op = "handle" /\ S[2].on = {"SIGRTMAX"}
    BY <1>2 DEF Signal!Handle, Signal!Step
  <2>. QED
    BY <2>1 DEF SigRule, ReceiverOf, Signal!AllSignals, Signal!Realtime, Signal!Standard
<1>5. SigRule("realtime", "child", 3, S[3])
  <2>1. S[3].op = "handle" /\ S[3].on = {"SIGRTMAX-1"}
    BY <1>2 DEF Signal!Handle, Signal!Step
  <2>. QED
    BY <2>1 DEF SigRule, ReceiverOf, Signal!AllSignals, Signal!Realtime, Signal!Standard
<1>6. SigRule("realtime", "child", 4, S[4])
  <2>1. S[4].op = "handle" /\ S[4].on = {"SIGRTMAX-2"}
    BY <1>2 DEF Signal!Handle, Signal!Step
  <2>. QED
    BY <2>1 DEF SigRule, ReceiverOf, Signal!AllSignals, Signal!Realtime, Signal!Standard
<1>7. SigRule("realtime", "child", 5, S[5])
  <2>1. S[5].op = "handle" /\ S[5].on = {"SIGTERM"}
    BY <1>2 DEF Signal!Handle, Signal!Step
  <2>. QED
    BY <2>1 DEF SigRule, ReceiverOf, Signal!AllSignals, Signal!Realtime, Signal!Standard
<1>8. SigRule("realtime", "child", 6, S[6])
  <2>1. S[6].op = "sleep"
    BY <1>2 DEF Signal!Sleep, Signal!Step
  <2>. QED
    BY <2>1 DEF SigRule, ReceiverOf
<1>9. SigRule("realtime", "child", 7, S[7])
  <2>1. S[7].op = "unblock" /\ S[7].on = Signal!Realtime
    BY <1>2 DEF Signal!Unblock, Signal!Step
  <2>. QED
    BY <2>1 DEF SigRule, ReceiverOf, Signal!AllSignals, Signal!Realtime, Signal!Standard
<1>10. \A k \in 1 .. Len(S) : k = 1 \/ k = 2 \/ k = 3 \/ k = 4 \/ k = 5 \/ k = 6 \/ k = 7
  BY <1>2
<1>. QED
  BY <1>2, <1>10, <1>3, <1>4, <1>5, <1>6, <1>7, <1>8, <1>9 DEF SigMade, SigLengths

\* Its parent.
LEMMA Made_realtime_parent ==
    ASSUME NEW S, S = Signal!test01_signal_rt.parent PROVE SigMade("realtime", "parent", S)
<1>1. ForkFirst(S)
  BY RealtimeParent
<1>2. Len(S) \in Nat /\ Len(S) >= 1 /\ S[1].op = "fork" /\ \A k \in 2 .. Len(S) : Onwards(S[k])
  BY <1>1 DEF ForkFirst
<1>3. SigRule("realtime", "parent", 1, S[1])
  BY <1>2 DEF SigRule
<1>4. ASSUME NEW k \in 2 .. Len(S) PROVE SigRule("realtime", "parent", k, S[k])
  <2>1. k # 1
    BY <1>2
  <2>. QED
    BY <1>2, <1>4, <2>1 DEF Onwards, SigRule
<1>5. \A k \in 1 .. Len(S) : k = 1 \/ k \in 2 .. Len(S)
  BY <1>2
<1>. QED
  BY <1>2, <1>3, <1>4, <1>5 DEF SigMade, SigLengths

\* A script that does nothing.
LEMMA MadeEmpty ==
    ASSUME NEW name, NEW p, NEW S, S = <<>>,
           (p = "child" /\ name # "realtime") \/ name \in {"none", "shield"}
    PROVE  SigMade(name, p, S)
<1>1. Len(S) = 0 /\ 1 .. Len(S) = {}
  BY EmptySeq
<1>. QED
  BY <1>1 DEF SigMade, SigLengths

\* The script of a process of the program that runs.
SigScript(p) == Signal!ScriptOf(task)[p]
SigLength(p) == Len(SigScript(p))

\* All scripts together.
LEMMA SigRules ==
    ASSUME NEW name \in SigNames, NEW p \in Signal!Procs PROVE SigMade(name, p, Signal!ScriptOf(name)[p])
<1>1. CASE name = "none"
  <2>1. Signal!ScriptOf(name)[p] = <<>>
    BY <1>1 DEF Signal!ScriptOf
  <2>. QED
    BY <1>1, <2>1, MadeEmpty
<1>2. CASE name = "kill"
  <2>1. Signal!ScriptOf(name)[p] = Signal!process_kill[p]
    BY <1>2 DEF Signal!ScriptOf, Signal!Tasks
  <2>2. Signal!process_kill["parent"] = Signal!process_kill.parent /\ Signal!process_kill["child"] = Signal!process_kill.child
    OBVIOUS
  <2>. QED
    BY <1>2, <2>1, <2>2, Made_kill_parent, Made_kill_child DEF Signal!Procs
<1>3. CASE name = "sigaction"
  <2>1. Signal!ScriptOf(name)[p] = Signal!process_sigaction[p]
    BY <1>3 DEF Signal!ScriptOf, Signal!Tasks
  <2>2. Signal!process_sigaction["parent"] = Signal!process_sigaction.parent /\ Signal!process_sigaction["child"] = <<>>
    BY DEF Signal!process_sigaction
  <2>. QED
    BY <1>3, <2>1, <2>2, Made_sigaction_parent, MadeEmpty DEF Signal!Procs
<1>4. CASE name = "shield"
  <2>1. Signal!ScriptOf(name)[p] = Signal!process_shield[p]
    BY <1>4 DEF Signal!ScriptOf, Signal!Tasks
  <2>2. Signal!process_shield["parent"] = Signal!process_shield.parent /\ Signal!process_shield["child"] = <<>>
    BY DEF Signal!process_shield
  <2>. QED
    BY <1>4, <2>1, <2>2, Made_shield_parent, MadeEmpty DEF Signal!Procs
<1>5. CASE name = "signal"
  <2>1. Signal!ScriptOf(name)[p] = Signal!process_signal[p]
    BY <1>5 DEF Signal!ScriptOf, Signal!Tasks
  <2>2. Signal!process_signal["parent"] = Signal!process_signal.parent /\ Signal!process_signal["child"] = <<>>
    BY DEF Signal!process_signal
  <2>. QED
    BY <1>5, <2>1, <2>2, Made_signal_parent, MadeEmpty DEF Signal!Procs
<1>6. CASE name = "realtime"
  <2>1. Signal!ScriptOf(name)[p] = Signal!test01_signal_rt[p]
    BY <1>6 DEF Signal!ScriptOf, Signal!Tasks
  <2>2. Signal!test01_signal_rt["parent"] = Signal!test01_signal_rt.parent /\ Signal!test01_signal_rt["child"] = Signal!test01_signal_rt.child
    OBVIOUS
  <2>. QED
    BY <1>6, <2>1, <2>2, Made_realtime_parent, Made_realtime_child DEF Signal!Procs
<1>. QED
  BY <1>1, <1>2, <1>3, <1>4, <1>5, <1>6 DEF SigNames

\* The programs have these names.
LEMMA SigTaskNames == Signal!TypeOK => task \in SigNames
BY DEF Signal!TypeOK, Signal!Tasks, SigNames

\* The step a process is at, and where it may go from there.
LEMMA SigHere ==
    ASSUME Signal!TypeOK, NEW p \in Signal!Procs
    PROVE  /\ SigLengths(task, p, SigLength(p)) /\ SigLength(p) \in Nat /\ at[p] \in 1 .. SigLength(p) + 1
           /\ Signal!AtEnd(p) <=> at[p] = SigLength(p) + 1
           /\ ~Signal!AtEnd(p) => at[p] \in 1 .. SigLength(p) /\ SigRule(task, p, at[p], Signal!Here(p))
<1>1. SigMade(task, p, SigScript(p))
  BY SigRules, SigTaskNames DEF SigScript
<1>2. SigLengths(task, p, SigLength(p)) /\ SigLength(p) \in Nat
      /\ \A k \in 1 .. SigLength(p) : SigRule(task, p, k, SigScript(p)[k])
  BY <1>1 DEF SigMade, SigLengths, SigLength
<1>3. at[p] \in 1 .. SigLength(p) + 1
  BY DEF Signal!TypeOK, SigLength, SigScript
<1>4. Signal!AtEnd(p) <=> at[p] > SigLength(p)
  BY DEF Signal!AtEnd, SigLength, SigScript
<1>5. Signal!Here(p) = SigScript(p)[at[p]]
  BY DEF Signal!Here, SigScript
<1>6. at[p] \in Int
  BY <1>2, <1>3
<1>7. at[p] > SigLength(p) <=> at[p] = SigLength(p) + 1
  BY <1>2, <1>3
<1>8. ~(at[p] > SigLength(p)) => at[p] \in 1 .. SigLength(p)
  BY <1>2, <1>3
<1>. QED
  BY <1>2, <1>3, <1>4, <1>5, <1>7, <1>8

\* What was sent of a signal is handled or pending, but for standard ones
\* raised while one was pending; the receiver takes all while it lives.
SigAccount(s) ==
  /\ Len(handled[s]) + Len(pending[s]) <= Len(sent[s])
  /\ life[Signal!Receiver] = "runs" /\ s \in Signal!Realtime => handled[s] \o pending[s] = sent[s]
  /\ sent[s] # <<>> => handled[s] # <<>> \/ pending[s] # <<>> \/ life[Signal!Receiver] = "killed"
  /\ life[Signal!Receiver] = "absent" => handled[s] = <<>> /\ pending[s] = <<>> /\ sent[s] = <<>>

\* The reader of process_sigaction is at most one read past its test of running.
SigReads ==
  /\ ignored <= typed /\ (running => ignored = 0) /\ (task # "sigaction" => ignored = 0)
  /\ ~running => ignored + (IF at["parent"] \in {4, 5} THEN 1 ELSE 0) <= 1

\* What a receiver is before it starts, and how it ends; when a child starts,
\* and when process_kill's is killed.
SigFate ==
  /\ life[Signal!Receiver] = "absent" => caught = {} /\ mask = {} /\ at[Signal!Receiver] = 1
  /\ life[Signal!Receiver] = "killed" =>
       \E s \in Signal!AllSignals \ caught : Len(handled[s]) < Len(sent[s])
  /\ life[Signal!Receiver] = "ended" => Signal!Deliverable = {}
  /\ at["parent"] = 1 => life["child"] = "absent"
  /\ task = "kill" /\ life["child"] = "killed" => at["parent"] > 3

\* The blocked section of the realtime program.
SigShield ==
  task = "realtime" =>
    /\ at["child"] = 1 => caught = {}
    /\ at["child"] \in 2 .. 7 => Signal!Realtime \subseteq mask
    /\ at["child"] <= 7 => \A s \in Signal!Realtime : handled[s] = <<>>

SigInv ==
  /\ Signal!TypeOK /\ at \in [Signal!Procs -> Int]
  /\ \A s \in Signal!AllSignals : SigAccount(s)
  /\ SigReads /\ SigFate /\ SigShield

\* What the types of SigInv say of processes.
LEMMA SigTypes ==
    ASSUME SigInv
    PROVE  /\ Signal!TypeOK /\ task \in SigNames /\ at \in [Signal!Procs -> Int]
           /\ life \in [Signal!Procs -> {"absent", "runs", "ended", "killed", "reaped"}]
           /\ Signal!Receiver \in Signal!Procs /\ Signal!Receiver = ReceiverOf(task)
           /\ Signal!Receiver \in {"parent", "child"}
           /\ \A p \in Signal!Procs : p \in {"parent", "child"} /\ at[p] \in Int
           /\ "parent" \in Signal!Procs /\ "child" \in Signal!Procs
<1>1. Signal!TypeOK /\ at \in [Signal!Procs -> Int]
  BY DEF SigInv
<1>2. task \in SigNames
  BY <1>1, SigTaskNames
<1>3. life \in [Signal!Procs -> {"absent", "runs", "ended", "killed", "reaped"}]
  BY <1>1 DEF Signal!TypeOK
<1>. QED
  BY <1>1, <1>2, <1>3 DEF Signal!Receiver, ReceiverOf, Signal!Procs

\* A process at a step of its script.
LEMMA SigDoes ==
    ASSUME SigInv, NEW p \in Signal!Procs, NEW op, Signal!Does(p, op)
    PROVE  /\ life[p] = "runs" /\ Signal!Here(p).op = op /\ SigRule(task, p, at[p], Signal!Here(p))
           /\ at[p] \in 1 .. SigLength(p) /\ at[p] + 1 \in 1 .. SigLength(p) + 1
           /\ p = Signal!Receiver => Signal!Deliverable = {}
           /\ SigLengths(task, p, SigLength(p))
<1>1. ~Signal!AtEnd(p) /\ Signal!Here(p).op = op /\ Signal!Alive(p)
  BY DEF Signal!Does
<1>2. SigRule(task, p, at[p], Signal!Here(p)) /\ at[p] \in 1 .. SigLength(p) /\ SigLength(p) \in Nat
      /\ SigLengths(task, p, SigLength(p))
  BY <1>1, SigHere, SigTypes
<1>3. at[p] + 1 \in 1 .. SigLength(p) + 1
  BY <1>2
<1>. QED
  BY <1>1, <1>2, <1>3 DEF Signal!Alive

\* A process moves in its script, the other does not.
LEMMA SigMove ==
    ASSUME SigInv, task' = task, NEW p \in Signal!Procs, NEW jump \in Int, Signal!Move(p, jump),
           at[p] + jump \in 1 .. SigLength(p) + 1
    PROVE  /\ at' \in [Signal!Procs -> Int] /\ at'[p] = at[p] + jump
           /\ \A q \in Signal!Procs : q # p => at'[q] = at[q]
           /\ \A q \in Signal!Procs : at'[q] \in 1 .. Len(Signal!ScriptOf(task')[q]) + 1
<1>1. at \in [Signal!Procs -> Int] /\ at' = [at EXCEPT ![p] = at[p] + jump]
  BY SigTypes DEF Signal!Move
<1>2. at' \in [Signal!Procs -> Int] /\ at'[p] = at[p] + jump
      /\ \A q \in Signal!Procs : q # p => at'[q] = at[q]
  BY <1>1
<1>3. \A q \in Signal!Procs : at[q] \in 1 .. Len(Signal!ScriptOf(task)[q]) + 1
  BY SigTypes DEF Signal!TypeOK
<1>4. at[p] + jump \in 1 .. Len(Signal!ScriptOf(task)[p]) + 1
  BY DEF SigLength, SigScript
<1>. QED
  BY <1>2, <1>3, <1>4

\* Nobody moves.
LEMMA SigStand ==
    ASSUME SigInv, task' = task, at' = at
    PROVE  /\ at' \in [Signal!Procs -> Int]
           /\ \A q \in Signal!Procs : at'[q] \in 1 .. Len(Signal!ScriptOf(task')[q]) + 1
BY SigTypes DEF Signal!TypeOK

\* The accounts do not change while the receiver only starts, ends or is reaped.
SigLifeGoes ==
  \/ life'[Signal!Receiver] = life[Signal!Receiver]
  \/ life[Signal!Receiver] = "absent" /\ life'[Signal!Receiver] = "runs"
  \/ life[Signal!Receiver] = "runs" /\ life'[Signal!Receiver] = "ended"
  \/ life[Signal!Receiver] = "ended" /\ life'[Signal!Receiver] = "reaped"

\* The accounts in these cases.
LEMMA SigAccountsStay ==
    ASSUME SigInv, UNCHANGED <<task, pending, sent, handled>>, SigLifeGoes
    PROVE  \A s \in Signal!AllSignals : SigAccount(s)'
<1>1. Signal!Receiver' = Signal!Receiver
  BY DEF Signal!Receiver
<1> SUFFICES ASSUME NEW s \in Signal!AllSignals PROVE SigAccount(s)'
  OBVIOUS
<1>2. SigAccount(s)
  BY DEF SigInv
<1>3. <<>> \o <<>> = <<>>
  OBVIOUS
<1>. QED
  BY <1>1, <1>2, <1>3 DEF SigAccount, SigLifeGoes

\* A process ends; a receiver has then taken what it could.
LEMMA LeavesStep ==
    ASSUME SigInv, NEW p \in Signal!Procs, life[p] = "runs", Signal!Become(p, "ended"),
           p = Signal!Receiver => Signal!Deliverable = {},
           UNCHANGED <<task, at, caught, mask, pending, sent, handled, running, typed, ignored>>
    PROVE  SigInv'
<1>0. /\ UNCHANGED <<task, at, caught, mask, pending, sent, handled, running, typed, ignored>>
      /\ Signal!Become(p, "ended")
      /\ life[p] = "runs" /\ (p = Signal!Receiver => Signal!Deliverable = {})
  OBVIOUS
<1>2. Signal!Receiver' = Signal!Receiver /\ Signal!Deliverable' = Signal!Deliverable
      /\ "parent" \in Signal!Procs /\ "child" \in Signal!Procs
      /\ p \in {"parent", "child"} /\ Signal!Receiver \in {"parent", "child"} /\ Signal!Receiver \in Signal!Procs
  BY <1>0, SigTypes DEF Signal!Receiver, Signal!Deliverable
<1>3. /\ life' \in [Signal!Procs -> {"absent", "runs", "ended", "killed", "reaped"}]
      /\ life'[p] = "ended" /\ \A q \in Signal!Procs : q # p => life'[q] = life[q]
  BY <1>0, SigTypes DEF Signal!Become
<1>4. /\ at' \in [Signal!Procs -> Int]
      /\ \A q \in Signal!Procs : at'[q] \in 1 .. Len(Signal!ScriptOf(task')[q]) + 1
  BY <1>0, SigStand
<1>5. \A s \in Signal!AllSignals : SigAccount(s)'
  BY <1>0, <1>2, <1>3, SigAccountsStay DEF SigLifeGoes
<1>6. Signal!TypeOK'
  BY <1>0, <1>3, <1>4, SigTypes DEF Signal!TypeOK
<1>7. SigReads' /\ SigShield'
  BY <1>0 DEF SigInv, SigReads, SigShield
<1>8. SigFate'
  <2>1. life'[Signal!Receiver] = "absent" => life[Signal!Receiver] = "absent"
    BY <1>2, <1>3
  <2>2. life'[Signal!Receiver] = "killed" => life[Signal!Receiver] = "killed"
    BY <1>2, <1>3
  <2>3. life'[Signal!Receiver] = "ended" => Signal!Deliverable = {}
    BY <1>0, <1>2, <1>3 DEF SigInv, SigFate
  <2>4. at["parent"] = 1 => life'["child"] = "absent"
    BY <1>0, <1>2, <1>3 DEF SigInv, SigFate
  <2>5. life'["child"] = "killed" => life["child"] = "killed"
    BY <1>2, <1>3
  <2>. QED
    BY <1>0, <1>2, <2>1, <2>2, <2>3, <2>4, <2>5 DEF SigInv, SigFate
<1>. QED
  BY <1>4, <1>5, <1>6, <1>7, <1>8 DEF SigInv

\* fork has made a child.
LEMMA ForkedStep ==
    ASSUME SigInv, NEW p \in Signal!Procs, Signal!Forks(p), Signal!Become("child", "runs"), Signal!Move(p, 1)
    PROVE  SigInv'
<1>1. /\ task \in {"kill", "realtime"} /\ p = "parent" /\ at[p] = 1 /\ life["parent"] = "runs"
      /\ at[p] + 1 \in 1 .. SigLength(p) + 1
  BY SigDoes DEF Signal!Forks, SigRule
<1>2. /\ UNCHANGED <<task, caught, mask, pending, sent, handled, running, typed, ignored>>
      /\ Signal!Become("child", "runs") /\ Signal!Move(p, 1)
  BY DEF Signal!Forks
<1>3. /\ at' \in [Signal!Procs -> Int] /\ at'["parent"] = 2 /\ at'["child"] = at["child"]
      /\ \A q \in Signal!Procs : at'[q] \in 1 .. Len(Signal!ScriptOf(task')[q]) + 1
  BY <1>1, <1>2, SigMove, SigTypes
<1>4. /\ life' \in [Signal!Procs -> {"absent", "runs", "ended", "killed", "reaped"}]
      /\ life'["parent"] = life["parent"] /\ life'["child"] = "runs"
  BY <1>2, SigTypes DEF Signal!Become
<1>5. life["child"] = "absent"
  BY <1>1 DEF SigInv, SigFate
<1>6. Signal!Receiver' = Signal!Receiver /\ Signal!Receiver \in {"parent", "child"}
  BY <1>2, SigTypes DEF Signal!Receiver
<1>7. Signal!TypeOK'
  BY <1>2, <1>3, <1>4, SigTypes DEF Signal!TypeOK
<1>8. \A s \in Signal!AllSignals : SigAccount(s)'
  BY <1>2, <1>4, <1>5, <1>6, SigAccountsStay DEF SigLifeGoes
<1>9. SigReads'
  BY <1>1, <1>2, <1>3 DEF SigInv, SigReads
<1>10. SigFate'
  BY <1>1, <1>2, <1>3, <1>4, <1>5, <1>6 DEF SigFate
<1>11. SigShield'
  BY <1>2, <1>3 DEF SigInv, SigShield
<1>. QED
  BY <1>3, <1>7, <1>8, <1>9, <1>10, <1>11 DEF SigInv

\* fork, and the end of its caller when it fails
LEMMA ForksStep == ASSUME SigInv, NEW p \in Signal!Procs, Signal!Forks(p) PROVE SigInv'
<1>1. CASE Signal!Become("child", "runs") /\ Signal!Move(p, 1)
  BY <1>1, ForkedStep
<1>2. CASE Signal!Become(p, "ended") /\ UNCHANGED at
  <2>1. /\ life[p] = "runs" /\ (p = Signal!Receiver => Signal!Deliverable = {})
        /\ UNCHANGED <<task, at, caught, mask, pending, sent, handled, running, typed, ignored>>
    BY <1>2, SigDoes DEF Signal!Forks
  <2>. QED
    BY <1>2, <2>1, LeavesStep
<1>. QED
  BY <1>1, <1>2 DEF Signal!Forks

\* A step that only moves its process.
LEMMA SigMoved ==
    ASSUME SigInv, NEW p \in Signal!Procs, NEW jump \in Int, Signal!Move(p, jump), life[p] = "runs",
           at[p] + jump \in 1 .. SigLength(p) + 1, at[p] + jump >= 2,
           task = "kill" => jump >= 1, task = "realtime" /\ p = "child" => jump = 1 /\ at[p] \in 2 .. 7,
           UNCHANGED <<task, life, caught, mask, pending, sent, handled>>
    PROVE  /\ \A q \in Signal!Procs : at'[q] \in 1 .. Len(Signal!ScriptOf(task')[q]) + 1
           /\ at' \in [Signal!Procs -> Int]
           /\ \A s \in Signal!AllSignals : SigAccount(s)'
           /\ SigFate' /\ SigShield'
<1>1. /\ at' \in [Signal!Procs -> Int] /\ at'[p] = at[p] + jump
      /\ \A q \in Signal!Procs : q # p => at'[q] = at[q]
      /\ \A q \in Signal!Procs : at'[q] \in 1 .. Len(Signal!ScriptOf(task')[q]) + 1
  BY SigMove
<1>2. Signal!Receiver' = Signal!Receiver /\ Signal!Receiver \in Signal!Procs /\ Signal!Deliverable' = Signal!Deliverable
  BY SigTypes DEF Signal!Receiver, Signal!Deliverable
<1>3. \A s \in Signal!AllSignals : SigAccount(s)'
  BY SigAccountsStay DEF SigLifeGoes
<1>4. p \in {"parent", "child"} /\ at[p] \in Int /\ "parent" \in Signal!Procs /\ "child" \in Signal!Procs
      /\ at["parent"] \in Int /\ at["child"] \in Int
  BY SigTypes
<1>5. SigFate'
  <2>1. life'[Signal!Receiver] = "absent" => caught' = {} /\ mask' = {} /\ at'[Signal!Receiver] = 1
    BY <1>1, <1>2 DEF SigInv, SigFate
  <2>2. life'[Signal!Receiver] = "killed" =>
          \E s \in Signal!AllSignals \ caught' : Len(handled'[s]) < Len(sent'[s])
    BY <1>2 DEF SigInv, SigFate
  <2>3. life'[Signal!Receiver] = "ended" => Signal!Deliverable' = {}
    BY <1>2 DEF SigInv, SigFate
  <2>4. at'["parent"] = 1 => life'["child"] = "absent"
    BY <1>1, <1>4 DEF SigInv, SigFate
  <2>5. task' = "kill" /\ life'["child"] = "killed" => at'["parent"] > 3
    BY <1>1, <1>4 DEF SigInv, SigFate
  <2>. QED
    BY <1>2, <2>1, <2>2, <2>3, <2>4, <2>5 DEF SigFate
<1>6. SigShield'
  <2>1. task = "realtime" => at'["child"] = at["child"] \/ (at["child"] \in 2 .. 7 /\ at'["child"] = at["child"] + 1)
    BY <1>1, <1>4
  <2>. QED
    BY <1>4, <2>1 DEF SigInv, SigShield
<1>. QED
  BY <1>1, <1>3, <1>5, <1>6

\* Where a process of the realtime program is that neither blocks nor ends.
LEMMA SigRealtime ==
    ASSUME SigInv, NEW op, op # "block", Signal!Does("child", op), task = "realtime"
    PROVE  at["child"] \in 2 .. 7
<1>1. at["child"] \in 1 .. SigLength("child") /\ SigRule(task, "child", at["child"], Signal!Here("child"))
      /\ Signal!Here("child").op = op /\ SigLengths(task, "child", SigLength("child"))
  BY SigDoes, SigTypes
<1>2. at["child"] # 1 /\ SigLength("child") = 7
  BY <1>1 DEF SigRule, SigLengths
<1>. QED
  BY <1>1, <1>2

\* sleep, a call of read, and the loops
LEMMA GoesStep == ASSUME SigInv, NEW p \in Signal!Procs, Signal!Goes(p) PROVE SigInv'
<1>0. UNCHANGED <<task, life, caught, mask, pending, sent, handled, running, typed, ignored>>
  BY DEF Signal!Goes
<1>1. PICK jump \in Int :
        /\ Signal!Move(p, jump) /\ life[p] = "runs"
        /\ at[p] + jump \in 1 .. SigLength(p) + 1 /\ at[p] + jump >= 2
        /\ task = "kill" => jump >= 1
        /\ task = "realtime" /\ p = "child" => jump = 1 /\ at[p] \in 2 .. 7
        /\ task = "sigaction" /\ p = "parent" /\ ~running /\ at[p] + jump \in {4, 5} => at[p] \in {4, 5}
  <2>1. CASE (Signal!Does(p, "sleep") \/ Signal!Does(p, "call_read")) /\ Signal!Move(p, 1)
    <3>1. /\ life[p] = "runs" /\ at[p] \in 1 .. SigLength(p) /\ at[p] + 1 \in 1 .. SigLength(p) + 1
          /\ task = "realtime" /\ p = "child" => at[p] \in 2 .. 7
      BY <2>1, SigDoes, SigRealtime
    <3>2. task = "sigaction" /\ p = "parent" => at[p] # 3
      BY <2>1, SigDoes DEF SigRule
    <3>3. at[p] \in Int /\ at[p] >= 1
      BY <3>1, SigTypes
    <3>4. task = "sigaction" /\ p = "parent" /\ at[p] + 1 \in {4, 5} => at[p] \in {4, 5}
      BY <3>2, <3>3
    <3>5. at[p] + 1 >= 2
      BY <3>3
    <3>. QED
      BY <2>1, <3>1, <3>4, <3>5
  <2>2. CASE Signal!Does(p, "jump") /\ Signal!Move(p, Signal!Here(p).n)
    <3>1. /\ life[p] = "runs" /\ p = "parent" /\ SigLengths(task, p, SigLength(p))
          /\ \/ task = "sigaction" /\ at[p] = 6 /\ Signal!Here(p).n = -3
             \/ task = "signal" /\ at[p] = 4 /\ Signal!Here(p).n = -2
      BY <2>2, SigDoes DEF SigRule
    <3>2. CASE task = "sigaction" /\ at[p] = 6 /\ Signal!Here(p).n = -3
      <4>1. SigLength(p) = 6
        BY <3>1, <3>2 DEF SigLengths
      <4>. QED
        BY <2>2, <3>1, <3>2, <4>1
    <3>3. CASE task = "signal" /\ at[p] = 4 /\ Signal!Here(p).n = -2
      <4>1. SigLength(p) = 4
        BY <3>1, <3>3 DEF SigLengths
      <4>. QED
        BY <2>2, <3>1, <3>3, <4>1
    <3>. QED
      BY <3>1, <3>2, <3>3
  <2>3. CASE Signal!Does(p, "while") /\ Signal!Move(p, IF running THEN 1 ELSE Signal!Here(p).n)
    <3>1. /\ life[p] = "runs" /\ p = "parent" /\ SigLengths(task, p, SigLength(p))
          /\ \/ task = "sigaction" /\ at[p] = 3 /\ Signal!Here(p).n = 4
             \/ task = "signal" /\ at[p] = 2 /\ Signal!Here(p).n = 3
      BY <2>3, SigDoes DEF SigRule
    <3>2. CASE task = "sigaction" /\ at[p] = 3 /\ Signal!Here(p).n = 4
      <4>1. SigLength(p) = 6
        BY <3>1, <3>2 DEF SigLengths
      <4>2. CASE running
        BY <2>3, <3>1, <3>2, <4>1, <4>2
      <4>3. CASE ~running
        BY <2>3, <3>1, <3>2, <4>1, <4>3
      <4>. QED
        BY <4>2, <4>3
    <3>3. CASE task = "signal" /\ at[p] = 2 /\ Signal!Here(p).n = 3
      <4>1. SigLength(p) = 4
        BY <3>1, <3>3 DEF SigLengths
      <4>2. CASE running
        BY <2>3, <3>1, <3>3, <4>1, <4>2
      <4>3. CASE ~running
        BY <2>3, <3>1, <3>3, <4>1, <4>3
      <4>. QED
        BY <4>2, <4>3
    <3>. QED
      BY <3>1, <3>2, <3>3
  <2>. QED
    BY <2>1, <2>2, <2>3 DEF Signal!Goes
<1>2. /\ \A q \in Signal!Procs : at'[q] \in 1 .. Len(Signal!ScriptOf(task')[q]) + 1
      /\ at' \in [Signal!Procs -> Int]
      /\ \A s \in Signal!AllSignals : SigAccount(s)'
      /\ SigFate' /\ SigShield'
  BY <1>0, <1>1, SigMoved
<1>3. Signal!TypeOK'
  BY <1>0, <1>2, SigTypes DEF Signal!TypeOK
<1>4. SigReads'
  <2>1. task = "sigaction" /\ ~running /\ at'["parent"] \in {4, 5} => at["parent"] \in {4, 5}
    <3>1. CASE p = "parent"
      BY <1>0, <1>1, <3>1, SigMove, SigTypes
    <3>2. CASE p # "parent"
      BY <1>0, <1>1, <3>2, SigMove, SigTypes
    <3>. QED
      BY <3>1, <3>2
  <2>2. ignored \in Int
    BY SigTypes DEF Signal!TypeOK
  <2>. QED
    BY <1>0, <2>1, <2>2 DEF SigInv, SigReads
<1>. QED
  BY <1>2, <1>3, <1>4 DEF SigInv

\* read returns with a line
LEMMA ReadReturnsStep == ASSUME SigInv, NEW p \in Signal!Procs, Signal!ReadReturns(p) PROVE SigInv'
<1>0. /\ UNCHANGED <<task, life, caught, mask, pending, sent, handled, running>>
      /\ typed < MaxLines /\ typed' = typed + 1 /\ ignored' = (IF running THEN ignored ELSE ignored + 1)
      /\ Signal!Move(p, 1)
  BY DEF Signal!ReadReturns
<1>1. /\ life[p] = "runs" /\ task = "sigaction" /\ p = "parent" /\ at[p] = 5
      /\ at[p] + 1 \in 1 .. SigLength(p) + 1
  BY SigDoes DEF Signal!ReadReturns, SigRule
<1>2. /\ \A q \in Signal!Procs : at'[q] \in 1 .. Len(Signal!ScriptOf(task')[q]) + 1
      /\ at' \in [Signal!Procs -> Int]
      /\ \A s \in Signal!AllSignals : SigAccount(s)'
      /\ SigFate' /\ SigShield'
  BY <1>0, <1>1, SigMoved
<1>3. at'["parent"] = 6
  BY <1>0, <1>1, SigMove
<1>4. typed \in 0 .. MaxLines /\ ignored \in 0 .. MaxLines /\ MaxLines \in Nat
  BY SigTypes, SignalsAssumption DEF Signal!TypeOK
<1>5. SigReads'
  BY <1>0, <1>1, <1>3, <1>4 DEF SigInv, SigReads
<1>6. typed' \in 0 .. MaxLines /\ ignored' \in 0 .. MaxLines
  BY <1>0, <1>4 DEF SigInv, SigReads
<1>7. Signal!TypeOK'
  BY <1>0, <1>2, <1>6, SigTypes DEF Signal!TypeOK
<1>. QED
  BY <1>2, <1>5, <1>7 DEF SigInv

\* Sigaction_rt and sigaction_func: one more handler.
LEMMA SigactionStep == ASSUME SigInv, NEW p \in Signal!Procs, Signal!Sigaction(p) PROVE SigInv'
<1>0. /\ UNCHANGED <<task, life, mask, pending, sent, handled, running, typed, ignored>>
      /\ caught' = caught \cup Signal!Here(p).on /\ Signal!Move(p, 1)
  BY DEF Signal!Sigaction
<1>1. /\ life[p] = "runs" /\ p = Signal!Receiver /\ Signal!Here(p).on \subseteq Signal!AllSignals
      /\ at[p] \in 1 .. SigLength(p) /\ at[p] + 1 \in 1 .. SigLength(p) + 1
      /\ task = "realtime" /\ p = "child" => at[p] \in 2 .. 7
      /\ task = "sigaction" /\ p = "parent" => at[p] # 3
  BY SigDoes, SigRealtime, SigTypes DEF Signal!Sigaction, SigRule
<1>2. /\ \A q \in Signal!Procs : at'[q] \in 1 .. Len(Signal!ScriptOf(task')[q]) + 1
      /\ at' \in [Signal!Procs -> Int] /\ at'[p] = at[p] + 1
      /\ \A q \in Signal!Procs : q # p => at'[q] = at[q]
  BY <1>0, <1>1, SigMove
<1>3. Signal!Receiver' = Signal!Receiver /\ at[p] \in Int /\ at[p] >= 1
      /\ "parent" \in Signal!Procs /\ "child" \in Signal!Procs /\ at["parent"] \in Int /\ at["child"] \in Int
      /\ p = (IF task = "realtime" THEN "child" ELSE "parent")
  BY <1>0, <1>1, SigTypes DEF Signal!Receiver
<1>4. \A s \in Signal!AllSignals : SigAccount(s)'
  BY <1>0, SigAccountsStay DEF SigLifeGoes
<1>5. Signal!TypeOK'
  BY <1>0, <1>1, <1>2, SigTypes DEF Signal!TypeOK
<1>6. SigReads'
  <2>1. task = "sigaction" /\ at'["parent"] \in {4, 5} => at["parent"] \in {4, 5}
    BY <1>1, <1>2, <1>3
  <2>2. ignored \in Int
    BY SigTypes DEF Signal!TypeOK
  <2>. QED
    BY <1>0, <2>1, <2>2 DEF SigInv, SigReads
<1>7. SigFate'
  <2>1. life'[Signal!Receiver] = "runs"
    BY <1>0, <1>1
  <2>2. at'["parent"] = 1 => life'["child"] = "absent"
    BY <1>0, <1>2, <1>3 DEF SigInv, SigFate
  <2>3. task' = "kill" /\ life'["child"] = "killed" => at'["parent"] > 3
    BY <1>0, <1>2, <1>3 DEF SigInv, SigFate
  <2>. QED
    BY <1>3, <2>1, <2>2, <2>3 DEF SigFate
<1>8. SigShield'
  <2>1. task = "realtime" => at["child"] \in 2 .. 7 /\ at'["child"] = at["child"] + 1
    BY <1>1, <1>2, <1>3
  <2>. QED
    BY <1>0, <1>3, <2>1 DEF SigInv, SigShield
<1>. QED
  BY <1>2, <1>4, <1>5, <1>6, <1>7, <1>8 DEF SigInv

\* sigprocmask: the realtime program blocks first of all, and unblocks last.
LEMMA SigprocmaskStep == ASSUME SigInv, NEW p \in Signal!Procs, Signal!Sigprocmask(p) PROVE SigInv'
<1>0. /\ UNCHANGED <<task, life, caught, pending, sent, handled, running, typed, ignored>>
      /\ Signal!Move(p, 1)
  BY DEF Signal!Sigprocmask
<1>1. /\ life[p] = "runs" /\ p = Signal!Receiver
      /\ at[p] \in 1 .. SigLength(p) /\ at[p] + 1 \in 1 .. SigLength(p) + 1
      /\ mask' \subseteq Signal!AllSignals
      /\ task = "sigaction" /\ p = "parent" => at[p] # 3
      /\ task = "realtime" /\ p = "child" =>
           at[p] = 7 \/ (at[p] = 1 /\ Signal!Realtime \subseteq mask')
  <2>1. mask \subseteq Signal!AllSignals
    BY SigTypes DEF Signal!TypeOK
  <2>2. CASE Signal!Does(p, "block") /\ mask' = mask \cup Signal!Here(p).on
    BY <2>1, <2>2, SigDoes, SigTypes DEF SigRule
  <2>3. CASE Signal!Does(p, "unblock") /\ mask' = mask \ Signal!Here(p).on
    BY <2>1, <2>3, SigDoes, SigTypes DEF SigRule
  <2>. QED
    BY <2>2, <2>3 DEF Signal!Sigprocmask
<1>2. /\ \A q \in Signal!Procs : at'[q] \in 1 .. Len(Signal!ScriptOf(task')[q]) + 1
      /\ at' \in [Signal!Procs -> Int] /\ at'[p] = at[p] + 1
      /\ \A q \in Signal!Procs : q # p => at'[q] = at[q]
  BY <1>0, <1>1, SigMove
<1>3. Signal!Receiver' = Signal!Receiver /\ at[p] \in Int /\ at[p] >= 1
      /\ "parent" \in Signal!Procs /\ "child" \in Signal!Procs /\ at["parent"] \in Int /\ at["child"] \in Int
      /\ p = (IF task = "realtime" THEN "child" ELSE "parent")
  BY <1>0, <1>1, SigTypes DEF Signal!Receiver
<1>4. \A s \in Signal!AllSignals : SigAccount(s)'
  BY <1>0, SigAccountsStay DEF SigLifeGoes
<1>5. Signal!TypeOK'
  BY <1>0, <1>1, <1>2, SigTypes DEF Signal!TypeOK
<1>6. SigReads'
  <2>1. task = "sigaction" /\ at'["parent"] \in {4, 5} => at["parent"] \in {4, 5}
    BY <1>1, <1>2, <1>3
  <2>2. ignored \in Int
    BY SigTypes DEF Signal!TypeOK
  <2>. QED
    BY <1>0, <2>1, <2>2 DEF SigInv, SigReads
<1>7. SigFate'
  <2>1. life'[Signal!Receiver] = "runs"
    BY <1>0, <1>1
  <2>2. at'["parent"] = 1 => life'["child"] = "absent"
    BY <1>0, <1>2, <1>3 DEF SigInv, SigFate
  <2>3. task' = "kill" /\ life'["child"] = "killed" => at'["parent"] > 3
    BY <1>0, <1>2, <1>3 DEF SigInv, SigFate
  <2>. QED
    BY <1>3, <2>1, <2>2, <2>3 DEF SigFate
<1>8. SigShield'
  <2>1. task = "realtime" => \/ at["child"] = 7 /\ at'["child"] = 8
                             \/ at["child"] = 1 /\ at'["child"] = 2 /\ Signal!Realtime \subseteq mask'
    BY <1>1, <1>2, <1>3
  <2>. QED
    BY <1>0, <1>3, <2>1 DEF SigInv, SigShield
<1>. QED
  BY <1>2, <1>4, <1>5, <1>6, <1>7, <1>8 DEF SigInv

\* Sequences of which the first element of one goes to the other.
LEMMA Delivered ==
    ASSUME NEW V, NEW h \in Seq(V), NEW q \in Seq(V), q # <<>>
    PROVE  /\ Append(h, Head(q)) \in Seq(V) /\ Tail(q) \in Seq(V)
           /\ Append(h, Head(q)) \o Tail(q) = h \o q
           /\ Len(Append(h, Head(q))) + Len(Tail(q)) = Len(h) + Len(q)
           /\ Len(Tail(q)) = Len(q) - 1 /\ Len(q) >= 1 /\ Append(h, Head(q)) # <<>>
<1>1. Head(q) \in V /\ Tail(q) \in Seq(V) /\ Len(Tail(q)) = Len(q) - 1 /\ Len(q) \in Nat /\ Len(q) >= 1 /\ Len(h) \in Nat
      /\ \A i \in 1 .. Len(q) - 1 : Tail(q)[i] = q[i + 1]
      /\ Head(q) = q[1]
  BY HeadTailProperties, LenProperties
<1>2. Append(h, Head(q)) \in Seq(V) /\ Len(Append(h, Head(q))) = Len(h) + 1
      /\ Append(h, Head(q)) # <<>>
      /\ \A i \in 1 .. Len(h) : Append(h, Head(q))[i] = h[i]
      /\ Append(h, Head(q))[Len(h) + 1] = Head(q)
  BY <1>1, AppendProperties
<1>3. /\ Append(h, Head(q)) \o Tail(q) \in Seq(V) /\ h \o q \in Seq(V)
      /\ Len(Append(h, Head(q)) \o Tail(q)) = Len(h) + Len(q) /\ Len(h \o q) = Len(h) + Len(q)
  BY <1>1, <1>2, ConcatProperties
<1>4. ASSUME NEW i \in 1 .. Len(h) + Len(q)
      PROVE  (Append(h, Head(q)) \o Tail(q))[i] = (h \o q)[i]
  <2>1. (h \o q)[i] = (IF i <= Len(h) THEN h[i] ELSE q[i - Len(h)])
    BY <1>1, ConcatProperties
  <2>2. (Append(h, Head(q)) \o Tail(q))[i] =
          (IF i <= Len(h) + 1 THEN Append(h, Head(q))[i] ELSE Tail(q)[i - (Len(h) + 1)])
    <3>1. i \in 1 .. Len(Append(h, Head(q))) + Len(Tail(q))
      BY <1>1, <1>2
    <3>. QED
      BY <1>1, <1>2, <3>1, ConcatProperties
  <2>3. CASE i <= Len(h)
    BY <1>1, <1>2, <2>1, <2>2, <2>3
  <2>4. CASE i = Len(h) + 1
    BY <1>1, <1>2, <2>1, <2>2, <2>4
  <2>5. CASE i > Len(h) + 1
    <3>1. i - (Len(h) + 1) \in 1 .. Len(q) - 1 /\ i - (Len(h) + 1) + 1 = i - Len(h)
      BY <1>1, <2>5
    <3>2. Tail(q)[i - (Len(h) + 1)] = q[i - Len(h)]
      BY <1>1, <3>1
    <3>. QED
      BY <1>1, <2>1, <2>2, <2>5, <3>2
  <2>. QED
    BY <1>1, <2>3, <2>4, <2>5
<1>5. Append(h, Head(q)) \o Tail(q) = h \o q
  BY <1>3, <1>4, SeqEqual
<1>. QED
  BY <1>1, <1>2, <1>5

\* A sequence that grows at its end.
LEMMA OneMore ==
    ASSUME NEW V, NEW h \in Seq(V), NEW q \in Seq(V), NEW n \in V
    PROVE  /\ h \o Append(q, n) = Append(h \o q, n)
           /\ Append(q, n) \in Seq(V) /\ Append(q, n) # <<>> /\ Len(Append(q, n)) = Len(q) + 1
           /\ Len(q) \in Nat /\ Len(h) \in Nat
<1>1. Append(q, n) \in Seq(V) /\ Append(q, n) # <<>> /\ Len(Append(q, n)) = Len(q) + 1 /\ Len(q) \in Nat /\ Len(h) \in Nat
  BY AppendProperties, LenProperties
<1>. QED
  BY <1>1

\* waitpid
LEMMA WaitsStep == ASSUME SigInv, NEW p \in Signal!Procs, Signal!Waits(p) PROVE SigInv'
<1>0. UNCHANGED <<task, caught, mask, pending, sent, handled, running, typed, ignored>>
  BY DEF Signal!Waits
<1>1. PICK jump \in {1, 2} :
        /\ Signal!Move(p, jump) /\ life[p] = "runs"
        /\ at[p] + jump \in 1 .. SigLength(p) + 1 /\ at[p] \in 1 .. SigLength(p)
        /\ task = "realtime" /\ p = "child" => jump = 1 /\ at[p] \in 2 .. 7
        /\ task = "sigaction" /\ p = "parent" => jump = 1 /\ at[p] # 3
        /\ life' = life \/ (Signal!Become("child", "reaped") /\ life["child"] = "ended")
  <2>1. CASE Signal!Does(p, "wait")
    <3>1. Signal!Move(p, 1) /\ (life' = life \/ (Signal!Become("child", "reaped") /\ life["child"] = "ended"))
      <4>1. ~Signal!Does(p, "wait_no_hang")
        BY <2>1 DEF Signal!Does
      <4>. QED
        BY <4>1 DEF Signal!Waits
    <3>2. /\ life[p] = "runs" /\ at[p] \in 1 .. SigLength(p) /\ at[p] + 1 \in 1 .. SigLength(p) + 1
          /\ task = "realtime" /\ p = "child" => at[p] \in 2 .. 7
          /\ task = "sigaction" /\ p = "parent" => at[p] # 3
      BY <2>1, SigDoes, SigRealtime DEF SigRule
    <3>. QED
      BY <3>1, <3>2
  <2>2. CASE Signal!Does(p, "wait_no_hang")
    <3>1. ~Signal!Does(p, "wait")
      BY <2>2 DEF Signal!Does
    <3>2. /\ life[p] = "runs" /\ task = "kill" /\ p = "parent" /\ at[p] = 2 /\ Signal!Here(p).n = 2
          /\ SigLengths(task, p, SigLength(p))
      BY <2>2, SigDoes DEF SigRule
    <3>3. SigLength(p) = 3
      BY <3>2 DEF SigLengths
    <3>4. CASE life["child"] = "ended"
      <4>1. Signal!Become("child", "reaped") /\ Signal!Move(p, 2)
        BY <2>2, <3>1, <3>2, <3>4 DEF Signal!Waits
      <4>. QED
        BY <3>2, <3>3, <3>4, <4>1
    <3>5. CASE life["child"] # "ended"
      <4>1. life' = life /\ Signal!Move(p, 1)
        BY <2>2, <3>1, <3>5 DEF Signal!Waits
      <4>. QED
        BY <3>2, <3>3, <4>1
    <3>. QED
      BY <3>4, <3>5
  <2>. QED
    BY <2>1, <2>2 DEF Signal!Waits
<1>2. /\ \A q \in Signal!Procs : at'[q] \in 1 .. Len(Signal!ScriptOf(task')[q]) + 1
      /\ at' \in [Signal!Procs -> Int] /\ at'[p] = at[p] + jump
      /\ \A q \in Signal!Procs : q # p => at'[q] = at[q]
  BY <1>0, <1>1, SigMove
<1>3. Signal!Receiver' = Signal!Receiver /\ Signal!Deliverable' = Signal!Deliverable /\ at[p] \in Int /\ at[p] >= 1
      /\ "parent" \in Signal!Procs /\ "child" \in Signal!Procs /\ at["parent"] \in Int /\ at["child"] \in Int
      /\ p \in {"parent", "child"} /\ Signal!Receiver \in {"parent", "child"} /\ Signal!Receiver \in Signal!Procs
  BY <1>0, <1>1, SigTypes DEF Signal!Receiver, Signal!Deliverable
<1>4. /\ life' \in [Signal!Procs -> {"absent", "runs", "ended", "killed", "reaped"}]
      /\ life'["parent"] = life["parent"]
      /\ life'["child"] = life["child"] \/ (life["child"] = "ended" /\ life'["child"] = "reaped")
  BY <1>1, SigTypes DEF Signal!Become
<1>5. \A s \in Signal!AllSignals : SigAccount(s)'
  BY <1>0, <1>3, <1>4, SigAccountsStay DEF SigLifeGoes
<1>6. Signal!TypeOK'
  BY <1>0, <1>2, <1>4, SigTypes DEF Signal!TypeOK
<1>7. SigReads'
  <2>1. task = "sigaction" /\ at'["parent"] \in {4, 5} => at["parent"] \in {4, 5}
    BY <1>1, <1>2, <1>3
  <2>2. ignored \in Int
    BY SigTypes DEF Signal!TypeOK
  <2>. QED
    BY <1>0, <2>1, <2>2 DEF SigInv, SigReads
<1>8. SigFate'
  <2>1. life'[Signal!Receiver] = "absent" => caught' = {} /\ mask' = {} /\ at'[Signal!Receiver] = 1
    <3>1. life'[Signal!Receiver] = "absent" => life[Signal!Receiver] = "absent" /\ Signal!Receiver # p
      BY <1>1, <1>3, <1>4
    <3>. QED
      BY <1>0, <1>2, <1>3, <3>1 DEF SigInv, SigFate
  <2>2. life'[Signal!Receiver] = "killed" =>
          \E s \in Signal!AllSignals \ caught' : Len(handled'[s]) < Len(sent'[s])
    <3>1. life'[Signal!Receiver] = "killed" => life[Signal!Receiver] = "killed"
      BY <1>3, <1>4
    <3>. QED
      BY <1>0, <3>1 DEF SigInv, SigFate
  <2>3. life'[Signal!Receiver] = "ended" => Signal!Deliverable' = {}
    <3>1. life'[Signal!Receiver] = "ended" => life[Signal!Receiver] = "ended"
      BY <1>3, <1>4
    <3>. QED
      BY <1>3, <3>1 DEF SigInv, SigFate
  <2>4. at'["parent"] = 1 => life'["child"] = "absent"
    BY <1>1, <1>2, <1>3, <1>4 DEF SigInv, SigFate
  <2>5. task' = "kill" /\ life'["child"] = "killed" => at'["parent"] > 3
    <3>1. at'["parent"] >= at["parent"]
      BY <1>1, <1>2, <1>3
    <3>2. life'["child"] = "killed" => life["child"] = "killed"
      BY <1>4
    <3>. QED
      BY <1>0, <1>2, <1>3, <3>1, <3>2 DEF SigInv, SigFate
  <2>. QED
    BY <1>3, <2>1, <2>2, <2>3, <2>4, <2>5 DEF SigFate
<1>9. SigShield'
  <2>1. task = "realtime" => at'["child"] = at["child"] \/ (at["child"] \in 2 .. 7 /\ at'["child"] = at["child"] + 1)
    BY <1>1, <1>2, <1>3
  <2>. QED
    BY <1>0, <1>3, <2>1 DEF SigInv, SigShield
<1>. QED
  BY <1>2, <1>5, <1>6, <1>7, <1>8, <1>9 DEF SigInv

\* process_kill's SIGKILL
LEMMA KillsStep == ASSUME SigInv, NEW p \in Signal!Procs, Signal!Kills(p) PROVE SigInv'
<1>0. /\ UNCHANGED <<task, caught, mask, pending, sent, handled, running, typed, ignored>>
      /\ Signal!Move(p, 1) /\ (life' = life \/ Signal!Become("child", "killed"))
  BY DEF Signal!Kills
<1>1. /\ life[p] = "runs" /\ task = "kill" /\ p = "parent" /\ at[p] = 3 /\ at[p] + 1 \in 1 .. SigLength(p) + 1
  BY SigDoes DEF Signal!Kills, SigRule
<1>2. /\ \A q \in Signal!Procs : at'[q] \in 1 .. Len(Signal!ScriptOf(task')[q]) + 1
      /\ at' \in [Signal!Procs -> Int] /\ at'["parent"] = 4
  BY <1>0, <1>1, SigMove
<1>3. Signal!Receiver = "parent" /\ Signal!Receiver' = "parent" /\ "parent" \in Signal!Procs
  BY <1>0, <1>1, SigTypes DEF Signal!Receiver
<1>4. /\ life' \in [Signal!Procs -> {"absent", "runs", "ended", "killed", "reaped"}]
      /\ life'["parent"] = "runs" /\ life["parent"] = "runs"
  BY <1>0, <1>1, SigTypes DEF Signal!Become
<1>5. \A s \in Signal!AllSignals : SigAccount(s)'
  BY <1>0, <1>3, <1>4, SigAccountsStay DEF SigLifeGoes
<1>6. Signal!TypeOK'
  BY <1>0, <1>2, <1>4, SigTypes DEF Signal!TypeOK
<1>7. SigReads'
  <2>1. ignored = 0 /\ ignored <= typed
    BY <1>1 DEF SigInv, SigReads
  <2>. QED
    BY <1>0, <2>1 DEF SigReads
<1>8. SigFate'
  BY <1>0, <1>2, <1>3, <1>4 DEF SigFate
<1>9. SigShield'
  BY <1>0, <1>1 DEF SigShield
<1>. QED
  BY <1>2, <1>5, <1>6, <1>7, <1>8, <1>9 DEF SigInv

\* A process returns from main.
LEMMA EndsStep == ASSUME SigInv, NEW p \in Signal!Procs, Signal!Ends(p) PROVE SigInv'
BY LeavesStep DEF Signal!Ends, Signal!Alive

\* The sequences of a signal.
LEMMA SigSequences ==
    ASSUME SigInv, NEW s \in Signal!AllSignals
    PROVE  /\ pending[s] \in Seq(Signal!Values) /\ sent[s] \in Seq(Signal!Values) /\ handled[s] \in Seq(Signal!Values)
           /\ Len(pending[s]) \in Nat /\ Len(sent[s]) \in Nat /\ Len(handled[s]) \in Nat
           /\ SigAccount(s)
<1>1. pending \in [Signal!AllSignals -> Seq(Signal!Values)] /\ sent \in [Signal!AllSignals -> Seq(Signal!Values)]
      /\ handled \in [Signal!AllSignals -> Seq(Signal!Values)]
  BY SigTypes DEF Signal!TypeOK
<1>2. pending[s] \in Seq(Signal!Values) /\ sent[s] \in Seq(Signal!Values) /\ handled[s] \in Seq(Signal!Values)
  BY <1>1
<1>. QED
  BY <1>2, LenProperties DEF SigInv

\* A signal is sent: to a receiver that does not run, nothing.
LEMMA RaiseStep ==
    ASSUME SigInv, NEW s \in Signal!AllSignals, NEW n \in Signal!Values, Signal!Raise(s, n),
           UNCHANGED <<task, life, caught, handled>>
    PROVE  /\ pending' \in [Signal!AllSignals -> Seq(Signal!Values)]
           /\ sent' \in [Signal!AllSignals -> Seq(Signal!Values)]
           /\ \A t \in Signal!AllSignals : SigAccount(t)'
           /\ life[Signal!Receiver] # "runs" => pending' = pending /\ sent' = sent
<1>1. Signal!Receiver' = Signal!Receiver
  BY DEF Signal!Receiver
<1>2. pending \in [Signal!AllSignals -> Seq(Signal!Values)] /\ sent \in [Signal!AllSignals -> Seq(Signal!Values)]
  BY SigTypes DEF Signal!TypeOK
<1>3. CASE life[Signal!Receiver] # "runs"
  <2>1. pending' = pending /\ sent' = sent
    BY <1>3 DEF Signal!Raise
  <2>2. \A t \in Signal!AllSignals : SigAccount(t)'
    BY <2>1, SigAccountsStay DEF SigLifeGoes
  <2>. QED
    BY <1>2, <2>1, <2>2
<1>4. CASE life[Signal!Receiver] = "runs"
  <2>1. /\ sent' = [sent EXCEPT ![s] = Append(sent[s], n)]
        /\ pending' = [pending EXCEPT ![s] = IF s \in Signal!Realtime \/ pending[s] = <<>>
                                             THEN Append(pending[s], n) ELSE pending[s]]
    BY <1>4 DEF Signal!Raise
  <2>2. /\ Append(pending[s], n) \in Seq(Signal!Values) /\ Append(sent[s], n) \in Seq(Signal!Values)
        /\ Len(Append(pending[s], n)) = Len(pending[s]) + 1 /\ Len(Append(sent[s], n)) = Len(sent[s]) + 1
        /\ Append(pending[s], n) # <<>>
        /\ handled[s] \o Append(pending[s], n) = Append(handled[s] \o pending[s], n)
    <3>1. /\ pending[s] \in Seq(Signal!Values) /\ sent[s] \in Seq(Signal!Values)
          /\ handled[s] \in Seq(Signal!Values)
      BY SigSequences
    <3>2. /\ Append(pending[s], n) \in Seq(Signal!Values) /\ Append(pending[s], n) # <<>>
          /\ Len(Append(pending[s], n)) = Len(pending[s]) + 1
          /\ handled[s] \o Append(pending[s], n) = Append(handled[s] \o pending[s], n)
      <4>. DEFINE V == Signal!Values
                  h == handled[s]
                  q == pending[s]
      <4>1. h \in Seq(V) /\ q \in Seq(V) /\ n \in V
        BY <3>1
      <4>. HIDE DEF V, h, q
      <4>2. /\ Append(q, n) \in Seq(V) /\ Append(q, n) # <<>> /\ Len(Append(q, n)) = Len(q) + 1
            /\ h \o Append(q, n) = Append(h \o q, n)
        BY <4>1, OneMore
      <4>. QED
        BY <4>2 DEF V, h, q
    <3>3. Append(sent[s], n) \in Seq(Signal!Values) /\ Len(Append(sent[s], n)) = Len(sent[s]) + 1
      BY <3>1, AppendProperties
    <3>. QED
      BY <3>2, <3>3
  <2>3. /\ pending' \in [Signal!AllSignals -> Seq(Signal!Values)]
        /\ sent' \in [Signal!AllSignals -> Seq(Signal!Values)]
        /\ sent'[s] = Append(sent[s], n)
        /\ s \in Signal!Realtime \/ pending[s] = <<>> => pending'[s] = Append(pending[s], n)
        /\ ~(s \in Signal!Realtime \/ pending[s] = <<>>) => pending'[s] = pending[s]
        /\ \A t \in Signal!AllSignals : t # s => pending'[t] = pending[t] /\ sent'[t] = sent[t]
    BY <1>2, <2>1, <2>2
  <2>4. ASSUME NEW t \in Signal!AllSignals, t # s PROVE SigAccount(t)'
    <3>1. SigAccount(t) /\ pending'[t] = pending[t] /\ sent'[t] = sent[t]
      BY <2>3, <2>4, SigSequences
    <3>. QED
      BY <1>1, <3>1 DEF SigAccount
  <2>5. SigAccount(s)'
    <3>1. SigAccount(s) /\ Len(pending[s]) \in Nat /\ Len(sent[s]) \in Nat /\ Len(handled[s]) \in Nat
      BY SigSequences
    <3>2. Len(handled'[s]) + Len(pending'[s]) <= Len(sent'[s])
      <4>1. Len(sent'[s]) = Len(sent[s]) + 1 /\ (Len(pending'[s]) = Len(pending[s]) \/ Len(pending'[s]) = Len(pending[s]) + 1)
        BY <2>2, <2>3
      <4>2. Len(handled[s]) + Len(pending[s]) <= Len(sent[s])
        BY <3>1 DEF SigAccount
      <4>4. Len(handled[s]) + Len(pending'[s]) <= Len(sent'[s])
        <5>. DEFINE h == Len(handled[s])
                    q == Len(pending[s])
                    q1 == Len(pending'[s])
                    l == Len(sent[s])
                    l1 == Len(sent'[s])
        <5>1. h \in Nat /\ q \in Nat /\ l \in Nat
          BY <3>1
        <5>2. h + q <= l /\ l1 = l + 1 /\ (q1 = q \/ q1 = q + 1)
          BY <4>1, <4>2
        <5>. HIDE DEF h, q, q1, l, l1
        <5>3. h + q1 <= l1
          BY <5>1, <5>2
        <5>. QED
          BY <5>3 DEF h, q1, l1
      <4>5. handled' = handled
        OBVIOUS
      <4>. QED
        BY <4>4, <4>5
    <3>3. s \in Signal!Realtime => handled'[s] \o pending'[s] = sent'[s]
      BY <1>4, <2>2, <2>3, <3>1 DEF SigAccount
    <3>4. pending'[s] # <<>>
      BY <2>2, <2>3
    <3>. QED
      BY <1>1, <1>4, <3>2, <3>3, <3>4 DEF SigAccount
  <2>. QED
    BY <1>4, <2>3, <2>4, <2>5
<1>. QED
  BY <1>3, <1>4

\* sigqueue of the realtime program's parent
LEMMA SigqueueStep == ASSUME SigInv, NEW p \in Signal!Procs, Signal!Sigqueue(p) PROVE SigInv'
<1>0. UNCHANGED <<task, life, caught, mask, handled, running, typed, ignored>> /\ Signal!Move(p, 1)
  BY DEF Signal!Sigqueue
<1>1. /\ life[p] = "runs" /\ task = "realtime" /\ p = "parent" /\ at[p] \in 1 .. SigLength(p)
      /\ at[p] + 1 \in 1 .. SigLength(p) + 1
      /\ Signal!Here(p).on \subseteq Signal!AllSignals /\ Signal!Here(p).n \in 1 .. Queued
  BY SigDoes DEF Signal!Sigqueue, SigRule
<1>2. PICK s \in Signal!Here(p).on : Signal!Raise(s, Signal!Here(p).n)
  BY DEF Signal!Sigqueue
<1>3. s \in Signal!AllSignals /\ Signal!Here(p).n \in Signal!Values
  BY <1>1, SignalsAssumption DEF Signal!Values
<1>4. /\ pending' \in [Signal!AllSignals -> Seq(Signal!Values)]
      /\ sent' \in [Signal!AllSignals -> Seq(Signal!Values)]
      /\ \A t \in Signal!AllSignals : SigAccount(t)'
      /\ life[Signal!Receiver] # "runs" => pending' = pending /\ sent' = sent
  BY <1>0, <1>2, <1>3, RaiseStep
<1>5. /\ \A q \in Signal!Procs : at'[q] \in 1 .. Len(Signal!ScriptOf(task')[q]) + 1
      /\ at' \in [Signal!Procs -> Int] /\ at'["parent"] = at["parent"] + 1 /\ at'["child"] = at["child"]
  BY <1>0, <1>1, SigMove, SigTypes
<1>6. Signal!Receiver' = "child" /\ Signal!Receiver = "child" /\ at["parent"] \in Int /\ at["parent"] >= 1
  BY <1>0, <1>1, SigTypes DEF Signal!Receiver
<1>7. Signal!TypeOK'
  BY <1>0, <1>4, <1>5, SigTypes DEF Signal!TypeOK
<1>8. SigReads'
  <2>1. ignored = 0 /\ ignored <= typed
    BY <1>1 DEF SigInv, SigReads
  <2>. QED
    BY <1>0, <2>1 DEF SigReads
<1>9. SigFate'
  <2>1. life["child"] = "ended" => Signal!Deliverable' = Signal!Deliverable
    BY <1>0, <1>4, <1>6 DEF Signal!Deliverable
  <2>2. life["child"] = "killed" => sent' = sent
    BY <1>4, <1>6
  <2>3. at'["parent"] # 1
    BY <1>5, <1>6
  <2>4. life["child"] = "killed" => \E t \in Signal!AllSignals \ caught' : Len(handled'[t]) < Len(sent'[t])
    BY <1>0, <1>6, <2>2 DEF SigInv, SigFate
  <2>. QED
    BY <1>0, <1>1, <1>5, <1>6, <2>1, <2>3, <2>4 DEF SigInv, SigFate
<1>10. SigShield'
  BY <1>0, <1>5 DEF SigInv, SigShield
<1>. QED
  BY <1>4, <1>5, <1>7, <1>8, <1>9, <1>10 DEF SigInv

\* The user sends a signal to the parent.
LEMMA UserSendsStep == ASSUME SigInv, Signal!UserSends PROVE SigInv'
<1>0. /\ UNCHANGED <<task, at, life, caught, mask, handled, running, typed, ignored>>
      /\ task \in {"sigaction", "shield", "signal"} /\ life["parent"] = "runs"
  BY DEF Signal!UserSends
<1>2. PICK s \in Signal!AllSignals :
        /\ Len(sent["SIGINT"]) + Len(sent["SIGUSR1"]) + Len(sent["SIGUSR2"]) < MaxSent
        /\ s \in {"SIGINT", "SIGUSR1", "SIGUSR2"} /\ Signal!Raise(s, Len(sent[s]) + 1)
  BY DEF Signal!UserSends, Signal!AllSignals, Signal!Standard
<1>3. Len(sent[s]) + 1 \in Signal!Values
  <2>1. {"SIGINT", "SIGUSR1", "SIGUSR2"} \subseteq Signal!AllSignals
    BY DEF Signal!AllSignals, Signal!Standard
  <2>2. Len(sent["SIGINT"]) \in Nat /\ Len(sent["SIGUSR1"]) \in Nat /\ Len(sent["SIGUSR2"]) \in Nat
    BY <2>1, SigSequences
  <2>3. \A a, b, c \in Nat : a + b + c < MaxSent => a < MaxSent /\ b < MaxSent /\ c < MaxSent
    BY SignalsAssumption
  <2>4. Len(sent["SIGINT"]) < MaxSent /\ Len(sent["SIGUSR1"]) < MaxSent /\ Len(sent["SIGUSR2"]) < MaxSent
    BY <1>2, <2>2, <2>3
  <2>5. Len(sent[s]) \in Nat /\ Len(sent[s]) < MaxSent
    BY <1>2, <2>2, <2>4
  <2>. QED
    BY <2>5, SignalsAssumption DEF Signal!Values
<1>4. /\ pending' \in [Signal!AllSignals -> Seq(Signal!Values)]
      /\ sent' \in [Signal!AllSignals -> Seq(Signal!Values)]
      /\ \A t \in Signal!AllSignals : SigAccount(t)'
  BY <1>0, <1>2, <1>3, RaiseStep
<1>5. /\ at' \in [Signal!Procs -> Int]
      /\ \A q \in Signal!Procs : at'[q] \in 1 .. Len(Signal!ScriptOf(task')[q]) + 1
  BY <1>0, SigStand
<1>6. Signal!Receiver' = "parent" /\ Signal!Receiver = "parent"
  BY <1>0 DEF Signal!Receiver
<1>7. Signal!TypeOK'
  BY <1>0, <1>4, <1>5, SigTypes DEF Signal!TypeOK
<1>8. SigReads' /\ SigShield'
  BY <1>0 DEF SigInv, SigReads, SigShield
<1>9. SigFate'
  BY <1>0, <1>6 DEF SigInv, SigFate
<1>. QED
  BY <1>4, <1>5, <1>7, <1>8, <1>9 DEF SigInv

\* A handler runs: it has the oldest value, tells the loops to stop, and
\* interrupts read; none runs for a blocked signal.
LEMMA HandlerStep ==
    ASSUME SigInv, life[Signal!Receiver] = "runs",
           NEW s \in Signal!Deliverable, s \in caught, pending' = [pending EXCEPT ![s] = Tail(pending[s])],
           handled' = [handled EXCEPT ![s] = Append(handled[s], Head(pending[s]))],
           running' = (IF task \in {"sigaction", "signal"} THEN FALSE ELSE running),
           IF ~Signal!AtEnd(Signal!Receiver) /\ Signal!Here(Signal!Receiver).op = "in_read"
           THEN Signal!Move(Signal!Receiver, 1) ELSE UNCHANGED at,
           UNCHANGED <<task, life, caught, mask, sent, typed, ignored>>
    PROVE  SigInv'
<1>1. s \in Signal!AllSignals /\ s \notin mask /\ pending[s] # <<>>
  BY DEF Signal!Deliverable
<1>2. Signal!Receiver' = Signal!Receiver /\ Signal!Receiver \in Signal!Procs
      /\ Signal!Receiver = (IF task = "realtime" THEN "child" ELSE "parent")
      /\ "parent" \in Signal!Procs /\ "child" \in Signal!Procs /\ at["parent"] \in Int /\ at["child"] \in Int
  BY SigTypes DEF Signal!Receiver
<1>3. /\ pending[s] \in Seq(Signal!Values) /\ handled[s] \in Seq(Signal!Values)
      /\ pending \in [Signal!AllSignals -> Seq(Signal!Values)]
      /\ handled \in [Signal!AllSignals -> Seq(Signal!Values)]
      /\ SigAccount(s)
  BY <1>1, SigSequences, SigTypes DEF Signal!TypeOK
<1>4. /\ Append(handled[s], Head(pending[s])) \in Seq(Signal!Values) /\ Tail(pending[s]) \in Seq(Signal!Values)
      /\ Append(handled[s], Head(pending[s])) \o Tail(pending[s]) = handled[s] \o pending[s]
      /\ Len(Append(handled[s], Head(pending[s]))) + Len(Tail(pending[s])) = Len(handled[s]) + Len(pending[s])
      /\ Append(handled[s], Head(pending[s])) # <<>>
  <2>. DEFINE V == Signal!Values
              h == handled[s]
              q == pending[s]
  <2>1. h \in Seq(V) /\ q \in Seq(V) /\ q # <<>>
    BY <1>1, <1>3
  <2>. HIDE DEF V, h, q
  <2>2. /\ Append(h, Head(q)) \in Seq(V) /\ Tail(q) \in Seq(V) /\ Append(h, Head(q)) \o Tail(q) = h \o q
        /\ Len(Append(h, Head(q))) + Len(Tail(q)) = Len(h) + Len(q) /\ Append(h, Head(q)) # <<>>
    BY <2>1, Delivered
  <2>. QED
    BY <2>2 DEF V, h, q
<1>5. /\ pending' \in [Signal!AllSignals -> Seq(Signal!Values)]
      /\ handled' \in [Signal!AllSignals -> Seq(Signal!Values)]
      /\ pending'[s] = Tail(pending[s]) /\ handled'[s] = Append(handled[s], Head(pending[s]))
      /\ \A t \in Signal!AllSignals : t # s => pending'[t] = pending[t] /\ handled'[t] = handled[t]
  BY <1>1, <1>3, <1>4
<1>6. \A t \in Signal!AllSignals : SigAccount(t)'
  <2>1. ASSUME NEW t \in Signal!AllSignals, t # s PROVE SigAccount(t)'
    <3>1. SigAccount(t) /\ pending'[t] = pending[t] /\ handled'[t] = handled[t]
      BY <1>5, <2>1, SigSequences
    <3>. QED
      BY <1>2, <3>1 DEF SigAccount
  <2>2. SigAccount(s)'
    <3>1. Len(handled'[s]) + Len(pending'[s]) <= Len(sent'[s])
      <4>1. Len(handled'[s]) + Len(pending'[s]) = Len(handled[s]) + Len(pending[s])
        BY <1>4, <1>5
      <4>2. Len(handled[s]) + Len(pending[s]) <= Len(sent[s])
        BY <1>3 DEF SigAccount
      <4>. QED
        BY <4>1, <4>2
    <3>2. s \in Signal!Realtime => handled'[s] \o pending'[s] = sent'[s]
      BY <1>3, <1>4, <1>5 DEF SigAccount
    <3>3. handled'[s] # <<>>
      BY <1>4, <1>5
    <3>. QED
      BY <1>2, <3>1, <3>2, <3>3 DEF SigAccount
  <2>. QED
    BY <2>1, <2>2
<1>7. /\ at' \in [Signal!Procs -> Int]
      /\ \A q \in Signal!Procs : at'[q] \in 1 .. Len(Signal!ScriptOf(task')[q]) + 1
      /\ at' = at \/ (task = "sigaction" /\ at["parent"] = 5 /\ at'["parent"] = 6)
  <2>1. CASE ~Signal!AtEnd(Signal!Receiver) /\ Signal!Here(Signal!Receiver).op = "in_read"
    <3>1. /\ task = "sigaction" /\ Signal!Receiver = "parent" /\ at["parent"] = 5
          /\ SigLengths(task, "parent", SigLength("parent"))
      BY <1>2, <2>1, SigHere, SigTypes DEF SigRule
    <3>2. at["parent"] + 1 \in 1 .. SigLength("parent") + 1
      BY <3>1 DEF SigLengths
    <3>. QED
      BY <1>2, <2>1, <3>1, <3>2, SigMove
  <2>2. CASE ~(~Signal!AtEnd(Signal!Receiver) /\ Signal!Here(Signal!Receiver).op = "in_read")
    BY <2>2, SigStand
  <2>. QED
    BY <2>1, <2>2
<1>8. Signal!TypeOK'
  <2>1. running' \in BOOLEAN
    BY SigTypes DEF Signal!TypeOK
  <2>. QED
    BY <1>5, <1>7, <2>1, SigTypes DEF Signal!TypeOK
<1>9. SigReads'
  <2>1. ignored \in Int /\ running \in BOOLEAN
    BY SigTypes DEF Signal!TypeOK
  <2>2. at'["parent"] \in {4, 5} => at["parent"] \in {4, 5}
    BY <1>7
  <2>3. running' => running
    OBVIOUS
  <2>4. running => ignored = 0
    BY DEF SigInv, SigReads
  <2>5. ignored <= typed /\ (task # "sigaction" => ignored = 0)
        /\ (~running => ignored + (IF at["parent"] \in {4, 5} THEN 1 ELSE 0) <= 1)
    BY DEF SigInv, SigReads
  <2>6. ignored + (IF at'["parent"] \in {4, 5} THEN 1 ELSE 0) <= 1
    <3>1. CASE running
      BY <2>1, <2>4, <3>1
    <3>2. CASE ~running
      BY <2>1, <2>2, <2>5, <3>2
    <3>. QED
      BY <3>1, <3>2
  <2>. QED
    BY <2>3, <2>4, <2>5, <2>6 DEF SigReads
<1>10. SigFate'
  <2>1. at'["parent"] = 1 => life["child"] = "absent"
    BY <1>7 DEF SigInv, SigFate
  <2>2. task = "kill" /\ life["child"] = "killed" => at'["parent"] > 3
    BY <1>7 DEF SigInv, SigFate
  <2>. QED
    BY <1>2, <2>1, <2>2 DEF SigFate
<1>11. SigShield'
  <2>1. CASE task = "realtime"
    <3>1. at' = at
      BY <1>7, <2>1
    <3>2. /\ at["child"] = 1 => caught = {}
          /\ at["child"] \in 2 .. 7 => Signal!Realtime \subseteq mask
          /\ at["child"] <= 7 => \A t \in Signal!Realtime : handled[t] = <<>>
      BY <2>1 DEF SigInv, SigShield
    <3>3. at["child"] >= 1 /\ at["child"] \in Int
      BY <1>2, SigTypes DEF Signal!TypeOK
    <3>4. at["child"] <= 7 => s \notin Signal!Realtime
      BY <1>1, <3>2, <3>3
    <3>5. at["child"] <= 7 => \A t \in Signal!Realtime : handled'[t] = <<>>
      BY <1>5, <3>2, <3>4 DEF Signal!AllSignals
    <3>. QED
      BY <3>1, <3>2, <3>5 DEF SigShield
  <2>. QED
    BY <2>1 DEF SigShield
<1>. QED
  BY <1>6, <1>7, <1>8, <1>9, <1>10, <1>11 DEF SigInv

\* A signal without a handler kills its receiver: one more was sent than is handled.
LEMMA KilledStep ==
    ASSUME SigInv, life[Signal!Receiver] = "runs",
           NEW s \in Signal!Deliverable, s \notin caught, pending' = [pending EXCEPT ![s] = Tail(pending[s])],
           Signal!Become(Signal!Receiver, "killed"),
           UNCHANGED <<task, at, caught, mask, sent, handled, running, typed, ignored>>
    PROVE  SigInv'
<1>1. s \in Signal!AllSignals /\ s \notin mask /\ pending[s] # <<>>
  BY DEF Signal!Deliverable
<1>2. Signal!Receiver' = Signal!Receiver /\ Signal!Receiver \in Signal!Procs
      /\ Signal!Receiver = (IF task = "realtime" THEN "child" ELSE "parent")
      /\ "parent" \in Signal!Procs /\ "child" \in Signal!Procs
  BY SigTypes DEF Signal!Receiver
<1>3. /\ pending[s] \in Seq(Signal!Values) /\ handled[s] \in Seq(Signal!Values)
      /\ pending \in [Signal!AllSignals -> Seq(Signal!Values)]
      /\ SigAccount(s) /\ Len(pending[s]) \in Nat /\ Len(handled[s]) \in Nat /\ Len(sent[s]) \in Nat
  BY <1>1, SigSequences, SigTypes DEF Signal!TypeOK
<1>4. Tail(pending[s]) \in Seq(Signal!Values) /\ Len(Tail(pending[s])) = Len(pending[s]) - 1 /\ Len(pending[s]) >= 1
  BY <1>1, <1>3, HeadTailProperties
<1>5. /\ pending' \in [Signal!AllSignals -> Seq(Signal!Values)] /\ pending'[s] = Tail(pending[s])
      /\ \A t \in Signal!AllSignals : t # s => pending'[t] = pending[t]
  BY <1>1, <1>3, <1>4
<1>6. Len(handled[s]) + Len(pending[s]) <= Len(sent[s])
  BY <1>3 DEF SigAccount
<1>7. Len(handled[s]) < Len(sent[s]) /\ Len(handled[s]) + Len(pending'[s]) <= Len(sent[s])
  <2>1. Len(pending'[s]) = Len(pending[s]) - 1
    BY <1>4, <1>5
  <2>. DEFINE h == Len(handled[s])
              q == Len(pending[s])
              q1 == Len(pending'[s])
              l == Len(sent[s])
  <2>2. h \in Nat /\ q \in Nat /\ l \in Nat /\ q >= 1 /\ q1 = q - 1 /\ h + q <= l
    BY <1>3, <1>4, <1>6, <2>1
  <2>. HIDE DEF h, q, q1, l
  <2>3. h < l /\ h + q1 <= l
    BY <2>2
  <2>. QED
    BY <2>3 DEF h, q1, l
<1>8. /\ life' \in [Signal!Procs -> {"absent", "runs", "ended", "killed", "reaped"}]
      /\ life'[Signal!Receiver] = "killed"
      /\ \A q \in Signal!Procs : q # Signal!Receiver => life'[q] = life[q]
  BY <1>2, SigTypes DEF Signal!Become
<1>9. \A t \in Signal!AllSignals : SigAccount(t)'
  <2>1. ASSUME NEW t \in Signal!AllSignals, t # s PROVE SigAccount(t)'
    <3>1. SigAccount(t) /\ pending'[t] = pending[t]
      BY <1>5, <2>1, SigSequences
    <3>. QED
      BY <1>2, <1>8, <3>1 DEF SigAccount
  <2>2. SigAccount(s)'
    BY <1>2, <1>7, <1>8 DEF SigAccount
  <2>. QED
    BY <2>1, <2>2
<1>10. /\ at' \in [Signal!Procs -> Int]
       /\ \A q \in Signal!Procs : at'[q] \in 1 .. Len(Signal!ScriptOf(task')[q]) + 1
  BY SigStand
<1>11. Signal!TypeOK'
  BY <1>5, <1>8, <1>10, SigTypes DEF Signal!TypeOK
<1>12. SigReads' /\ SigShield'
  BY DEF SigInv, SigReads, SigShield
<1>13. SigFate'
  <2>1. \E t \in Signal!AllSignals \ caught' : Len(handled'[t]) < Len(sent'[t])
    BY <1>1, <1>7
  <2>2. at'["parent"] = 1 => life'["child"] = "absent"
    BY <1>2, <1>8 DEF SigInv, SigFate
  <2>3. task' = "kill" /\ life'["child"] = "killed" => at'["parent"] > 3
    BY <1>2, <1>8 DEF SigInv, SigFate
  <2>. QED
    BY <1>2, <1>8, <2>1, <2>2, <2>3 DEF SigFate
<1>. QED
  BY <1>9, <1>10, <1>11, <1>12, <1>13 DEF SigInv

\* A pending signal that is not blocked is delivered.
LEMMA DeliverStep == ASSUME SigInv, Signal!Deliver PROVE SigInv'
<1>1. PICK s \in Signal!Deliverable :
        /\ pending' = [pending EXCEPT ![s] = Tail(pending[s])]
        /\ IF s \in caught
           THEN /\ handled' = [handled EXCEPT ![s] = Append(handled[s], Head(pending[s]))]
                /\ running' = (IF task \in {"sigaction", "signal"} THEN FALSE ELSE running)
                /\ IF ~Signal!AtEnd(Signal!Receiver) /\ Signal!Here(Signal!Receiver).op = "in_read"
                   THEN Signal!Move(Signal!Receiver, 1) ELSE UNCHANGED at
                /\ UNCHANGED life
           ELSE Signal!Become(Signal!Receiver, "killed") /\ UNCHANGED <<handled, running, at>>
  BY DEF Signal!Deliver
<1>2. life[Signal!Receiver] = "runs" /\ UNCHANGED <<task, caught, mask, sent, typed, ignored>>
  BY DEF Signal!Deliver
<1>3. CASE s \in caught
  BY <1>1, <1>2, <1>3, HandlerStep
<1>4. CASE s \notin caught
  BY <1>1, <1>2, <1>4, KilledStep
<1>. QED
  BY <1>3, <1>4

\* Every step of the signal programs preserves SigInv.
LEMMA SigNext == ASSUME SigInv, Signal!Next PROVE SigInv'
<1>1. ASSUME NEW p \in Signal!Procs, Signal!Process(p) PROVE SigInv'
  BY <1>1, ForksStep, SigactionStep, SigprocmaskStep, GoesStep, SigqueueStep, WaitsStep, KillsStep, EndsStep
     DEF Signal!Process
<1>. QED
  BY <1>1, ReadReturnsStep, UserSendsStep, DeliverStep DEF Signal!Next

\* A step of another kind of program leaves SigInv alone.
LEMMA SigUnchanged == ASSUME SigInv, UNCHANGED signalVars PROVE SigInv'
<1>0. UNCHANGED <<task, at, life, caught, mask, pending, sent, handled, running, typed, ignored>>
  BY DEF signalVars
<1>1. Signal!Receiver' = Signal!Receiver /\ Signal!Deliverable' = Signal!Deliverable
  BY <1>0 DEF Signal!Receiver, Signal!Deliverable
<1>2. Signal!TypeOK'
  BY <1>0, SigStand, SigTypes DEF Signal!TypeOK
<1>3. \A s \in Signal!AllSignals : SigAccount(s)'
  BY <1>0, SigAccountsStay DEF SigLifeGoes
<1>4. SigReads' /\ SigFate' /\ SigShield'
  BY <1>0, <1>1 DEF SigInv, SigReads, SigFate, SigShield
<1>5. at' \in [Signal!Procs -> Int]
  BY <1>0, SigTypes
<1>. QED
  BY <1>2, <1>3, <1>4, <1>5 DEF SigInv

\* A program about to start, and one that is not run.
LEMMA SigInit == ASSUME Signal!Init \/ Signal!NotRun PROVE SigInv
<1>1. /\ task \in SigNames /\ task \in DOMAIN Signal!Tasks \cup {"none"}
      /\ life \in [Signal!Procs -> {"absent", "runs", "ended", "killed", "reaped"}]
      /\ life["child"] = "absent" /\ life["parent"] \in {"absent", "runs"}
  BY DEF Signal!Init, Signal!NotRun, Signal!Tasks, SigNames, Signal!Procs
<1>2. /\ at = [p \in Signal!Procs |-> 1] /\ caught = {} /\ mask = {}
      /\ pending = [s \in Signal!AllSignals |-> <<>>] /\ sent = pending /\ handled = pending
      /\ running = TRUE /\ typed = 0 /\ ignored = 0
  BY DEF Signal!Init, Signal!NotRun, Signal!Quiet
<1>3. at \in [Signal!Procs -> Int] /\ at["parent"] = 1 /\ at["child"] = 1 /\ \A p \in Signal!Procs : at[p] = 1
  BY <1>2 DEF Signal!Procs
<1>4. \A s \in Signal!AllSignals : pending[s] = <<>> /\ sent[s] = <<>> /\ handled[s] = <<>>
  BY <1>2
<1>5. \A p \in Signal!Procs : 1 \in 1 .. Len(Signal!ScriptOf(task)[p]) + 1
  <2>1. ASSUME NEW p \in Signal!Procs PROVE 1 \in 1 .. Len(Signal!ScriptOf(task)[p]) + 1
    <3>1. Len(Signal!ScriptOf(task)[p]) \in Nat
      BY <1>1, SigRules DEF SigMade, SigLengths
    <3>. QED
      BY <3>1
  <2>. QED
    BY <2>1
<1>6. pending \in [Signal!AllSignals -> Seq(Signal!Values)]
  BY <1>2
<1>7. Signal!TypeOK
  BY <1>1, <1>2, <1>3, <1>5, <1>6, SignalsAssumption DEF Signal!TypeOK
<1>8. \A s \in Signal!AllSignals : SigAccount(s)
  <2>1. ASSUME NEW s \in Signal!AllSignals PROVE SigAccount(s)
    <3>1. pending[s] = <<>> /\ sent[s] = <<>> /\ handled[s] = <<>>
      BY <1>4
    <3>2. Len(handled[s]) + Len(pending[s]) <= Len(sent[s])
      BY <3>1
    <3>3. handled[s] \o pending[s] = sent[s]
      BY <3>1
    <3>. QED
      BY <3>1, <3>2, <3>3 DEF SigAccount
  <2>. QED
    BY <2>1
<1>9. SigReads
  BY <1>2, <1>3 DEF SigReads
<1>10. Signal!Receiver \in {"parent", "child"}
  BY DEF Signal!Receiver
<1>11. SigFate
  BY <1>1, <1>2, <1>3, <1>10 DEF SigFate
<1>12. SigShield
  BY <1>2, <1>3, <1>4 DEF SigShield, Signal!AllSignals
<1>. QED
  BY <1>3, <1>7, <1>8, <1>9, <1>11, <1>12 DEF SigInv

\* What the programs promise of their signals.
LEMMA SigPromises == ASSUME SigInv PROVE Signal!SignalsHandled /\ Signal!SignalsStop
<1>1. \A s \in Signal!AllSignals : handled[s] \o pending[s] # <<>> <=> handled[s] # <<>> \/ pending[s] # <<>>
  BY SigSequences, ConcatEqualIffEmpty
<1>2. Signal!SignalsHandled
  <2>1. \A s \in Signal!AllSignals : SigAccount(s)
    BY DEF SigInv
  <2>2. life[Signal!Receiver] = "ended" => Signal!Deliverable = {}
    BY DEF SigInv, SigFate
  <2>. QED
    BY <1>1, <2>1, <2>2 DEF Signal!SignalsHandled, SigAccount, Signal!AllSignals
<1>3. ignored <= 1
  <2>1. ignored \in Int /\ running \in BOOLEAN
    BY SigTypes DEF Signal!TypeOK
  <2>. QED
    BY <2>1 DEF SigInv, SigReads
<1>4. Signal!SignalsStop
  <2>1. task = "realtime" /\ at["child"] \in 2 .. 7 => \A s \in Signal!Realtime : handled[s] = <<>>
    BY DEF SigInv, SigShield
  <2>. QED
    BY <1>3, <2>1 DEF SigInv, SigFate, Signal!SignalsStop
<1>. QED
  BY <1>2, <1>4

-----------------------------------------------------------------------------
(* The whole module.                                                       *)

\* Whatever program runs, the one about commands and the one about signals
\* keep their accounts.
THEOREM ProgramsInvariant == Spec => [](ProcInv /\ SigInv)
<1>1. Init => ProcInv /\ SigInv
  BY ProcInit, SigInit DEF Init
<1>2. ProcInv /\ SigInv /\ [Next]_vars => ProcInv' /\ SigInv'
  <2>1. ASSUME ProcInv, SigInv, Next PROVE ProcInv' /\ SigInv'
    BY <2>1, ProcNext, ProcUnchanged, SigNext, SigUnchanged DEF Next
  <2>2. ASSUME ProcInv, SigInv, UNCHANGED vars PROVE ProcInv' /\ SigInv'
    BY <2>2, ProcUnchanged, SigUnchanged DEF vars
  <2>. QED
    BY <2>1, <2>2
<1>. QED
  BY <1>1, <1>2, PTL DEF Spec

\* While its receiver lives, a realtime signal is handled as often as it was
\* queued and in that order, and a standard one at least once; nothing is
\* handled in the blocked section; only a signal that comes before its handler
\* kills; and a loop that was told to stop ignores at most one input
\* (process_signal.cpp:429-503, realtime_signal.cpp:368-374).
THEOREM SignalsKept == Spec => []SignalsHandled
<1>1. SigInv => SignalsHandled
  BY SigPromises DEF SignalsHandled
<1>. QED
  BY <1>1, ProgramsInvariant, PTL

\* popen's list stops at the first command that fails and its program exits
\* with 0, or tells the signal that killed the command, with the core bit, or
\* 255 where pclose failed; system's list goes on to its end, and a forked
\* server leaves no accepted connection open but the one whose fork failed (process_create_fork_exec_system_popen.cpp:13-46, 448-559).
THEOREM ListStops == Spec => []FailuresStopTheList
<1>1. ProcInv => FailuresStopTheList
  BY ProcStops DEF FailuresStopTheList
<1>. QED
  BY <1>1, ProgramsInvariant, PTL
=============================================================================
