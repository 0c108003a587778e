--------------------------- MODULE MqNotify_proofs ---------------------------
(***************************************************************************)
(* The safety properties of MqNotify, proved for any capacity of the queue *)
(* and any number of sends, for all four programs.                         *)
(*                                                                         *)
(* The one notification goes from hand to hand; that the hand it comes     *)
(* from held it rests on what each program's place means: a flag that is   *)
(* reset was set, a byte that is read was written, and sigwait's program   *)
(* blocks the signal for good once it has left its first two places.       *)
(***************************************************************************)
EXTENDS MqNotify, FiniteSetTheorems, TLAPS

About == {"register", "renotify"}
Registering == {a \in Actors : pc[a] \in About}
Places == {"register", "unborn", "block", "test", "suspend", "reset", "renotify",
           "drain", "unblock", "sigwait", "select", "read", "pause", "done"}

\* The type invariant, without what it says of the bytes and the messages.
Typed ==
    /\ program \in Programs /\ queued \in 0 .. MaxMsg
    /\ {registered, pending, blocked, mqFlag, dead, early} \subseteq BOOLEAN
    /\ pipe \in Nat /\ pc \in [Actors -> Places]
    /\ sent \in 0 .. SendsNum /\ sender \in {"sending", "exited"}

\* Every message sent is queued, was received or ended the sender.
Accounted ==
    /\ received \in 0 .. SendsNum
    /\ sent = queued + received + Count(sender = "exited")

\* What the places of the four programs mean.
PlacesMean ==
    /\ program = "sigwait" => pipe = 0
    /\ program = "thread" => ~pending
    /\ pc[Process] = "reset" => mqFlag
    /\ pc[Process] = "read" => pipe > 0
    /\ pc[Process] = "unblock" => program = "signal"
    /\ program = "sigwait" /\ ~blocked => pc[Process] \in {"register", "block"}

IInv ==
    /\ Typed
    /\ PlacesMean
    /\ OneNotification
    /\ NoMessageStranded

Tokens == Count(registered) + Count(pending) + Count(mqFlag) + pipe + Cardinality(Registering)

-----------------------------------------------------------------------------
(* Counting the threads that are about to register.                        *)

\* They are finitely many.
LEMMA FiniteRegistering == IsFiniteSet(Registering) /\ Cardinality(Registering) \in Nat
<1>1. IsFiniteSet(Handlers)
  BY MqNotifyAssumption, FS_Interval DEF Handlers
<1>2. IsFiniteSet(Actors)
  BY <1>1, FS_AddElement DEF Actors
<1>. QED
  BY <1>2, FS_Subset, FS_CardinalityType DEF Registering

\* A thread that is about to register is at least one.
LEMMA RegisteringOne ==
    ASSUME NEW a \in Actors, pc[a] \in About
    PROVE  Cardinality(Registering) >= 1
<1>1. a \in Registering
  BY DEF Registering
<1>2. Cardinality(Registering) # 0
  BY <1>1, FiniteRegistering, FS_EmptySet
<1>. QED
  BY <1>2, FiniteRegistering

\* How a move of one thread changes their number.
LEMMA RegisteringMoves ==
    ASSUME NEW a \in Actors, NEW x, Typed, pc' = [pc EXCEPT ![a] = x]
    PROVE  /\ (pc[a] \in About <=> x \in About) =>
                  Cardinality(Registering)' = Cardinality(Registering)
           /\ pc[a] \notin About /\ x \in About =>
                  Cardinality(Registering)' = Cardinality(Registering) + 1
           /\ pc[a] \in About /\ x \notin About =>
                  Cardinality(Registering)' = Cardinality(Registering) - 1
<1>1. \A b \in Actors : pc'[b] = IF b = a THEN x ELSE pc[b]
  BY DEF Typed
<1>2. CASE pc[a] \in About <=> x \in About
  <2>1. Registering' = Registering
    BY <1>1, <1>2 DEF Registering
  <2>. QED
    BY <1>2, <2>1
<1>3. CASE pc[a] \notin About /\ x \in About
  <2>1. Registering' = Registering \cup {a} /\ a \notin Registering
    BY <1>1, <1>3 DEF Registering
  <2>. QED
    BY <1>3, <2>1, FiniteRegistering, FS_AddElement
<1>4. CASE pc[a] \in About /\ x \notin About
  <2>1. Registering' = Registering \ {a} /\ a \in Registering
    BY <1>1, <1>4 DEF Registering
  <2>. QED
    BY <1>4, <2>1, FiniteRegistering, FS_RemoveElement
<1>. QED
  BY <1>2, <1>3, <1>4

\* In the terms of the tokens.
LEMMA OneToken ==
    /\ OneNotification <=>
         (IF dead THEN program = "sigwait" /\ pc[Process] = "block" ELSE Tokens = 1)
    /\ OneNotification' <=>
         (IF dead' THEN program' = "sigwait" /\ pc'[Process] = "block" ELSE Tokens' = 1)
BY DEF OneNotification, Tokens, Registering, About

\* The type invariant from its parts.
LEMMA TypeParts ==
    /\ /\ program \in Programs /\ queued \in 0 .. MaxMsg
       /\ registered \in BOOLEAN /\ pending \in BOOLEAN /\ blocked \in BOOLEAN
       /\ mqFlag \in BOOLEAN /\ dead \in BOOLEAN /\ early \in BOOLEAN
       /\ pipe \in Nat /\ pc \in [Actors -> Places]
       /\ sent \in 0 .. SendsNum /\ sender \in {"sending", "exited"}
       <=> Typed
    /\ /\ program' \in Programs /\ queued' \in 0 .. MaxMsg
       /\ registered' \in BOOLEAN /\ pending' \in BOOLEAN /\ blocked' \in BOOLEAN
       /\ mqFlag' \in BOOLEAN /\ dead' \in BOOLEAN /\ early' \in BOOLEAN
       /\ pipe' \in Nat /\ pc' \in [Actors -> Places]
       /\ sent' \in 0 .. SendsNum /\ sender' \in {"sending", "exited"}
       <=> Typed'
<1>. DEFINE Six(r, p, b, m, d, e) ==
         r \in BOOLEAN /\ p \in BOOLEAN /\ b \in BOOLEAN /\ m \in BOOLEAN
           /\ d \in BOOLEAN /\ e \in BOOLEAN
<1>1. Six(registered, pending, blocked, mqFlag, dead, early)
        <=> {registered, pending, blocked, mqFlag, dead, early} \subseteq BOOLEAN
  BY Zenon
<1>2. Six(registered', pending', blocked', mqFlag', dead', early')
        <=> {registered', pending', blocked', mqFlag', dead', early'} \subseteq BOOLEAN
  BY Zenon
<1>. QED
  BY <1>1, <1>2, Zenon DEF Typed, Places

-----------------------------------------------------------------------------
(* The invariant.                                                          *)

\* It holds initially.
LEMMA InitIInv == Init => IInv
<1>. SUFFICES ASSUME Init PROVE IInv
  OBVIOUS
<1>1. \A a \in Actors : pc[a] = IF a = Process THEN "register" ELSE "unborn"
  BY DEF Init
<1>2. Process \in Actors
  BY DEF Actors
<1>3. Registering = {Process}
  BY <1>1, <1>2 DEF Registering, About
<1>4. Cardinality(Registering) = 1
  BY <1>3, FS_Singleton
<1>5. Typed
  <2>1. 0 \in 0 .. MaxMsg /\ 0 \in 0 .. SendsNum /\ 0 \in Nat /\ FALSE \in BOOLEAN
    BY MqNotifyAssumption
  <2>2. pc \in [Actors -> Places]
    BY DEF Init, Places
  <2>. QED
    BY <2>1, <2>2, TypeParts, Zenon DEF Init
<1>6. OneNotification
  BY <1>4, OneToken DEF Init, Tokens, Count
<1>7. PlacesMean
  BY <1>1, <1>2 DEF Init, PlacesMean
<1>. QED
  BY <1>5, <1>6, <1>7 DEF Init, IInv, NoMessageStranded

\* What the type invariant says of the variables the steps compute with.
LEMMA Types ==
    ASSUME Typed
    PROVE  /\ registered \in BOOLEAN /\ pending \in BOOLEAN /\ blocked \in BOOLEAN
           /\ mqFlag \in BOOLEAN /\ dead \in BOOLEAN /\ early \in BOOLEAN
           /\ queued \in 0 .. MaxMsg /\ MaxMsg \in Nat \ {0} /\ pipe \in Nat
           /\ sent \in 0 .. SendsNum /\ SendsNum \in Nat /\ Process \in Actors
           /\ Handlers \subseteq Actors
BY MqNotifyAssumption DEF Typed, Actors

\* A message is sent.
LEMMA SendIInv == IInv /\ Send => IInv'
<1>. SUFFICES ASSUME IInv, Send PROVE IInv'
  OBVIOUS
<1>1. /\ UNCHANGED <<program, blocked, mqFlag, pipe, dead, early>>
      /\ sent' = sent + 1 /\ sent < SendsNum /\ sender' \in {"sending", "exited"}
      /\ queued' \in {queued, queued + 1} /\ queued' \in 0 .. MaxMsg
  BY Types DEF IInv, Typed, Send
<1>2. /\ program' \in Programs /\ queued' \in 0 .. MaxMsg /\ blocked' \in BOOLEAN
      /\ mqFlag' \in BOOLEAN /\ dead' \in BOOLEAN /\ early' \in BOOLEAN
      /\ pipe' \in Nat /\ sent' \in 0 .. SendsNum /\ sender' \in {"sending", "exited"}
      /\ FALSE \in BOOLEAN
  BY <1>1, TypeParts, Types DEF IInv
<1>3. CASE UNCHANGED <<registered, pending, pc>>
  <2>1. Typed'
    BY <1>1, <1>3, Types DEF IInv, Typed
  <2>2. PlacesMean' /\ OneNotification'
    BY <1>1, <1>3 DEF IInv, PlacesMean, OneNotification
  <2>3. NoMessageStranded'
    <3>1. queued = 0 => ~registered \/ dead \/ queued' = 0
      BY <1>3, Types DEF Send, Notification, IInv
    <3>. QED
      BY <1>1, <1>3, <3>1, Types DEF IInv, NoMessageStranded
  <2>. QED
    BY <2>1, <2>2, <2>3 DEF IInv
<1>4. CASE registered /\ ~dead /\ Notification
  <2>1. registered' = FALSE /\ Tokens = 1
    BY <1>4, OneToken DEF IInv, Notification
  <2>2. NoMessageStranded'
    BY <2>1 DEF NoMessageStranded
  <2>3. CASE program = "thread"
    <3>1. PICK h \in Handlers : pc[h] = "unborn" /\ pc' = [pc EXCEPT ![h] = "renotify"]
      BY <1>4, <2>3 DEF Notification, Goto
    <3>2. UNCHANGED pending /\ h \in Actors /\ h # Process
      BY <1>4, <2>3, Types DEF IInv, Notification, Handlers, Process
    <3>3. Cardinality(Registering)' = Cardinality(Registering) + 1
      BY <3>1, <3>2, RegisteringMoves DEF IInv, About
    <3>4. Tokens' = 1
      BY <1>1, <1>4, <2>1, <3>2, <3>3, Types, FiniteRegistering DEF IInv, Tokens, Count
    <3>5. Typed'
      <4>1. pc' \in [Actors -> Places]
        BY <3>1, TypeParts DEF IInv, Places
      <4>. QED
        BY <1>2, <2>1, <3>2, <4>1, TypeParts, Zenon DEF IInv
    <3>6. PlacesMean'
      BY <1>1, <3>1, <3>2, Types DEF IInv, Typed, PlacesMean
    <3>. QED
      BY <1>1, <1>4, <2>2, <3>4, <3>5, <3>6, OneToken DEF IInv
  <2>4. CASE program # "thread"
    <3>1. pending' = TRUE /\ UNCHANGED pc
      BY <1>4, <2>4 DEF Notification
    <3>2. ~pending /\ Tokens' = 1
      <4>1. Registering' = Registering
        BY <3>1 DEF Registering
      <4>. QED
        BY <1>1, <1>4, <2>1, <3>1, <4>1, Types, FiniteRegistering DEF IInv, Tokens, Count
    <3>3. Typed'
      <4>1. pending' \in BOOLEAN /\ pc' \in [Actors -> Places]
        BY <3>1, TypeParts DEF IInv
      <4>. QED
        BY <1>2, <2>1, <4>1, TypeParts, Zenon DEF IInv
    <3>4. PlacesMean'
      BY <1>1, <2>4, <3>1 DEF IInv, PlacesMean
    <3>. QED
      BY <1>1, <1>4, <2>2, <3>2, <3>3, <3>4, OneToken DEF IInv
  <2>. QED
    BY <2>3, <2>4
<1>. QED
  BY <1>3, <1>4 DEF Send

\* A thread registers.
LEMMA NotifyIInv ==
    ASSUME IInv, ~dead, NEW a \in Actors, NEW then, pc[a] \in About, Notify(a, then),
           early' \in BOOLEAN, then \notin About,
           then \in {"block", "select", "pause", "drain"}, then = "drain" \/ a = Process,
           ~early' => queued = 0 \/ then = "drain",
           a = Process /\ program = "sigwait" /\ ~blocked => then = "block"
    PROVE  IInv'
<1>1. /\ registered' = TRUE /\ dead' = registered /\ pc' = [pc EXCEPT ![a] = then]
      /\ UNCHANGED <<program, queued, pending, blocked, mqFlag, pipe, sent, sender>>
  BY DEF Notify, Goto
<1>2. Cardinality(Registering)' = Cardinality(Registering) - 1
  BY <1>1, RegisteringMoves DEF IInv
<1>3. Tokens = 1 /\ Cardinality(Registering) >= 1
  BY OneToken, RegisteringOne DEF IInv
<1>4. ~registered /\ Tokens' = 1
  BY <1>1, <1>2, <1>3, Types, FiniteRegistering DEF IInv, Tokens, Count
<1>5. OneNotification'
  BY <1>1, <1>4, OneToken
<1>6. Typed'
  BY <1>1, <1>4, Types DEF IInv, Typed, Places
<1>7. PlacesMean'
  BY <1>1, Types DEF IInv, Typed, PlacesMean
<1>8. NoMessageStranded'
  BY <1>1, Types DEF IInv, Typed, NoMessageStranded
<1>. QED
  BY <1>5, <1>6, <1>7, <1>8 DEF IInv

\* The first registration, and those before a drain.
LEMMA RegisterIInv ==
    ASSUME IInv, ~dead, NEW a \in Actors, Register \/ Renotify(a)
    PROVE  IInv'
<1>1. CASE Register
  <2>. DEFINE then == CASE program \in {"signal", "sigwait"} -> "block"
                        [] program = "select" -> "select"
                        [] program = "thread" -> "pause"
  <2>1. /\ pc[Process] \in About /\ Notify(Process, then) /\ early' = (queued > 0)
        /\ program \in AllPrograms
    BY <1>1, MqNotifyAssumption DEF Register, About, IInv, Typed
  <2>2. /\ then \in {"block", "select", "pause", "drain"} /\ then \notin About
        /\ program = "sigwait" => then = "block"
    BY <2>1 DEF AllPrograms, About
  <2>3. early' \in BOOLEAN /\ (~early' => queued = 0)
    <3>1. early' \in BOOLEAN
      BY <2>1, SMT
    <3>2. ~early' => ~(queued > 0)
      BY <2>1, Zenon
    <3>. QED
      BY <3>1, <3>2, Types DEF IInv
  <2>. HIDE DEF then
  <2>. QED
    BY <2>1, <2>2, <2>3, Types, NotifyIInv DEF IInv
<1>2. CASE Renotify(a)
  <2>1. pc[a] = "renotify" /\ Notify(a, "drain") /\ UNCHANGED early
    BY <1>2 DEF Renotify
  <2>2. a = Process => ~(program = "sigwait" /\ ~blocked)
    BY <2>1 DEF IInv, PlacesMean
  <2>. QED
    BY <2>1, <2>2, Types, NotifyIInv DEF IInv, About
<1>. QED
  BY <1>1, <1>2

\* A drain goes on or ends.
LEMMA DrainIInv ==
    ASSUME IInv, ~dead, NEW a \in Actors, Receive(a) \/ ReceiveNone(a)
    PROVE  IInv'
<1>1. /\ UNCHANGED <<program, registered, pending, blocked, mqFlag, pipe, dead,
                     sent, sender, early>>
      /\ pc[a] = "drain" /\ queued' \in 0 .. MaxMsg
  BY Types DEF IInv, Receive, ReceiveNone
<1>2. CASE Receive(a)
  <2>1. UNCHANGED pc
    BY <1>2 DEF Receive
  <2>2. NoMessageStranded'
    BY <1>1, <2>1 DEF NoMessageStranded
  <2>. QED
    BY <1>1, <2>1, <2>2, Types DEF IInv, Typed, PlacesMean, OneNotification
<1>3. CASE ReceiveNone(a)
  <2>. DEFINE there == CASE program = "signal" -> "unblock"
                         [] program = "sigwait" -> "sigwait"
                         [] program = "select" -> "select"
                         [] program = "thread" -> "done"
  <2>1. pc' = [pc EXCEPT ![a] = there] /\ queued' = 0 /\ program \in AllPrograms
    BY <1>3, MqNotifyAssumption DEF ReceiveNone, Goto, IInv, Typed
  <2>2. /\ there \in {"unblock", "sigwait", "select", "done"} /\ there \notin About
        /\ there = "unblock" => program = "signal"
    BY <2>1 DEF AllPrograms, About
  <2>. HIDE DEF there
  <2>3. Cardinality(Registering)' = Cardinality(Registering)
    BY <1>1, <2>1, <2>2, RegisteringMoves DEF IInv, About
  <2>4. OneNotification'
    BY <1>1, <2>3, OneToken, Types DEF IInv, Tokens
  <2>5. Typed'
    BY <1>1, <2>1, <2>2, Types DEF IInv, Typed, Places
  <2>6. PlacesMean'
    BY <1>1, <2>1, <2>2, Types DEF IInv, Typed, PlacesMean
  <2>. QED
    BY <2>1, <2>4, <2>5, <2>6, Types DEF IInv, NoMessageStranded
<1>. QED
  BY <1>2, <1>3

\* The signal is delivered.
LEMMA HandleIInv == IInv /\ ~dead /\ HandleSignal => IInv'
<1>. SUFFICES ASSUME IInv, ~dead, HandleSignal PROVE IInv'
  OBVIOUS
<1>1. /\ pending /\ ~blocked /\ pending' = FALSE
      /\ mqFlag' = (mqFlag \/ program = "signal")
      /\ pipe' = IF program = "select" THEN pipe + 1 ELSE pipe
      /\ dead' = (program = "sigwait")
      /\ UNCHANGED <<program, queued, registered, blocked, pc, sent, sender, early>>
  BY DEF HandleSignal
<1>2. Registering' = Registering /\ Tokens = 1
  BY <1>1, OneToken DEF IInv, Registering
<1>3. ~mqFlag /\ pipe = 0 /\ Cardinality(Registering) = 0 /\ ~registered
  BY <1>1, <1>2, Types, FiniteRegistering DEF IInv, Tokens, Count
<1>4. program \in {"signal", "sigwait", "select"}
  BY <1>1, MqNotifyAssumption DEF IInv, Typed, PlacesMean, AllPrograms
<1>5. CASE program = "sigwait"
  <2>1. pc[Process] # "register"
    BY <1>3, RegisteringOne, Types DEF IInv, About
  <2>2. pc[Process] = "block"
    BY <1>1, <1>5, <2>1 DEF IInv, PlacesMean
  <2>. QED
    BY <1>1, <1>5, <2>2, Types DEF IInv, Typed, PlacesMean, OneNotification, NoMessageStranded
<1>6. CASE program # "sigwait"
  <2>1. \/ mqFlag' = TRUE /\ pipe' = 0
        \/ mqFlag' = FALSE /\ pipe' = 1
    <3>1. CASE program = "signal"
      <4>1. mqFlag' = TRUE
        BY <1>1, <3>1, Zenon
      <4>. QED
        BY <1>1, <1>3, <3>1, <4>1
    <3>2. CASE program = "select"
      <4>1. mqFlag' = FALSE
        <5>1. ~mqFlag /\ program # "signal" /\ mqFlag' = (mqFlag \/ program = "signal")
          BY <1>1, <1>3, <3>2
        <5>. QED
          BY <5>1, Zenon
      <4>. QED
        BY <1>1, <1>3, <3>2, <4>1
    <3>. QED
      BY <1>4, <1>6, <3>1, <3>2
  <2>2. Tokens' = 1
    BY <1>1, <1>2, <1>3, <2>1 DEF Tokens, Count
  <2>3. Typed'
    <3>1. /\ program' \in Programs /\ queued' \in 0 .. MaxMsg /\ registered' \in BOOLEAN
          /\ blocked' \in BOOLEAN /\ early' \in BOOLEAN /\ pc' \in [Actors -> Places]
          /\ sent' \in 0 .. SendsNum /\ sender' \in {"sending", "exited"}
      BY <1>1, TypeParts, Zenon DEF IInv
    <3>2. pending' \in BOOLEAN /\ mqFlag' \in BOOLEAN
      BY <1>1, <2>1, Zenon
    <3>4. pipe' \in Nat
      BY <2>1
    <3>3. dead' \in BOOLEAN
      BY <1>1, <1>6
    <3>. QED
      BY <3>1, <3>2, <3>3, <3>4, TypeParts, Zenon
  <2>4. PlacesMean'
    BY <1>1, <1>3, <1>6, Types DEF IInv, PlacesMean
  <2>5. NoMessageStranded'
    BY <1>1, <1>3 DEF NoMessageStranded
  <2>. QED
    BY <1>1, <1>6, <2>2, <2>3, <2>4, <2>5, OneToken DEF IInv
<1>. QED
  BY <1>5, <1>6

\* The steps of the initial thread that hand the notification on.
LEMMA HandOnIInv ==
    ASSUME IInv, ~dead, Suspend \/ ResetFlag \/ Sigwait \/ ReadPipe
    PROVE  IInv'
<1>1. UNCHANGED <<program, queued, registered, blocked, dead, sent, sender, early>>
  BY DEF Suspend, ResetFlag, Sigwait, ReadPipe
<1>2. Tokens = 1
  BY OneToken DEF IInv
<1>. DEFINE there == IF Suspend THEN "test" ELSE "renotify"
<1>3. pc' = [pc EXCEPT ![Process] = there] /\ pc[Process] \in {"suspend", "reset", "sigwait", "read"}
  BY DEF Suspend, ResetFlag, Sigwait, ReadPipe, Goto
<1>4. there \in {"test", "renotify"}
  OBVIOUS
<1>5. Typed' /\ NoMessageStranded'
  <2>1. pending' \in BOOLEAN /\ mqFlag' \in BOOLEAN /\ pipe' \in Nat
    <3>1. CASE Suspend
      BY <3>1, Types DEF IInv, Suspend
    <3>2. CASE ResetFlag
      BY <3>2, Types DEF IInv, ResetFlag
    <3>3. CASE Sigwait
      BY <3>3, Types DEF IInv, Sigwait
    <3>4. CASE ReadPipe
      BY <3>4, Types DEF IInv, PlacesMean, ReadPipe
    <3>. QED
      BY <3>1, <3>2, <3>3, <3>4
  <2>. HIDE DEF there
  <2>2. Typed'
    <3>1. pc' \in [Actors -> Places]
      BY <1>3, <1>4, TypeParts, Types DEF IInv, Places
    <3>. QED
      BY <1>1, <2>1, <3>1, TypeParts, Zenon DEF IInv
  <2>3. NoMessageStranded'
    BY <1>1, <1>3, <1>4, Types DEF IInv, Typed, NoMessageStranded
  <2>. QED
    BY <2>2, <2>3
<1>6. PlacesMean'
  <2>1. pending' => pending
    BY Types DEF IInv, Suspend, ResetFlag, Sigwait, ReadPipe
  <2>2. pc'[Process] \in {"test", "renotify"}
    BY <1>3, <1>4, Types DEF IInv, Typed
  <2>3. ~(program = "sigwait" /\ ~blocked)
    BY <1>3 DEF IInv, PlacesMean
  <2>4. program # "sigwait" \/ pipe' = pipe
    BY DEF IInv, PlacesMean, Suspend, ResetFlag, Sigwait, ReadPipe
  <2>. QED
    BY <1>1, <2>1, <2>2, <2>3, <2>4 DEF IInv, PlacesMean
<1>7. Tokens' = 1
  <2>1. CASE Suspend
    <3>1. pending /\ pending' = FALSE /\ mqFlag' = TRUE /\ UNCHANGED <<registered, pipe>>
      BY <2>1 DEF Suspend
    <3>2. Cardinality(Registering)' = Cardinality(Registering)
      <4>1. pc[Process] \notin About /\ there \notin About
        BY <1>3, <2>1 DEF About
      <4>. HIDE DEF there
      <4>. QED
        BY <1>3, <4>1, RegisteringMoves, Types DEF IInv
    <3>. QED
      BY <1>2, <3>1, <3>2, Types, FiniteRegistering DEF IInv, Tokens, Count
  <2>2. CASE ~Suspend
    <3>1. Cardinality(Registering)' = Cardinality(Registering) + 1
      BY <1>3, <2>2, RegisteringMoves, Types DEF IInv, About
    <3>2. CASE ResetFlag
      <4>1. mqFlag /\ mqFlag' = FALSE /\ UNCHANGED <<registered, pending, pipe>>
        BY <3>2 DEF ResetFlag, IInv, PlacesMean
      <4>. QED
        BY <1>2, <3>1, <4>1, Types, FiniteRegistering DEF IInv, Tokens, Count
    <3>3. CASE Sigwait
      <4>1. pending /\ pending' = FALSE /\ UNCHANGED <<registered, mqFlag, pipe>>
        BY <3>3 DEF Sigwait
      <4>. QED
        BY <1>2, <3>1, <4>1, Types, FiniteRegistering DEF IInv, Tokens, Count
    <3>4. CASE ReadPipe
      <4>1. pipe' = pipe - 1 /\ UNCHANGED <<registered, pending, mqFlag>>
        BY <3>4 DEF ReadPipe
      <4>. QED
        BY <1>2, <3>1, <4>1, Types, FiniteRegistering DEF IInv, Tokens, Count
    <3>. QED
      BY <2>2, <3>2, <3>3, <3>4
  <2>. QED
    BY <2>1, <2>2
<1>. QED
  BY <1>1, <1>5, <1>6, <1>7, OneToken DEF IInv

\* The steps of the initial thread that only move it or its signal mask.
LEMMA MoveIInv ==
    ASSUME IInv, ~dead, Block \/ TestFlag \/ Unblock \/ Select
    PROVE  IInv'
<1>1. UNCHANGED <<program, queued, registered, pending, mqFlag, pipe, dead, sent, sender, early>>
  BY DEF Block, TestFlag, Unblock, Select
<1>2. PICK there \in {"test", "sigwait", "reset", "suspend", "block", "read"} :
           pc' = [pc EXCEPT ![Process] = there]
  BY DEF Block, TestFlag, Unblock, Select, Goto
<1>3. pc[Process] \notin About /\ pc[Process] # "drain" /\ there \notin About /\ there # "drain"
  BY <1>2 DEF Block, TestFlag, Unblock, Select, About
<1>4. Cardinality(Registering)' = Cardinality(Registering)
  BY <1>2, <1>3, RegisteringMoves, Types DEF IInv
<1>5. OneNotification'
  BY <1>1, <1>4, OneToken DEF IInv, Tokens
<1>6. Typed'
  <2>1. blocked' \in BOOLEAN
    BY Types DEF IInv, Block, TestFlag, Unblock, Select
  <2>. QED
    BY <1>1, <1>2, <2>1, Types DEF IInv, Typed, Places
<1>7. NoMessageStranded'
  BY <1>1, <1>2, <1>3, Types DEF IInv, Typed, NoMessageStranded
<1>8. PlacesMean'
  BY <1>1, Types DEF IInv, Typed, PlacesMean, Block, TestFlag, Unblock, Select, Goto
<1>. QED
  BY <1>5, <1>6, <1>7, <1>8 DEF IInv

\* Every step preserves the invariant.
LEMMA NextIInv == IInv /\ [Next]_vars => IInv'
<1>. SUFFICES ASSUME IInv, [Next]_vars PROVE IInv'
  OBVIOUS
<1>1. CASE Send
  BY <1>1, SendIInv
<1>2. CASE Consumer
  BY <1>2, Types, RegisterIInv, DrainIInv, HandleIInv, HandOnIInv, MoveIInv
  DEF IInv, Consumer, Main, Thread
<1>3. CASE UNCHANGED vars
  BY <1>3 DEF vars, IInv, Typed, PlacesMean, OneNotification, NoMessageStranded
<1>. QED
  BY <1>1, <1>2, <1>3 DEF Next

LEMMA Invariant == Spec => []IInv
BY InitIInv, NextIInv, PTL DEF Spec

\* No step loses count of the messages.
LEMMA NextAccounted == IInv /\ Accounted /\ [Next]_vars => Accounted'
<1>. SUFFICES ASSUME IInv, Accounted, [Next]_vars PROVE Accounted'
  OBVIOUS
<1>1. /\ queued \in Nat /\ received \in Nat /\ sent \in 0 .. SendsNum /\ SendsNum \in Nat
      /\ sent = queued + received + Count(sender = "exited")
  BY Types, MqNotifyAssumption DEF IInv, Accounted
<1>2. CASE Send
  BY <1>1, <1>2, MqNotifyAssumption DEF Send, Accounted, Count
<1>3. CASE \E a \in Actors : Receive(a)
  <2>1. /\ queued > 0 /\ queued' = queued - 1 /\ received' = received + 1
        /\ sent' = sent /\ sender' = sender
    BY <1>3 DEF Receive
  <2>. QED
    BY <1>1, <2>1 DEF Accounted, Count
<1>4. CASE UNCHANGED <<sent, queued, received, sender>>
  BY <1>4 DEF Accounted, Count
<1>5. Next => Send \/ (\E a \in Actors : Receive(a)) \/ UNCHANGED <<sent, queued, received, sender>>
  BY Types DEF IInv, Next, Consumer, Main, Thread, HandleSignal, Register, Renotify, Notify, ReceiveNone,
     Block, TestFlag, Suspend, ResetFlag, Unblock, Sigwait, Select, ReadPipe
<1>. QED
  BY <1>2, <1>3, <1>4, <1>5 DEF vars

LEMMA AllAccounted == Spec => []Accounted
<1>1. Init => Accounted
  BY MqNotifyAssumption DEF Init, Accounted, Count
<1>. QED
  BY <1>1, Invariant, NextAccounted, PTL DEF Spec

-----------------------------------------------------------------------------
(* mqueue_test.cpp:402-785: the queue never holds more than mq_maxmsg, the   *)
(* pipe never more than one byte, and the sender gives up with the first     *)
(* message that finds the queue full, not before and not after it.           *)
THEOREM MqTypeCorrect == Spec => []TypeOK
<1>1. IInv /\ Accounted => TypeOK
  <2>. SUFFICES ASSUME IInv, Accounted PROVE TypeOK
    OBVIOUS
  <2>1. pipe \in 0 .. 1
    <3>1. CASE dead
      BY <3>1, MqNotifyAssumption DEF IInv, OneNotification, PlacesMean
    <3>2. CASE ~dead
      BY <3>2, OneToken, FiniteRegistering, Types DEF IInv, Tokens, Count
    <3>. QED
      BY <3>1, <3>2
  <2>. QED
    BY <2>1, Zenon DEF IInv, Typed, Accounted, TypeOK, Places
<1>. QED
  BY <1>1, Invariant, AllAccounted, PTL

(* mqueue_test.cpp:450-785: the notification is never lost or doubled, and  *)
(* no program fails to register or is killed, but for sigwait's.            *)
THEOREM NotifiedOnce == Spec => []OneNotification
<1>1. IInv => OneNotification
  BY DEF IInv
<1>. QED
  BY <1>1, Invariant, PTL

(* mqueue_test.cpp:507-513: as each program registers before it drains, no  *)
(* message waits with the registration in place but nobody draining.        *)
THEOREM NothingStranded == Spec => []NoMessageStranded
<1>1. IInv => NoMessageStranded
  BY DEF IInv
<1>. QED
  BY <1>1, Invariant, PTL
=============================================================================
