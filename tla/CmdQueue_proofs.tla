--------------------------- MODULE CmdQueue_proofs ---------------------------
(***************************************************************************)
(* Proofs about CmdQueue, for every set of commands, every delay and any   *)
(* number of commands.                                                     *)
(***************************************************************************)
EXTENDS CmdQueue, SequenceTheorems, TLAPS

-----------------------------------------------------------------------------
(* The inductive invariant *)

\* A command waits only if a timer will pick it up: sendCmd calls emptyCmdQueue
\* only when there is no timer.
NeverStuck == running /\ queueTimer = Undefined => cmdQueue = <<>>

\* Until the socket closes no command is lost, repeated or reordered.
Accounted == ws # "closed" /\ running => issued = wire \o cmdQueue

\* The time left on the timer and the time since the last send add up to Period
\* at least; without a timer the last send is Period ago.
Spaced ==
  running => IF queueTimer = Undefined THEN quiet = Period ELSE queueTimer + quiet >= Period

QInv == TypeOK /\ NeverStuck /\ Accounted /\ Spaced

\* The constructor's empty queue satisfies the invariant.
LEMMA InitQInv == Init => QInv
<1> SUFFICES ASSUME Init PROVE QInv
  OBVIOUS
<1>1. /\ cmdQueue = <<>> /\ issued = <<>> /\ wire = <<>> /\ quiet = Period
      /\ queueTimer = Undefined /\ ws = "connecting" /\ running = TRUE
  BY DEF Init
<1>2. <<>> \in Seq(Cmds)
  BY EmptySeq
<1>3. <<>> \o <<>> = <<>>
  BY <1>2, ConcatEmptySeq
<1>4. TypeOK
  BY <1>1, <1>2, QueueAssumption DEF TypeOK, Undefined
<1>5. NeverStuck /\ Accounted /\ Spaced
  BY <1>1, <1>3 DEF NeverStuck, Accounted, Spaced
<1>6. QED
  BY <1>4, <1>5 DEF QInv

\* Pushing a command and shifting one off keep the concatenation.
LEMMA Push ==
  ASSUME NEW w \in Seq(Cmds), NEW q \in Seq(Cmds), NEW c \in Cmds
  PROVE  Append(w \o q, c) = w \o Append(q, c)
<1>1. Append(w \o q, c) = (w \o q) \o <<c>>
  BY ConcatProperties, AppendIsConcat
<1>2. Append(q, c) = q \o <<c>>
  BY AppendIsConcat
<1>3. <<c>> \in Seq(Cmds)
  OBVIOUS
<1>4. QED
  BY <1>1, <1>2, <1>3, ConcatAssociative

\* Moving the first queued command to the wire (shift, then send) keeps what was
\* issued.
LEMMA Shift ==
  ASSUME NEW w \in Seq(Cmds), NEW q \in Seq(Cmds), q # <<>>
  PROVE  /\ Append(w, Head(q)) \o Tail(q) = w \o q
         /\ Append(w, Head(q)) \in Seq(Cmds)
         /\ Tail(q) \in Seq(Cmds)
         /\ (w \o q)[Len(w) + 1] = Head(q)
         /\ Len(w) < Len(w \o q)
<1>1. Head(q) \in Cmds /\ Tail(q) \in Seq(Cmds) /\ Len(q) \in Nat \ {0}
  BY HeadTailProperties, EmptySeq
<1>2. <<Head(q)>> \in Seq(Cmds)
  BY <1>1
<1>3. q = <<Head(q)>> \o Tail(q)
  BY <1>1
<1>4. Append(w, Head(q)) = w \o <<Head(q)>> /\ Append(w, Head(q)) \in Seq(Cmds)
  BY <1>1, AppendIsConcat
<1>5. Append(w, Head(q)) \o Tail(q) = w \o q
  BY <1>1, <1>2, <1>3, <1>4, ConcatAssociative
<1>6. (w \o q)[Len(w) + 1] = q[1] /\ Len(w) < Len(w \o q)
  BY <1>1, ConcatProperties, LenProperties
<1>7. QED
  BY <1>1, <1>4, <1>5, <1>6

-----------------------------------------------------------------------------
(* The steps *)

\* emptyCmdQueue keeps the invariant: queue is the content of the array when it
\* is called, all the commands issued so far being on the wire or in it, and no
\* send being more recent than Period.
LEMMA EmptyCmdQueueStep ==
  ASSUME QInv, running, NEW queue \in Seq(Cmds), EmptyCmdQueue(queue),
         ws' = ws, issued' \in Seq(Cmds),
         ws # "closed" => issued' = wire \o queue,
         quiet = Period
  PROVE  QInv'
<1>1. /\ wire \in Seq(Cmds) /\ quiet \in 0 .. Period /\ queueTimer \in -1 .. Period
      /\ Period \in Nat \ {0} /\ ws \in {"connecting", "open", "closed"}
  BY QueueAssumption DEF QInv, TypeOK, Undefined
<1>2. CASE queue = <<>>
  <2>1. /\ queueTimer' = -1 /\ cmdQueue' = queue
        /\ running' = running /\ wire' = wire /\ quiet' = quiet
    BY <1>2 DEF EmptyCmdQueue, Undefined
  <2>2. TypeOK'
    BY <1>1, <2>1 DEF TypeOK, Undefined
  <2>3. NeverStuck' /\ Accounted' /\ Spaced'
    BY <1>1, <1>2, <2>1 DEF NeverStuck, Accounted, Spaced, Undefined
  <2>4. QED
    BY <2>2, <2>3 DEF QInv
<1>3. CASE queue # <<>>
  <2>1. /\ cmdQueue' = Tail(queue)
        /\ running' = (ws # "connecting")
        /\ queueTimer' = IF ws # "connecting" THEN Period ELSE queueTimer
        /\ wire' = IF ws = "open" THEN Append(wire, Head(queue)) ELSE wire
        /\ quiet' = 0
    BY <1>3 DEF EmptyCmdQueue
  <2>2. /\ Append(wire, Head(queue)) \o Tail(queue) = wire \o queue
        /\ Append(wire, Head(queue)) \in Seq(Cmds)
        /\ Tail(queue) \in Seq(Cmds)
    BY <1>1, <1>3, Shift
  <2>3. TypeOK'
    <3>1. wire' \in Seq(Cmds) /\ cmdQueue' \in Seq(Cmds)
      BY <1>1, <2>1, <2>2
    <3>2. queueTimer' \in -1 .. Period /\ quiet' \in 0 .. Period
      BY <1>1, <2>1
    <3>3. running' \in BOOLEAN
      BY <2>1
    <3>4. QED
      BY <1>1, <3>1, <3>2, <3>3 DEF TypeOK, Undefined
  <2>4. CASE ws = "connecting"
    <3>1. ~running'
      BY <2>1, <2>4
    <3>2. QED
      BY <2>3, <3>1 DEF QInv, NeverStuck, Accounted, Spaced
  <2>5. CASE ws # "connecting"
    <3>1. queueTimer' = Period /\ quiet' = 0
      BY <2>1, <2>5
    <3>2. NeverStuck' /\ Spaced'
      BY <1>1, <3>1 DEF NeverStuck, Spaced, Undefined
    <3>3. Accounted'
      BY <1>1, <2>1, <2>2, <2>5 DEF Accounted
    <3>4. QED
      BY <2>3, <3>2, <3>3 DEF QInv
  <2>6. QED
    BY <2>4, <2>5
<1>4. QED
  BY <1>2, <1>3

\* sendCmd, the timer callback, the socket's events and the passing of time keep
\* the invariant.
LEMMA StepQInv == QInv /\ [Next]_vars => QInv'
<1> SUFFICES ASSUME QInv, [Next]_vars PROVE QInv'
  OBVIOUS
<1>1. /\ cmdQueue \in Seq(Cmds) /\ issued \in Seq(Cmds) /\ wire \in Seq(Cmds)
      /\ quiet \in 0 .. Period /\ queueTimer \in -1 .. Period
      /\ Period \in Nat \ {0}
  BY QueueAssumption DEF QInv, TypeOK, Undefined
<1>2. ASSUME NEW c \in Cmds, SendCmd(c)
      PROVE  QInv'
  <2>1. /\ running /\ issued' = Append(issued, c) /\ ws' = ws
        /\ issued' \in Seq(Cmds)
        /\ Append(cmdQueue, c) \in Seq(Cmds)
    BY <1>1, <1>2 DEF SendCmd
  <2>2. ws # "closed" => issued' = wire \o Append(cmdQueue, c)
    BY <1>1, <2>1, Push DEF QInv, Accounted
  <2>3. CASE queueTimer = Undefined
    <3>1. EmptyCmdQueue(Append(cmdQueue, c))
      BY <1>2, <2>3 DEF SendCmd
    <3>2. quiet = Period
      BY <2>1, <2>3 DEF QInv, Spaced
    <3>3. QED
      BY <2>1, <2>2, <3>1, <3>2, EmptyCmdQueueStep
  <2>4. CASE queueTimer # Undefined
    <3>1. /\ cmdQueue' = Append(cmdQueue, c)
          /\ UNCHANGED <<queueTimer, running, wire, quiet, ws>>
      BY <1>2, <2>4 DEF SendCmd
    <3>2. TypeOK'
      BY <2>1, <3>1 DEF QInv, TypeOK
    <3>3. NeverStuck' /\ Spaced'
      BY <2>4, <3>1 DEF QInv, NeverStuck, Spaced
    <3>4. Accounted'
      BY <2>2, <3>1 DEF Accounted
    <3>5. QED
      BY <3>2, <3>3, <3>4 DEF QInv
  <2>5. QED
    BY <2>3, <2>4
<1>3. CASE TimerFires
  <2>1. running /\ queueTimer = 0 /\ EmptyCmdQueue(cmdQueue) /\ ws' = ws /\ issued' = issued
    BY <1>3 DEF TimerFires
  <2>2. quiet = Period
    BY <1>1, <2>1 DEF QInv, Spaced, Undefined
  <2>3. ws # "closed" => issued' = wire \o cmdQueue
    BY <2>1 DEF QInv, Accounted
  <2>4. QED
    BY <1>1, <2>1, <2>2, <2>3, EmptyCmdQueueStep
<1>4. CASE Open \/ Close
  <2>1. /\ UNCHANGED <<cmdQueue, queueTimer, running, issued, wire, quiet>>
        /\ ws # "closed" /\ ws' \in {"open", "closed"}
    BY <1>4 DEF Open, Close
  <2>2. TypeOK'
    BY <2>1 DEF QInv, TypeOK
  <2>3. NeverStuck' /\ Accounted' /\ Spaced'
    BY <2>1 DEF QInv, NeverStuck, Accounted, Spaced
  <2>4. QED
    BY <2>2, <2>3 DEF QInv
<1>5. CASE Tick
  <2>1. /\ queueTimer' = IF queueTimer > 0 THEN queueTimer - 1 ELSE queueTimer
        /\ quiet' = IF quiet < Period THEN quiet + 1 ELSE quiet
        /\ UNCHANGED <<cmdQueue, ws, running, issued, wire>>
    BY <1>5 DEF Tick
  <2>2. TypeOK'
    <3>1. queueTimer' \in -1 .. Period /\ quiet' \in 0 .. Period
      BY <1>1, <2>1
    <3>2. QED
      BY <2>1, <3>1 DEF QInv, TypeOK, Undefined
  <2>3. NeverStuck'
    BY <1>1, <2>1 DEF QInv, NeverStuck, Undefined
  <2>4. Accounted'
    BY <2>1 DEF QInv, Accounted
  <2>5. Spaced'
    BY <1>1, <2>1 DEF QInv, Spaced, Undefined
  <2>6. QED
    BY <2>2, <2>3, <2>4, <2>5 DEF QInv
<1>6. CASE UNCHANGED vars
  BY <1>6 DEF vars, QInv, TypeOK, NeverStuck, Accounted, Spaced
<1>7. QED
  BY <1>2, <1>3, <1>4, <1>5, <1>6 DEF Next

-----------------------------------------------------------------------------
(* The theorems *)

\* Every reachable state of the queue satisfies the invariant.
THEOREM QueueInvariance == Spec => []QInv
<1>1. QED
  BY InitQInv, StepQInv, PTL DEF Spec

\* sendCmd and emptyCmdQueue keep every variable of the queue well formed.
THEOREM QueueTypeCorrect == Spec => []TypeOK
<1>1. QInv => TypeOK
  BY DEF QInv
<1>2. QED
  BY <1>1, QueueInvariance, PTL

\* Whatever is sent while the timer runs, nothing is lost, repeated or
\* reordered on an open socket.
THEOREM QueueLosesNothing == Spec => []NothingLost
<1>1. QInv => NothingLost
  BY DEF QInv, Accounted, NothingLost
<1>2. QED
  BY <1>1, QueueInvariance, PTL

\* No two commands are sent within Period of each other.
THEOREM QueueSpacesSends == Spec => SendSpacing
<1>1. QInv /\ [Next]_vars => [wire' # wire => quiet >= Period]_vars
  <2> SUFFICES ASSUME QInv, [Next]_vars, wire' # wire
               PROVE  quiet >= Period
    OBVIOUS
  <2>1. quiet \in 0 .. Period /\ queueTimer \in -1 .. Period /\ Period \in Nat
    BY QueueAssumption DEF QInv, TypeOK, Undefined
  <2>2. ASSUME NEW c \in Cmds, SendCmd(c)
        PROVE  quiet >= Period
    <3>1. running /\ queueTimer = Undefined
      BY <2>2 DEF SendCmd
    <3>2. QED
      BY <2>1, <3>1 DEF QInv, Spaced
  <2>3. CASE TimerFires
    BY <2>1, <2>3 DEF TimerFires, QInv, Spaced, Undefined
  <2>4. QED
    BY <2>2, <2>3 DEF Next, Open, Close, Tick, vars
<1>2. QED
  BY <1>1, QueueInvariance, PTL DEF Spec, SendSpacing

\* The queue with its timer implements a channel: every step of the bot, the
\* timer or the socket is a step of the channel or none.
THEOREM QueueIsChannel == Spec => IsChannel
<1> USE DEF Chan!cvars
<1>1. Init => Chan!Init
  BY DEF Init, Chan!Init
<1>2. QInv /\ [Next]_vars => [Chan!Next]_Chan!cvars
  <2> SUFFICES ASSUME QInv, [Next]_vars
               PROVE  Chan!Next \/ UNCHANGED <<issued, wire, ws = "closed" \/ ~running>>
    BY DEF Chan!cvars
  <2>1. /\ cmdQueue \in Seq(Cmds) /\ issued \in Seq(Cmds) /\ wire \in Seq(Cmds)
        /\ ws \in {"connecting", "open", "closed"} /\ running \in BOOLEAN
    BY DEF QInv, TypeOK
  <2>2. ASSUME NEW c \in Cmds, SendCmd(c)
        PROVE  Chan!Next
    <3>1. running /\ issued' = Append(issued, c) /\ ws' = ws
      BY <2>2 DEF SendCmd
    <3>2. CASE queueTimer # Undefined
      <4>1. wire' = wire /\ running' = running
        BY <2>2, <3>2 DEF SendCmd
      <4>2. Chan!Issue(c)
        BY <3>1, <4>1 DEF Chan!Issue
      <4>3. QED
        BY <4>2 DEF Chan!Next
    <3>3. CASE queueTimer = Undefined
      <4>1. cmdQueue = <<>> /\ EmptyCmdQueue(Append(cmdQueue, c))
        BY <2>2, <3>1, <3>3 DEF SendCmd, QInv, NeverStuck
      <4>2. Append(cmdQueue, c) # <<>> /\ Head(Append(cmdQueue, c)) = c
        BY <4>1
      <4>3. CASE ws = "open"
        <5>1. wire' = Append(wire, c) /\ running' = TRUE
          BY <4>1, <4>2, <4>3 DEF EmptyCmdQueue
        <5>2. issued = wire
          BY <2>1, <3>1, <4>1, <4>3, ConcatEmptySeq DEF QInv, Accounted
        <5>3. issued'[Len(wire) + 1] = c /\ ~(Len(wire) < Len(issued))
          BY <2>1, <3>1, <5>2
        <5>4. Chan!PassOn(c)
          BY <3>1, <4>3, <5>1, <5>3 DEF Chan!PassOn, Chan!Deliver, Chan!Undelivered
        <5>5. QED
          BY <5>4 DEF Chan!Next
      <4>4. CASE ws = "connecting"
        <5>1. wire' = wire /\ running' = FALSE
          BY <4>1, <4>2, <4>4 DEF EmptyCmdQueue
        <5>2. Chan!Break
          BY <3>1, <5>1 DEF Chan!Break
        <5>3. QED
          BY <5>2 DEF Chan!Next
      <4>5. CASE ws = "closed"
        <5>1. wire' = wire /\ running' = TRUE
          BY <4>1, <4>2, <4>5 DEF EmptyCmdQueue
        <5>2. Chan!Issue(c)
          BY <3>1, <4>5, <5>1 DEF Chan!Issue
        <5>3. QED
          BY <5>2 DEF Chan!Next
      <4>6. QED
        BY <2>1, <4>3, <4>4, <4>5
    <3>4. QED
      BY <3>2, <3>3
  <2>3. CASE TimerFires
    <3>1. running /\ EmptyCmdQueue(cmdQueue) /\ ws' = ws /\ issued' = issued
      BY <2>3 DEF TimerFires
    <3>2. CASE cmdQueue = <<>>
      BY <3>1, <3>2 DEF EmptyCmdQueue
    <3>3. CASE cmdQueue # <<>> /\ ws = "open"
      <4>1. wire' = Append(wire, Head(cmdQueue)) /\ running' = TRUE
        BY <3>1, <3>3 DEF EmptyCmdQueue
      <4>2. issued = wire \o cmdQueue
        BY <3>1, <3>3 DEF QInv, Accounted
      <4>3. issued[Len(wire) + 1] = Head(cmdQueue) /\ Len(wire) < Len(issued)
        BY <2>1, <3>3, <4>2, Shift
      <4>4. Chan!Arrive
        BY <3>1, <3>3, <4>1, <4>3 DEF Chan!Arrive, Chan!Deliver, Chan!Undelivered
      <4>5. QED
        BY <4>4 DEF Chan!Next
    <3>4. CASE cmdQueue # <<>> /\ ws = "connecting"
      <4>1. wire' = wire /\ running' = FALSE
        BY <3>1, <3>4 DEF EmptyCmdQueue
      <4>2. Chan!Break
        BY <3>1, <4>1 DEF Chan!Break
      <4>3. QED
        BY <4>2 DEF Chan!Next
    <3>5. CASE cmdQueue # <<>> /\ ws = "closed"
      BY <3>1, <3>5 DEF EmptyCmdQueue
    <3>6. QED
      BY <2>1, <3>2, <3>3, <3>4, <3>5
  <2>4. CASE Close
    <3>1. Chan!Break
      BY <2>4 DEF Close, Chan!Break
    <3>2. QED
      BY <3>1 DEF Chan!Next
  <2>5. CASE Open \/ Tick \/ UNCHANGED vars
    BY <2>5 DEF Open, Tick, vars
  <2>6. QED
    BY <2>2, <2>3, <2>4, <2>5 DEF Next
<1>3. QED
  BY <1>1, <1>2, QueueInvariance, PTL DEF Spec, IsChannel, Chan!Spec
=============================================================================
