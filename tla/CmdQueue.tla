------------------------------ MODULE CmdQueue ------------------------------
(***************************************************************************)
(* The outgoing command queue of class Bot (src/command-handler.ts):       *)
(* sendCmd and emptyCmdQueue.  After each command a 500 ms timer runs      *)
(* before the next one is sent.                                            *)
(*                                                                         *)
(* Time passes in units; a timer never fires early but may fire late, as   *)
(* the event loop is busy while a convention looks for a move.  The socket *)
(* is external: before it is open send() throws, after it is closed send() *)
(* discards the command without a word.                                    *)
(***************************************************************************)
EXTENDS Integers, Sequences

CONSTANTS Cmds,
          Period,      \* the delay between two commands, in time units
          MaxIssued    \* bound on the commands of one behaviour

ASSUME QueueAssumption == Period \in Nat \ {0} /\ MaxIssued \in Nat

VARIABLES
  cmdQueue,
  queueTimer,   \* time left on the timer, or Undefined
  ws,           \* the socket: "connecting", "open" or "closed"
  running,      \* FALSE once an exception nobody catches has ended the process
  issued,       \* history: the argument of every sendCmd
  wire,         \* history: what the open socket was given
  quiet         \* time since the last send, counted up to Period

vars == <<cmdQueue, queueTimer, ws, running, issued, wire, quiet>>

Undefined == -1

Init ==
  /\ cmdQueue = <<>>
  /\ queueTimer = Undefined
  /\ ws = "connecting"
  /\ running = TRUE
  /\ issued = <<>>
  /\ wire = <<>>
  /\ quiet = Period

-----------------------------------------------------------------------------
(* The program *)

\* Mutant of EmptyCmdQueue: the delay grows with the queue.
MutantDelay(queue) ==
  IF queue = <<>>
  THEN queueTimer' = Undefined /\ cmdQueue' = queue /\ UNCHANGED <<running, wire, quiet>>
  ELSE /\ cmdQueue' = Tail(queue)
       /\ running' = (ws # "connecting")
       /\ queueTimer' = IF ws # "connecting" THEN Period * Len(queue) ELSE queueTimer
       /\ wire' = IF ws = "open" THEN Append(wire, Head(queue)) ELSE wire
       /\ quiet' = 0

\* Mutant of EmptyCmdQueue: the newest command is sent first.
MutantNewestFirst(queue) ==
  IF queue = <<>>
  THEN queueTimer' = Undefined /\ cmdQueue' = queue /\ UNCHANGED <<running, wire, quiet>>
  ELSE /\ cmdQueue' = SubSeq(queue, 1, Len(queue) - 1)
       /\ running' = (ws # "connecting")
       /\ queueTimer' = IF ws # "connecting" THEN Period ELSE queueTimer
       /\ wire' = IF ws = "open" THEN Append(wire, queue[Len(queue)]) ELSE wire
       /\ quiet' = 0

\* Mutant of EmptyCmdQueue: a command stays in the queue until the next is added.
MutantNoShift(queue) ==
  IF queue = <<>>
  THEN queueTimer' = Undefined /\ cmdQueue' = queue /\ UNCHANGED <<running, wire, quiet>>
  ELSE /\ cmdQueue' = IF Len(queue) > 1 THEN Tail(queue) ELSE queue
       /\ running' = (ws # "connecting")
       /\ queueTimer' = IF ws # "connecting" THEN Period ELSE queueTimer
       /\ wire' = IF ws = "open" THEN Append(wire, Head(queue)) ELSE wire
       /\ quiet' = 0

\* emptyCmdQueue, called with queue as the content of cmdQueue.
EmptyCmdQueue(queue) ==
  IF queue = <<>>
  THEN /\ queueTimer' = Undefined
       /\ cmdQueue' = queue
       /\ UNCHANGED <<running, wire, quiet>>
  ELSE /\ cmdQueue' = Tail(queue)
       /\ running' = (ws # "connecting")
       /\ queueTimer' = IF ws # "connecting" THEN Period ELSE queueTimer
       /\ wire' = IF ws = "open" THEN Append(wire, Head(queue)) ELSE wire
       /\ quiet' = 0

\* Mutant of SendCmd: an empty queue is taken for an idle one.
MutantSendCmd(c) ==
  /\ running
  /\ Len(issued) < MaxIssued
  /\ issued' = Append(issued, c)
  /\ IF cmdQueue = <<>>
     THEN EmptyCmdQueue(<<c>>)
     ELSE cmdQueue' = Append(cmdQueue, c) /\ UNCHANGED <<queueTimer, running, wire, quiet>>
  /\ UNCHANGED ws

\* sendCmd
SendCmd(c) ==
  /\ running
  /\ Len(issued) < MaxIssued
  /\ issued' = Append(issued, c)
  /\ IF queueTimer = Undefined
     THEN EmptyCmdQueue(Append(cmdQueue, c))
     ELSE /\ cmdQueue' = Append(cmdQueue, c)
          /\ UNCHANGED <<queueTimer, running, wire, quiet>>
  /\ UNCHANGED ws

\* Mutant of TimerFires: one command is sent and the timer is not set again.
MutantTimerFires ==
  /\ running
  /\ queueTimer = 0
  /\ queueTimer' = Undefined
  /\ cmdQueue' = IF cmdQueue = <<>> THEN <<>> ELSE Tail(cmdQueue)
  /\ wire' = IF cmdQueue # <<>> /\ ws = "open" THEN Append(wire, Head(cmdQueue)) ELSE wire
  /\ quiet' = IF cmdQueue # <<>> THEN 0 ELSE quiet
  /\ UNCHANGED <<running, ws, issued>>

\* the setTimeout callback
TimerFires ==
  /\ running
  /\ queueTimer = 0
  /\ EmptyCmdQueue(cmdQueue)
  /\ UNCHANGED <<ws, issued>>

-----------------------------------------------------------------------------
(* Its environment *)

Open == /\ ws = "connecting" /\ ws' = "open"
        /\ UNCHANGED <<cmdQueue, queueTimer, running, issued, wire, quiet>>

Close == /\ ws = "open" /\ ws' = "closed"
         /\ UNCHANGED <<cmdQueue, queueTimer, running, issued, wire, quiet>>

Tick ==
  /\ queueTimer > 0 \/ quiet < Period
  /\ queueTimer' = IF queueTimer > 0 THEN queueTimer - 1 ELSE queueTimer
  /\ quiet' = IF quiet < Period THEN quiet + 1 ELSE quiet
  /\ UNCHANGED <<cmdQueue, ws, running, issued, wire>>

Next == (\E c \in Cmds : SendCmd(c)) \/ TimerFires \/ Open \/ Close \/ Tick

Spec == Init /\ [][Next]_vars

\* Time passes and Node runs every timer that is due.
FairSpec == Spec /\ WF_vars(Tick) /\ WF_vars(TimerFires)

-----------------------------------------------------------------------------
(* Properties *)

TypeOK ==
  /\ cmdQueue \in Seq(Cmds)
  /\ queueTimer \in Undefined .. Period
  /\ ws \in {"connecting", "open", "closed"}
  /\ running \in BOOLEAN
  /\ issued \in Seq(Cmds)
  /\ wire \in Seq(Cmds)
  /\ quiet \in 0 .. Period

\* While the socket is open the commands issued are those on the wire followed
\* by those in the queue: sendCmd and the timer callback together neither lose,
\* repeat nor reorder a command.
NothingLost == ws = "open" /\ running => issued = wire \o cmdQueue

\* Two commands are never sent within Period of each other, also when sendCmd
\* finds no timer and sends at once.
SendSpacing == [][wire' # wire => quiet >= Period]_vars

\* The queue is a channel.
Chan == INSTANCE Channel WITH
  received <- wire,
  broken   <- ws = "closed" \/ ~running

IsChannel == Chan!Spec

\* Every command is handed to the socket in the end.
QueueDrains == cmdQueue # <<>> ~> cmdQueue = <<>> \/ ~running
=============================================================================
