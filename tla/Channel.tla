------------------------------- MODULE Channel -------------------------------
(***************************************************************************)
(* What the command queue of the bot promises the rest of the program:     *)
(* commands reach the server in the order they were issued, none twice and *)
(* none skipped, until the socket breaks; from then on nothing arrives.    *)
(***************************************************************************)
EXTENDS Naturals, Sequences

CONSTANT Cmds

VARIABLES issued,    \* every command sendCmd was called with
          received,  \* what the server has received
          broken

cvars == <<issued, received, broken>>

Init == issued = <<>> /\ received = <<>> /\ broken = FALSE

\* The part of s still on its way.
Undelivered(s) == Len(received) < Len(s)

Deliver(s) == received' = Append(received, s[Len(received) + 1])

Issue(c) == /\ issued' = Append(issued, c)
            /\ UNCHANGED <<received, broken>>

Arrive == /\ ~broken
          /\ Undelivered(issued)
          /\ Deliver(issued)
          /\ UNCHANGED <<issued, broken>>

\* An idle channel hands a command on at once.
PassOn(c) == /\ ~broken
             /\ ~Undelivered(issued)
             /\ issued' = Append(issued, c)
             /\ Deliver(issued')
             /\ UNCHANGED broken

\* Breaking may swallow a command that was just issued.
Break == /\ broken' = TRUE
         /\ issued' = issued \/ \E c \in Cmds : issued' = Append(issued, c)
         /\ UNCHANGED received

Next == (\E c \in Cmds : Issue(c) \/ PassOn(c)) \/ Arrive \/ Break

Spec == Init /\ [][Next]_cvars
=============================================================================
