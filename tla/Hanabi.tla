------------------------------- MODULE Hanabi -------------------------------
(***************************************************************************)
(* What the engine promises: the rules of the game, stated without the     *)
(* engine's incremental bookkeeping.  There is no countdown, no max_ranks  *)
(* and no cardsLeft here: the last round is the set of players who still   *)
(* have a turn, and a suit can reach a rank as long as a copy of every     *)
(* rank up to it has not been discarded.  SelfPlay refines this module.    *)
(***************************************************************************)
EXTENDS Integers, FiniteSets, FiniteSetsExt

CONSTANTS NumPlayers, Suits, MaxRank, Copies, DeckSize, MaxClues, MaxStrikes, HandSize

VARIABLES
  deck,     \* the shuffled deck: order -> identity
  hand,     \* hand[p]: the orders player p holds
  dealt,    \* how many cards have left the deck
  started,  \* the starting hands are complete
  stacks,   \* suit -> highest rank played
  gone,     \* identity -> copies discarded
  clues, strikes,
  toMove,
  pending   \* once the deck is empty: the players who still have a turn

hvars == <<deck, hand, dealt, started, stacks, gone, clues, strikes, toMove, pending>>

Seats  == 0 .. NumPlayers - 1
Cards  == 0 .. DeckSize - 1
Kinds  == Suits \X (1 .. MaxRank)

\* The highest rank suit s can still reach.
Reachable(s) ==
  Max({r \in 0 .. MaxRank : \A k \in 1 .. r : gone[<<s, k>>] < Copies[<<s, k>>]})

Over ==
  \/ strikes = MaxStrikes
  \/ \A s \in Suits : stacks[s] = Reachable(s)
  \/ dealt = DeckSize /\ pending = {}

Capped(n) == IF n > MaxClues THEN MaxClues ELSE n

Init ==
  /\ deck \in [Cards -> Kinds]
  /\ \A k \in Kinds : Cardinality({c \in Cards : deck[c] = k}) = Copies[k]
  /\ hand = [p \in Seats |-> {}]
  /\ dealt = 0
  /\ started = FALSE
  /\ stacks = [s \in Suits |-> 0]
  /\ gone = [k \in Kinds |-> 0]
  /\ clues = MaxClues
  /\ strikes = 0
  /\ toMove = 0
  /\ pending = {}

Deal(p) ==
  /\ ~started
  /\ Cardinality(hand[p]) < HandSize
  /\ hand' = [hand EXCEPT ![p] = @ \cup {dealt}]
  /\ dealt' = dealt + 1
  /\ UNCHANGED <<deck, started, stacks, gone, clues, strikes, toMove, pending>>

Begin ==
  /\ ~started
  /\ \A p \in Seats : Cardinality(hand[p]) = HandSize
  /\ started' = TRUE
  /\ UNCHANGED <<deck, hand, dealt, stacks, gone, clues, strikes, toMove, pending>>

\* The turn passes; in the last round the mover has had its final turn.
PassTurn ==
  /\ started /\ ~Over
  /\ toMove' = (toMove + 1) % NumPlayers
  /\ UNCHANGED <<deck, started>>

\* The mover loses card c and draws unless the deck is empty or the game ended.
Replace(c, ended) ==
  IF dealt < DeckSize /\ ~ended
  THEN /\ hand' = [hand EXCEPT ![toMove] = (@ \ {c}) \cup {dealt}]
       /\ dealt' = dealt + 1
       /\ pending' = IF dealt' = DeckSize THEN Seats ELSE {}
  ELSE /\ hand' = [hand EXCEPT ![toMove] = @ \ {c}]
       /\ pending' = pending \ {toMove}
       /\ UNCHANGED dealt

Clue ==
  /\ PassTurn
  /\ clues > 0
  /\ clues' = clues - 1
  /\ pending' = pending \ {toMove}
  /\ UNCHANGED <<hand, dealt, stacks, gone, strikes>>

Discard(c) ==
  /\ PassTurn
  /\ c \in hand[toMove]
  /\ gone' = [gone EXCEPT ![deck[c]] = @ + 1]
  /\ clues' = Capped(clues + 1)
  /\ Replace(c, FALSE)
  /\ UNCHANGED <<stacks, strikes>>

\* A card that fits its stack is played; completing a suit returns a clue.
Play(c) ==
  /\ PassTurn
  /\ c \in hand[toMove]
  /\ deck[c][2] = stacks[deck[c][1]] + 1
  /\ stacks' = [stacks EXCEPT ![deck[c][1]] = deck[c][2]]
  /\ clues' = IF deck[c][2] = MaxRank THEN Capped(clues + 1) ELSE clues
  /\ Replace(c, \A s \in Suits : stacks'[s] = MaxRank)
  /\ UNCHANGED <<gone, strikes>>

Misplay(c) ==
  /\ PassTurn
  /\ c \in hand[toMove]
  /\ deck[c][2] # stacks[deck[c][1]] + 1
  /\ gone' = [gone EXCEPT ![deck[c]] = @ + 1]
  /\ strikes' = strikes + 1
  /\ Replace(c, strikes' = MaxStrikes)
  /\ UNCHANGED <<stacks, clues>>

Next ==
  \/ \E p \in Seats : Deal(p)
  \/ Begin
  \/ Clue
  \/ \E c \in Cards : Discard(c) \/ Play(c) \/ Misplay(c)

Spec == Init /\ [][Next]_hvars
=============================================================================
