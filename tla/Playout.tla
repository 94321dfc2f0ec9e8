------------------------------ MODULE Playout ------------------------------
(***************************************************************************)
(* A game that goes on after an endgame was looked at: any legal moves,    *)
(* handled as advance_game of src/conventions/shared/endgame.js does, with *)
(* the scores that unwinnable_state has given up on the way.               *)
(***************************************************************************)
EXTENDS EndgameHelper

CONSTANT Roots   \* bound: the positions explored

\* The copies of an identity in the hands.
InHand(p, id) == {o \in UNION {Hand(p, i) : i \in Players} : Id(p, o) = id}

\* What holds of the position of a game: the cards in the hands are there once
\* and have an identity, no identity has more cards than copies, and the maximum
\* ranks are what the discard pile leaves.
HandsOK(p) ==
  /\ \A i \in Players : IsInjective(p.hands[i])
  /\ \A i, j \in Players : i # j => Hand(p, i) \cap Hand(p, j) = {}
  /\ \A i \in Players : \A o \in Hand(p, i) : o <= p.top /\ Id(p, o) \in Ids

DeckOK(p) ==
  /\ \A o \in Orders : o > p.top => p.deck[o] = NoId
  /\ p.top + p.left <= MaxOrder
  /\ p.turns = -1 <=> p.left > 0

CopiesOK(p) ==
  \A id \in Ids : Base(p, id) + Cardinality(InHand(p, id)) + p.rest[id] <= Copies[id]

MaxesOK(p) ==
  \A s \in Suits :
    /\ p.stacks[s] <= p.maxes[s]
    /\ p.maxes[s] < MaxRank => p.discards[<<s, p.maxes[s] + 1>>] >= Copies[<<s, p.maxes[s] + 1>>]

Proper(p) == p \in Position /\ HandsOK(p) /\ DeckOK(p) /\ CopiesOK(p) /\ MaxesOK(p)

ASSUME RootAssumption == \A p \in Roots : Proper(p)

VARIABLES
  pos,        \* the position, with the identities of our cards as well
  lost        \* the scores that unwinnable_state has given up

-----------------------------------------------------------------------------
(* advance_game *)

\* handle_action lowers the maximum rank when the last copy is discarded.
Lowered(id, q) ==
  IF id # NoId /\ q.discards[id] = Copies[id]
  THEN [q EXCEPT !.maxes = [s \in Suits |-> IF s = id[1] /\ q.maxes[s] >= id[2] THEN id[2] - 1
                                            ELSE q.maxes[s]]]
  ELSE q

Handled(p, a, draw) == Lowered(Moving(p, a), Advance(p, a, draw))

\* A clue without a target does not enter the list of actions.
AdvanceGame(p, a, draw) ==
  [Handled(p, a, draw) EXCEPT !.clues = IF a.type = "clue" THEN p.clues ELSE 0,
                              !.rest  = IF draw = NoId THEN p.rest ELSE Less(p.rest, draw)]

-----------------------------------------------------------------------------
(* The game goes on *)

LegalMoves(p) ==
  {PlayAct(o) : o \in Hand(p, p.turn)} \cup
  (IF p.tokens < MaxClues THEN {TossAct(o) : o \in Hand(p, p.turn)} ELSE {}) \cup
  (IF p.tokens > 0 THEN {ClueAct} ELSE {})

Over(p) == Ended(p) \/ p.strikes = 3 \/ Won(p)

After(p, a) ==
  {AdvanceGame(p, a, draw) : draw \in IF a.type = "clue" \/ p.left = 0 THEN {NoId} ELSE Unseen(p)}

\* The maximum score, when unwinnable_state says that it is not reached.
GivenUp(p) == IF Unwinnable(p) /\ ~Won(p) THEN {Goal(p)} ELSE {}

PlayInit == pos \in Roots /\ lost = GivenUp(pos)

PlayOn ==
  /\ ~Over(pos)
  /\ \E a \in LegalMoves(pos) : \E q \in After(pos, a) :
       pos' = q /\ lost' = lost \cup GivenUp(q)

PlaySpec == PlayInit /\ [][PlayOn]_<<pos, lost>>

-----------------------------------------------------------------------------
(* Properties *)

\* unwinnable_state never gives up a game that is won later: once it held, the
\* maximum score of that moment is not reached, whatever is played and drawn.
UnwinnableIsFinal == \A score \in lost : ScoreOf(pos) < score
=============================================================================
