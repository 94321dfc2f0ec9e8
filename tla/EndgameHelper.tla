--------------------------- MODULE EndgameHelper ---------------------------
(***************************************************************************)
(* src/conventions/shared/endgame-helper.js: the position of an endgame,   *)
(* how a hypothetical action advances it (advance_state), the tests that   *)
(* give a position up (unwinnable_state), and the actions winnable_simpler *)
(* tries, the search in which everybody sees their own cards.              *)
(*                                                                         *)
(* A position has all the cards of the hands; draws are chosen from `rest`,*)
(* the multiset of the cards not seen (remaining_ids).                     *)
(***************************************************************************)
EXTENDS Sums, Sequences, FiniteSets, SequencesExt

CONSTANTS
  NumPlayers,
  Suits,
  MaxRank,     \* 5 in the code
  Copies,      \* [Ids -> Nat]: cardCount
  MaxClues,    \* 8 in the code
  MaxOrder     \* bound: the highest order of a position

ASSUME EndgameAssumption ==
  /\ NumPlayers \in Nat \ {0}
  /\ IsFiniteSet(Suits)
  /\ MaxRank \in Nat /\ MaxClues \in Nat /\ MaxOrder \in Nat

Players == 0 .. NumPlayers - 1
Orders  == 0 .. MaxOrder
Ids     == Suits \X (1 .. MaxRank)
NoId    == <<-1, -1>>

ASSUME CopiesAssumption == Copies \in [Ids -> Nat]

\* A position: hands newest card first, deck the identities that are known or
\* supposed, rest what is still to be drawn, turn whose turn it is.
Position == [hands    : [Players -> Seq(Orders)],
             deck     : [Orders -> Ids \cup {NoId}],
             stacks   : [Suits -> 0 .. MaxRank],
             discards : [Ids -> Nat],
             maxes    : [Suits -> 0 .. MaxRank],
             tokens   : -1 .. MaxClues,
             strikes  : Nat,
             left     : Nat,                       \* cardsLeft
             turns    : -1 .. NumPlayers,          \* endgameTurns
             top      : Orders,                    \* cardOrder
             turn     : Players,
             rest     : [Ids -> Nat],
             known    : SUBSET Orders,             \* cards known to their holders
             clues    : Nat]                       \* turns of clues at the end of actionList

NextPlayer(i) == (i + 1) % NumPlayers

ScoreOf(p) == Sum(p.stacks)
Goal(p)    == Sum(p.maxes)
Won(p)     == ScoreOf(p) = Goal(p)
Ended(p)   == p.turns = 0

Pace(p) == ScoreOf(p) + p.left + NumPlayers - Goal(p)

Id(p, o) == p.deck[o]

Trash(p, id) == id[2] <= p.stacks[id[1]] \/ id[2] > p.maxes[id[1]]

Playable(p, id) == id # NoId /\ id[2] = p.stacks[id[1]] + 1

\* copies played or discarded
Base(p, id) == p.discards[id] + (IF p.stacks[id[1]] >= id[2] THEN 1 ELSE 0)

Critical(p, id) == ~Trash(p, id) /\ p.discards[id] = Copies[id] - 1

Hand(p, i) == ToSet(p.hands[i])

Worthless(p, o) == Id(p, o) = NoId \/ Trash(p, Id(p, o))

Unseen(p) == {id \in Ids : p.rest[id] > 0}

-----------------------------------------------------------------------------
(* unwinnable_state *)

\* find_must_plays: identities of which the hand holds every copy left
MustPlays(p, i) ==
  {id \in Ids :
     LET held == {o \in Hand(p, i) : Id(p, o) = id}
     IN  /\ held # {} /\ ~Trash(p, id)
         /\ Copies[id] - Base(p, id) = Cardinality(held)}

\* players with nothing to play
VoidPlayers(p) == {i \in Players : \A o \in Hand(p, i) : Worthless(p, o)}

\* the players who still have a turn once the last card is drawn
InTurn(p) == {(p.turn + k) % NumPlayers : k \in 0 .. p.turns - 1}

\* Mutant of Unwinnable: a player who has nothing to play costs two turns.
MutantUnwinnable(p) ==
  \/ Ended(p) \/ Pace(p) < 0
  \/ 2 * Cardinality(VoidPlayers(p)) > Pace(p)

Unwinnable(p) ==
  \/ Ended(p) \/ Pace(p) < 0
  \/ Cardinality(VoidPlayers(p)) > Pace(p)
  \/ /\ p.turns # -1
     /\ \/ Cardinality(InTurn(p) \ VoidPlayers(p)) + ScoreOf(p) < Goal(p)
        \/ \E i \in InTurn(p) : Cardinality(MustPlays(p, i)) > 1
  \/ p.left = 1 /\ Cardinality({i \in Players : Cardinality(MustPlays(p, i)) > 1}) > 1

-----------------------------------------------------------------------------
(* advance_state *)

ClueAct     == [type |-> "clue", order |-> -1]
PlayAct(o)  == [type |-> "play", order |-> o]
TossAct(o)  == [type |-> "discard", order |-> o]

\* a clue token back, up to the maximum
OneMore(tokens) == IF tokens < MaxClues THEN tokens + 1 ELSE tokens

CountDown(turns) == IF turns = -1 THEN -1 ELSE turns - 1

\* remove_and_draw_new: the card leaves the hand and draw comes in, if any is left
Drawn(p, o, draw) ==
  IF p.turns = -1
  THEN [p EXCEPT !.hands = [p.hands EXCEPT ![p.turn] = <<p.top + 1>> \o RemoveFirst(p.hands[p.turn], o)],
                 !.deck  = IF p.deck[p.top + 1] = NoId
                           THEN [p.deck EXCEPT ![p.top + 1] = draw] ELSE p.deck,
                 !.top   = p.top + 1,
                 !.left  = p.left - 1,
                 !.turns = IF p.left = 1 THEN NumPlayers ELSE -1]
  ELSE [p EXCEPT !.hands = [p.hands EXCEPT ![p.turn] = RemoveFirst(p.hands[p.turn], o)],
                 !.turns = p.turns - 1]

Discarded(p, id) == [d \in Ids |-> IF d = id THEN p.discards[d] + 1 ELSE p.discards[d]]

\* The copies of a card that are not drawn any more (remove_remaining).
Less(rest, id) == [d \in Ids |-> IF d = id THEN rest[d] - 1 ELSE rest[d]]

\* The move of a card that is id; NoId: of a card not known.
Moved(p, a, id, draw) ==
  CASE a.type = "clue" -> [p EXCEPT !.tokens = p.tokens - 1, !.turns = CountDown(p.turns)]
    [] a.type = "play" /\ Playable(p, id) ->
         [Drawn(p, a.order, draw) EXCEPT
            !.stacks = [p.stacks EXCEPT ![id[1]] = id[2]],
            !.tokens = IF id[2] = MaxRank THEN OneMore(p.tokens) ELSE p.tokens]
    [] a.type = "play" /\ ~Playable(p, id) ->
         [Drawn(p, a.order, draw) EXCEPT !.discards = Discarded(p, id), !.strikes = p.strikes + 1]
    [] a.type = "discard" ->
         [Drawn(p, a.order, draw) EXCEPT !.discards = Discarded(p, id), !.tokens = OneMore(p.tokens)]

Moving(p, a) == IF a.type = "clue" THEN NoId ELSE Id(p, a.order)

\* The position after an action of the player to move, who draws `draw`.
\* The maximum ranks stay as they are.
Advance(p, a, draw) ==
  [Moved(p, a, Moving(p, a), draw) EXCEPT !.turn = NextPlayer(p.turn)]

\* winnable_if: the positions after a, with what is left to draw.  Nothing is
\* drawn by a clue or from an empty deck.
Outcomes(p, a) ==
  IF a.type = "clue" \/ p.left = 0
  THEN {Advance(p, a, NoId)}
  ELSE {[Advance(p, a, id) EXCEPT !.rest = Less(p.rest, id)] : id \in Unseen(p)}

-----------------------------------------------------------------------------
(* winnable_simpler *)

\* the first card of the hand that is one of `cards`, as a set
FirstOf(p, cards) ==
  LET hand == p.hands[p.turn]
  IN  {hand[k] : k \in {k \in DOMAIN hand :
         hand[k] \in cards /\ \A j \in 1 .. k - 1 : hand[j] \notin cards}}

Discardable(p) == FirstOf(p, {o \in Hand(p, p.turn) : Worthless(p, o)})

\* Mutant of SimplerActions: a clue is given without a token.
MutantSimplerActions(p) ==
  {PlayAct(o) : o \in {o \in Hand(p, p.turn) : Playable(p, Id(p, o))}} \cup
  (IF p.tokens >= 0 THEN {ClueAct} ELSE {}) \cup
  (IF Pace(p) >= 0 THEN {TossAct(o) : o \in Discardable(p)} ELSE {})

SimplerActions(p) ==
  {PlayAct(o) : o \in {o \in Hand(p, p.turn) : Playable(p, Id(p, o))}} \cup
  (IF p.tokens > 0 THEN {ClueAct} ELSE {}) \cup
  (IF Pace(p) >= 0 THEN {TossAct(o) : o \in Discardable(p)} ELSE {})

\* hash_state joins the hands: where one ends and the next begins is lost.
Joined(p) == FlattenSeq([n \in 1 .. NumPlayers |->
               [k \in DOMAIN p.hands[n - 1] |-> Id(p, p.hands[n - 1][k])]])

\* Mutant of Key: the hands are left out.
MutantKey(p) ==
  [deck |-> p.deck, tokens |-> p.tokens, turns |-> p.turns, turn |-> p.turn, rest |-> p.rest]

\* What the result of winnable_simpler is cached under (hash_state).
Key(p) ==
  [deck |-> p.deck, hands |-> Joined(p), tokens |-> p.tokens, turns |-> p.turns,
   turn |-> p.turn, rest |-> p.rest]
=============================================================================
