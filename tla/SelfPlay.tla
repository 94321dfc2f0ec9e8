------------------------------ MODULE SelfPlay ------------------------------
(***************************************************************************)
(* simulate_game of src/self-play.js: one copy of the bot per seat, each   *)
(* with its own State, all fed the same actions.  A seat is never told the *)
(* identity of a card it draws itself.  The loop condition, the score and  *)
(* the reported result are read from the copy at seat 0 alone, while every *)
(* copy checks by itself whether a card is still to be drawn.              *)
(*                                                                         *)
(* What a convention decides (take_action) is any legal move; convention   *)
(* code may also throw, in take_action or while an action is handled, and  *)
(* the catch block then ends the game.                                     *)
(***************************************************************************)
EXTENDS Engine

CONSTANT Shuffles       \* the decks the seeds in use can produce

ASSUME ShuffleAssumption == Shuffles \subseteq Decks

VARIABLES
  shuffled,            \* the deck, known to the driver only
  games,               \* games[i]: the State of the copy at seat i
  currentPlayerIndex,
  turn,                \* turns taken so far
  performAction,       \* what the current player decided, or NoAction
  recorded,            \* whether the last element of actions is END_GAME, and its value
  pc                   \* where simulate_game stands

vars == <<shuffled, games, currentPlayerIndex, turn, performAction, recorded, pc>>

NoAction == [type |-> "none"]

\* PerformAction: what take_action returns.
PerformActions ==
  [type : {"PLAY", "DISCARD"}, target : Orders] \cup [type : {"CLUE"}, target : Players]

Perfect(st) == Score(st) = PerfectScore

-----------------------------------------------------------------------------
(* Helpers of the driver *)

\* Mutant of SeenBy: the cards of seat 0 are hidden from everybody's copy.
MutantSeenBy(i, p, o) == IF p # 0 THEN shuffled[o] ELSE NoId

\* A card as seat i sees it when seat p draws it.
SeenBy(i, p, o) == IF p # i THEN shuffled[o] ELSE NoId

\* The copy at seat i holds all the starting hands.
Dealt(i) == games[i].cardOrder + 1 = NumPlayers * HandSize

\* Utils.performToAction, evaluated on the copy st.
PerformToAction(st, perform, p) ==
  CASE perform.type = "CLUE" -> [type |-> "clue", giver |-> p, target |-> perform.target]
    [] perform.type = "DISCARD" ->
         [type |-> "discard", playerIndex |-> p, order |-> perform.target,
          id |-> shuffled[perform.target], failed |-> FALSE]
    [] perform.type = "PLAY" ->
         LET id == shuffled[perform.target]
         IN  IF IsPlayable(st, id)
             THEN [type |-> "play", playerIndex |-> p, order |-> perform.target, id |-> id]
             ELSE [type |-> "discard", playerIndex |-> p, order |-> perform.target,
                   id |-> id, failed |-> TRUE]

\* One copy takes the action and, unless the game just ended, the draw after it.
Advance(i, perform, p) ==
  LET st    == games[i]
      order == st.cardOrder + 1
      acted == HandleTableAction(st, PerformToAction(st, perform, p))
      over  == acted.strikes = MaxStrikes \/ Perfect(acted)
  IN  IF ~over /\ perform.type # "CLUE" /\ order < DeckSize
      THEN HandleDraw(acted, p, order, SeenBy(i, p, order))
      ELSE acted

\* Mutant of Continue: the countdown of the last round is not looked at.
MutantContinue == games[0].strikes # MaxStrikes /\ Score(games[0]) # MaxScore(games[0])

\* The while condition.
Continue ==
  /\ games[0].endgameTurns # 0
  /\ games[0].strikes # MaxStrikes
  /\ Score(games[0]) # MaxScore(games[0])

\* The string simulate_game returns as result.
Result ==
  LET st == games[0]
  IN  CASE st.strikes = MaxStrikes     -> "strikeout"
        [] st.strikes # MaxStrikes /\ Perfect(st) -> "perfect!"
        [] st.strikes # MaxStrikes /\ ~Perfect(st) /\ Score(st) = MaxScore(st)
             -> "discarded critical (max)"
        [] st.strikes # MaxStrikes /\ Score(st) # MaxScore(st)
             /\ \E s \in Suits : st.max_ranks[s] # MaxRank
             -> "discarded critical, out of pace"
        [] OTHER -> "out of pace"

-----------------------------------------------------------------------------
Init ==
  /\ shuffled \in Shuffles
  /\ games = [i \in Players |-> InitialState]
  /\ currentPlayerIndex = 0
  /\ turn = 0
  /\ performAction = NoAction
  /\ recorded = "no"
  /\ pc = "deal"

\* The starting hands: seat after seat draws the cards of player 0 first, then
\* those of player 1, and so on.
DealCard ==
  /\ pc = "deal"
  /\ \E i, p \in Players :
       LET order == games[i].cardOrder + 1
       IN  /\ \A j \in Players : j < i => Dealt(j)
           /\ p * HandSize <= order /\ order < (p + 1) * HandSize
           /\ games' = [games EXCEPT ![i] = HandleDraw(games[i], p, order, SeenBy(i, p, order))]
  /\ UNCHANGED <<shuffled, currentPlayerIndex, turn, performAction, recorded, pc>>

StartLoop ==
  /\ pc = "deal"
  /\ \A i \in Players : Dealt(i)
  /\ pc' = "loop"
  /\ UNCHANGED <<shuffled, games, currentPlayerIndex, turn, performAction, recorded>>

\* Top of the loop: every copy but on the first turn is told whose turn it is.
NextTurn ==
  /\ pc = "loop"
  /\ Continue
  /\ games' = IF turn = 0 THEN games
              ELSE [i \in Players |-> HandleTurn(games[i], turn, currentPlayerIndex)]
  /\ pc' = "act"
  /\ UNCHANGED <<shuffled, currentPlayerIndex, turn, performAction, recorded>>

\* take_action of the current player: any of its cards may be played or
\* discarded (that no card is discarded with all tokens there is left to the
\* conventions); a clue costs a token and touches a card, so the target holds one.
TakeAction ==
  /\ pc = "act"
  /\ LET st == games[currentPlayerIndex]
     IN  \/ \E o \in st.hands[currentPlayerIndex], t \in {"PLAY", "DISCARD"} :
              performAction' = [type |-> t, target |-> o]
         \/ /\ st.clue_tokens > 0
            /\ \E p \in Players \ {currentPlayerIndex} :
                 /\ st.hands[p] # {}
                 /\ performAction' = [type |-> "CLUE", target |-> p]
  /\ pc' = "apply"
  /\ UNCHANGED <<shuffled, games, currentPlayerIndex, turn, recorded>>

\* games.map(...) assigns the new copies together.
ApplyAction ==
  /\ pc = "apply"
  /\ games' = [i \in Players |-> Advance(i, performAction, currentPlayerIndex)]
  /\ currentPlayerIndex' = NextPlayerIndex(currentPlayerIndex)
  /\ turn' = turn + 1
  /\ performAction' = NoAction
  /\ pc' = "loop"
  /\ UNCHANGED <<shuffled, recorded>>

\* The loop is left: END_GAME is recorded with its end condition.
EndGame ==
  /\ pc = "loop"
  /\ ~Continue
  /\ recorded' = IF games[0].endgameTurns = 0 THEN "NORMAL" ELSE "STRIKEOUT"
  /\ pc' = "done"
  /\ UNCHANGED <<shuffled, games, currentPlayerIndex, turn, performAction>>

\* Mutant of Throw: the exception is caught inside the loop, which goes on.
MutantThrow ==
  /\ pc \in {"act", "apply"}
  /\ pc' = "loop"
  /\ UNCHANGED <<shuffled, games, currentPlayerIndex, turn, performAction, recorded>>

\* The catch block: an exception of the conventions leaves games as it was.
Throw ==
  /\ pc \in {"act", "apply"}
  /\ pc' = "caught"
  /\ UNCHANGED <<shuffled, games, currentPlayerIndex, turn, performAction, recorded>>

Step == DealCard \/ StartLoop \/ NextTurn \/ TakeAction \/ ApplyAction \/ EndGame

\* simulate_game has returned.
Finished == pc \in {"done", "caught"} /\ UNCHANGED vars

Next == Step \/ Throw \/ Finished

Spec == Init /\ [][Next]_vars

\* simulate_game is one synchronous loop: it never stops between two steps.
FairSpec == Spec /\ WF_vars(Step)

-----------------------------------------------------------------------------
(* Properties *)

\* Every copy is a well-formed State, and the driver's own variables have
\* their types.
TypeOK ==
  /\ shuffled \in [Orders -> Ids]
  /\ games \in [Players -> State]
  /\ currentPlayerIndex \in Players
  /\ turn \in Nat
  /\ performAction \in PerformActions \cup {NoAction}
  /\ recorded \in {"no", "NORMAL", "STRIKEOUT"}
  /\ pc \in {"deal", "loop", "act", "apply", "done", "caught"}

\* Card accounting: in every copy baseCount is exactly the number of drawn
\* cards of that identity that are in nobody's hand.  Elimination, criticality
\* and the pace all count on it (State.baseCount, onPlay, onDiscard).
CopiesAccounted ==
  \A i \in Players, id \in Ids :
    BaseCount(games[i], id) =
      Cardinality({o \in Orders : /\ o <= games[i].cardOrder
                                  /\ shuffled[o] = id
                                  /\ \A p \in Players : o \notin games[i].hands[p]})

\* No seat knows a card it holds, in its deck or in the deck_ids that survive a
\* rewind, and every seat knows every other card that left the deck: the copies
\* of one self-play game share a process but not their hands.
OwnHandHidden ==
  \A i \in Players, o \in Orders :
    LET st == games[i]
        known == IF o > st.cardOrder \/ o \in st.hands[i] THEN NoId ELSE shuffled[o]
    IN  st.deck[o] = known /\ st.deck_ids[o] = known

\* The public part of two copies: what the driver reads off the copy at seat 0.
SameTable(st, ts) ==
  /\ st.clue_tokens = ts.clue_tokens
  /\ st.strikes = ts.strikes
  /\ st.play_stacks = ts.play_stacks
  /\ st.discard_stacks = ts.discard_stacks
  /\ st.max_ranks = ts.max_ranks
  /\ st.endgameTurns = ts.endgameTurns

SameCards(st, ts) ==
  /\ st.cardOrder = ts.cardOrder
  /\ st.cardsLeft = ts.cardsLeft
  /\ st.hands = ts.hands

\* All copies hold the same public state, the cards included once they are dealt,
\* although every copy is told something else and decides by itself whether a
\* card is drawn: the loop condition, the score and the result may be read off
\* the copy at seat 0 (simulate_game).
CopiesAgree ==
  \A i \in Players :
    /\ SameTable(games[i], games[0])
    /\ pc # "deal" => SameCards(games[i], games[0])

\* isCritical predicts max_ranks: a step that discards or misplays a card
\* lowers the maximum score exactly when the card was critical before.
CriticalDiscardCosts ==
  [][\A i \in Players, id \in Ids :
       games'[i].discard_stacks[id] > games[i].discard_stacks[id]
         => (MaxScore(games'[i]) < MaxScore(games[i]) <=> IsCritical(games[i], id))]_vars

\* The self-play loop plays hanabi: seen from the copy at seat 0 every step is
\* a step of the rules, with the last round given by the endgameTurns players
\* from currentPlayerIndex on.
Rules == INSTANCE Hanabi WITH
  deck    <- shuffled,
  hand    <- games[0].hands,
  dealt   <- games[0].cardOrder + 1,
  started <- pc # "deal",
  stacks  <- games[0].play_stacks,
  gone    <- games[0].discard_stacks,
  clues   <- games[0].clue_tokens,
  strikes <- games[0].strikes,
  toMove  <- currentPlayerIndex,
  pending <- IF games[0].endgameTurns = -1 THEN {}
             ELSE {(currentPlayerIndex + k) % NumPlayers : k \in 0 .. games[0].endgameTurns - 1}

FollowsRules == Rules!Spec

\* Every game ends: clues run out unless cards are spent, and the deck runs out.
GameEnds == <>(pc \in {"done", "caught"})
=============================================================================
