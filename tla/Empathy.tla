------------------------------ MODULE Empathy ------------------------------
(***************************************************************************)
(* What every player knows about the cards, in the programs of all seats:  *)
(* card_elim with its recursion (src/basics/player-elim.js), the knowledge *)
(* part of onClue, onDiscard, onDraw and onPlay (src/basics.js), and       *)
(* team_elimP (src/basics/helper.js).                                      *)
(*                                                                         *)
(* Every seat runs its own program, which keeps common knowledge and one   *)
(* view per player.  Conventions narrow inferences: Infer stands for the   *)
(* inference any of them may draw about one card of a clue.                *)
(***************************************************************************)
EXTENDS Elim

CONSTANTS Shuffles,      \* the decks considered
          Clues,         \* every clue, as the identities it touches
          MaxTurns,      \* bound on the turns of one behaviour
          MaxInferences  \* bound on the inferences of conventions

ASSUME EmpathyAssumption ==
  Shuffles \subseteq Decks /\ Clues \subseteq SUBSET Ids /\ MaxTurns \in Nat /\ MaxInferences \in Nat

VARIABLES
  shuffled,
  games,        \* games[i]: state, common and players in the program of seat i
  toMove, turns, inferences

vars == <<shuffled, games, toMove, turns, inferences>>

-----------------------------------------------------------------------------
(* Handlers: a game is [state, common, players] in the program of one seat. *)

\* Mutant of Merged: the players keep their own possibilities.
MutantUntold(c, v) == [v EXCEPT !.clued = c.clued]

\* Mutant of Merged: inferences are copied without looking at the possibilities.
MutantCopied(c, v) == [v EXCEPT !.possible = c.possible \cap @, !.inferred = c.inferred]

\* card v of a player, once c is common knowledge about it
Merged(c, v) ==
  [v EXCEPT !.possible = c.possible \cap @,
            !.inferred = c.inferred \cap v.possible,
            !.id       = IF c.id # NoId THEN c.id ELSE @,
            !.clued    = c.clued]

\* view with the cards in patched updated with common knowledge
Patched(view, common, patched) ==
  [view EXCEPT !.thoughts = [o \in Orders |-> IF o \in patched
                                              THEN Merged(common.thoughts[o], view.thoughts[o])
                                              ELSE view.thoughts[o]]]

\* team_elimP
TeamElim(game, patched) ==
  [game EXCEPT !.players = [p \in Players |->
     CardElim(Patched(game.players[p], game.common, patched), game.state)]]

\* Mutant of SeenBy: the drawer is given the card in every other player's program.
MutantSeenBy(i, us, p, id) == id

\* what player i sees of a card that p draws, as far as seat us is told that it is id
SeenBy(i, us, p, id) == IF i # p \/ i = us THEN id ELSE NoId

Drawn(view, o, seen) == [view EXCEPT !.thoughts[o] = NewCard(view.all_possible, seen)]

\* onDraw in the program of seat us
GameDraw(game, us, p, o, id) ==
  LET st == HandleDraw(game.state, p, o, id)
  IN  [game EXCEPT
         !.state   = st,
         !.players = [i \in Players |-> CardElim(Drawn(game.players[i], o, SeenBy(i, us, p, id)), st)],
         !.common  = CardElim(Drawn(game.common, o, NoId), st)]

\* a card that is touched by a clue about ids, and one that is not
Positive(c, ids) == [c EXCEPT !.possible = @ \cap ids, !.inferred = @ \cap ids, !.clued = TRUE]
Negative(c, ids) == [c EXCEPT !.possible = @ \ ids, !.inferred = @ \ ids]

Heard(view, hand, list, ids) ==
  [view EXCEPT !.thoughts = [o \in Orders |->
     IF o \notin hand THEN view.thoughts[o]
     ELSE IF o \in list THEN Positive(view.thoughts[o], ids)
     ELSE Negative(view.thoughts[o], ids)]]

\* onClue: the cards in list are touched by a clue about ids
GameClue(game, target, list, ids) ==
  LET st   == OnClue(game.state)
      hand == game.state.hands[target]
  IN  TeamElim([game EXCEPT !.state  = st,
                            !.common = CardElim(Heard(game.common, hand, list, ids), st)], hand)

\* A card turns out to be id.
Shown(c, id) == [c EXCEPT !.id = id, !.possible = @ \cap {id}, !.inferred = @ \cap {id}]

\* onDiscard and onPlay: card o, an id, leaves the hand of p, with st the state
\* afterwards.  handle_action has told p before.
GameReveal(game, st, p, o, id) ==
  LET told  == [game.players[p] EXCEPT !.thoughts[o].id = id]
      shown == [game.common EXCEPT !.thoughts[o] = Shown(game.common.thoughts[o], id)]
  IN  TeamElim([game EXCEPT !.state      = st,
                            !.players[p] = told,
                            !.common     = CardElim(shown, st)], {o})

\* An inference a convention draws from a clue: card o is id.
Infer(game, o, id) ==
  LET c == game.common.thoughts[o]
  IN  TeamElim([game EXCEPT !.common.thoughts[o].inferred = c.inferred \cap {id}], {o})

-----------------------------------------------------------------------------
(* The game: every program handles the same actions. *)

NewView(p) ==
  [playerIndex |-> p, thoughts |-> [o \in Orders |-> NewCard(Ids, NoId)],
   all_possible |-> Ids, thrown |-> FALSE]

NewGame == [state |-> InitialState, common |-> NewView(Common),
            players |-> [p \in Players |-> NewView(p)]]

\* Card o as seat i is told when p draws it.
Told(i, p, o) == IF i = p THEN NoId ELSE shuffled[o]

\* The starting hands, player after player.
Dealer(n) == (n - 1) \div HandSize

DealtGame(i) ==
  LET dealt[n \in 0 .. NumPlayers * HandSize] ==
        IF n = 0 THEN NewGame
        ELSE GameDraw(dealt[n - 1], i, Dealer(n), n - 1, Told(i, Dealer(n), n - 1))
  IN  dealt[NumPlayers * HandSize]

Init ==
  /\ shuffled \in Shuffles
  /\ games = [i \in Players |-> DealtGame(i)]
  /\ toMove = 0 /\ turns = 0 /\ inferences = 0

Table == games[0].state

TakeTurn ==
  /\ turns < MaxTurns
  /\ Table.endgameTurns # 0 /\ Table.strikes # MaxStrikes /\ Score(Table) # MaxScore(Table)
  /\ turns' = turns + 1
  /\ toMove' = NextPlayerIndex(toMove)
  /\ UNCHANGED shuffled

\* A clue touches the cards of the target that are among ids.
TouchedBy(target, ids) == {o \in Table.hands[target] : shuffled[o] \in ids}

Clued(target, ids) ==
  [i \in Players |-> GameClue(games[i], target, TouchedBy(target, ids), ids)]

\* Some convention infers the identity of a touched card.
Inferred(clued, touched) ==
  /\ inferences < MaxInferences
  /\ inferences' = inferences + 1
  /\ \E o \in touched, id \in Ids :
       /\ \A i \in Players : id \in clued[i].common.thoughts[o].inferred
       /\ games' = [i \in Players |-> Infer(clued[i], o, id)]

Clue ==
  /\ TakeTurn
  /\ Table.clue_tokens > 0
  /\ \E target \in Players \ {toMove}, ids \in Clues :
       /\ TouchedBy(target, ids) # {}
       /\ \/ games' = Clued(target, ids) /\ UNCHANGED inferences
          \/ Inferred(Clued(target, ids), TouchedBy(target, ids))

Refill(game, i) ==
  LET next == game.state.cardOrder + 1
  IN  IF /\ next < DeckSize
         /\ game.state.strikes # MaxStrikes /\ Score(game.state) # PerfectScore
      THEN GameDraw(game, i, toMove, next, Told(i, toMove, next))
      ELSE game

\* Card o leaves the hand, which takes seat i to the state after[i], and, while
\* there are cards, another is drawn.
Leave(o, after) ==
  games' = [i \in Players |-> Refill(GameReveal(games[i], after[i], toMove, o, shuffled[o]), i)]

Discard ==
  /\ TakeTurn
  /\ \E o \in Table.hands[toMove] :
       Leave(o, [i \in Players |-> OnDiscard(games[i].state, toMove, o, shuffled[o], FALSE)])
  /\ UNCHANGED inferences

Play ==
  /\ TakeTurn
  /\ \E o \in Table.hands[toMove] :
       /\ IsPlayable(Table, shuffled[o])
       /\ Leave(o, [i \in Players |-> OnPlay(games[i].state, toMove, o, shuffled[o])])
  /\ UNCHANGED inferences

Next == Clue \/ Discard \/ Play

Spec == Init /\ [][Next]_vars

-----------------------------------------------------------------------------
(* Properties *)

Views(i) == {games[i].common} \cup {games[i].players[p] : p \in Players}

InHands == UNION {Table.hands[p] : p \in Players}

Possible(view, o) == view.thoughts[o].possible

\* Elimination is sound: no view of any program rules out what a card is, in a
\* hand or still to be drawn, and card_elim never runs out of possibilities (its
\* throw), through every recursion, sudoku and endgame step.
TruthKept ==
  \A i \in Players : \A v \in Views(i) :
    /\ ~v.thrown
    /\ \A o \in InHands : shuffled[o] \in Possible(v, o)
    /\ \A o \in Orders : o > Table.cardOrder => shuffled[o] \in v.all_possible

\* Nobody is credited with knowledge they lack: what the program of seat i thinks
\* player p has ruled out about a card of p's own hand, p's program has ruled out,
\* although the two see different hands and eliminate in different orders.
\* Conventions rely on it when they expect p to play a card.
NoFalseCredit ==
  \A i, p \in Players : \A o \in Table.hands[p] :
    Possible(games[p].players[p], o) \subseteq Possible(games[i].players[p], o)

\* What any program holds to be common knowledge about a card, the player who
\* holds the card knows: onClue and onDiscard eliminate for common and for the
\* players separately, and team_elimP passes on the patched cards only.
CommonIsKnown ==
  \A i, p \in Players : \A o \in Table.hands[p] :
    Possible(games[p].players[p], o) \subseteq Possible(games[i].common, o)

\* Inferences stay within the possibilities of a view, through elimination, resets
\* and the copies of team_elimP: a bot never acts on an identity it has ruled out.
InferredPossible ==
  \A i \in Players : \A v \in Views(i) : \A o \in InHands :
    v.thoughts[o].inferred \subseteq Possible(v, o)

\* basic_elim's comment: an identity all of whose copies are known has been taken
\* off every card it can be taken off.
Propagated(v) ==
  \A id \in Ids : AllKnown(Start(v, Table), Table, id) =>
    ~UpdateMap(Start(v, Table), Table, id, {}).changed

\* The comment, of the views of the players.
PlayersPropagated == \A i, p \in Players : Propagated(games[i].players[p])

=============================================================================
