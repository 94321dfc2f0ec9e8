------------------------------- MODULE RefSieve -------------------------------
(***************************************************************************)
(* The Referential Sieve at a table: handle_action (src/action-handler.js) *)
(* with the interpretations of the convention, and Game.rewind             *)
(* (src/basics/Game.js), which the interpretations call and which replays  *)
(* a game through handle_action.                                           *)
(*                                                                         *)
(* A player takes any legal move: what is interpreted is not what the      *)
(* convention would have chosen.                                           *)
(***************************************************************************)
EXTENDS RefTurn, Handling

RECURSIVE HandleAction(_, _)

\* rewind
Rewind(game, index, action) ==
  FoldLeft(LAMBDA g, a : IF Redrawn(g, a) THEN g ELSE HandleAction(g, a),
           CreateBlank(game), Replayed(game, index, action))

\* Replay the game with the identity of card o, known since it was drawn, if that is
\* wanted and not refused.
RewindCard(wanted, game, o, p, id, otherwise) ==
  IF ~wanted \/ Refused(game, game.state.drawn_index[o] + 1, Identify(o, p, id)) THEN otherwise
  ELSE Rewind(game, game.state.drawn_index[o] + 1, Identify(o, p, id))

\* interpret_clue
InterpretFix(game, heard, a, o) ==
  RewindCard(o # NoOrder, heard, o, HeldBy(heard.state, o), Only(heard.common.thoughts[o].possible),
             InterpretHeard(game, heard, a))

InterpretOnClue(game, heard, a) ==
  InterpretFix(game, heard, a, FixRewind(heard, game.common.thoughts, a))

InterpretClue(game, a) == InterpretOnClue(game, GameClue(game, a), a)

\* interpret_play
InterpretPlay(game, a) ==
  RewindCard(PlayRewinds(game, a), game, a.order, a.playerIndex, a.id, PlayHeard(game, a))

\* The first rewind of update_turn that is not refused.
TurnRewind(game, done) ==
  LET wcs == done.common.waiting_connections
  IN  {k \in DOMAIN wcs : /\ done.resolved[k].rewind
                          /\ ~Refused(game, wcs[k].turn, Ignore(Current(wcs[k]).order, wcs[k].inference))}

UpdateResolved(game, done) ==
  LET asked == TurnRewind(game, done)
      wc    == done.common.waiting_connections[Min(asked)]
  IN  IF asked = {} THEN TurnUpdated(game, done)
      ELSE Rewind(game, wc.turn, Ignore(Current(wc).order, wc.inference))

UpdateTurn(game, a) ==
  UpdateResolved(game, Resolutions(game, (a.currentPlayerIndex + NumPlayers - 1) % NumPlayers))

Interpreted(game, a) ==
  CASE a.type = "clue"     -> ClueDone(InterpretClue(game, a), a)
    [] a.type = "play"     -> Moved(InterpretPlay(Shown(game, a), a), a)
    [] a.type = "discard"  -> Moved(InterpretDiscard(Shown(game, a), a), a)
    [] a.type = "draw"     -> GameDraw(game, a)
    [] a.type = "turn"     -> UpdateTurn([game EXCEPT !.state = HandleTurn(@, a.num, a.currentPlayerIndex)], a)
    [] a.type = "identify" -> Identified(game, a)
    [] a.type = "ignore"   -> [game EXCEPT !.next_ignore = @ \cup {[order |-> a.order, inference |-> a.inference]}]

HandleAction(game, a) == Interpreted(Listed(game, a), a)

-----------------------------------------------------------------------------
(* The table *)

\* A seat's game after the actions of a turn: it is not told what it draws.
Told(s, acts) ==
  LET told(a) == IF a.type = "draw" /\ a.playerIndex = s THEN [a EXCEPT !.id = NoId] ELSE a
  IN  FoldLeft(LAMBDA g, a : HandleAction(g, told(a)), games[s], acts)

\* Every program handles the actions of the turn, in their order.
Handle ==
  /\ sent # << >>
  /\ games' = [s \in Seats |-> Told(s, sent)]
  /\ sent' = << >>
  /\ UNCHANGED shuffled

Next ==
  \/ \E target \in Players, clue \in Clues : Clue(target, clue)
  \/ \E o \in Orders : Play(o)
  \/ \E o \in Orders : Discard(o)
  \/ Handle

Spec == Init /\ [][Next]_vars

-----------------------------------------------------------------------------
(* Properties *)

Views(g) == {g.common} \cup {g.players[p] : p \in Players}

\* Whatever the convention concludes from clues, plays and discards, and however often a
\* game is replayed with what was learnt later, no view rules out what a card really is:
\* card_elim and onClue (src/basics) only take away what is impossible, in the
\* game of every seat, with its own unknown hand.
TruthKept ==
  \A s \in Seats : \A o \in Held(games[s].state) : \A v \in Views(games[s]) :
    shuffled[o] \in v.thoughts[o].possible

\* What the players see together does not depend on how they got there: a seat that has
\* replayed its game, with insertions nobody else made, has the same hands, stacks,
\* tokens, strikes and turn as one that has not (rewind, src/basics/Game.js).
PublicAgreed ==
  \A s, t \in Seats : \A f \in {"turn_count", "clue_tokens", "strikes", "hands", "drawn_index",
                              "play_stacks", "discard_stacks", "max_ranks", "cardsLeft",
                              "endgameTurns", "currentPlayerIndex"} :
    games[s].state[f] = games[t].state[f]

\* A connection of a link that is waited for is a card that is still in the hand of the
\* player who is to play it: update_turn (src/conventions/ref-sieve/update-turn.js) moves
\* on past the cards that have gone, also when they went in another way than expected.
ConnectionsHeld ==
  \A s \in Seats : \A wc \in ToSet(games[s].common.waiting_connections) :
    Current(wc).order \in games[s].state.hands[Current(wc).reacting]

\* What a game was replayed for is not lost in the replay: the card that was identified
\* is no longer held, known as what it is, and marked as rewinded, which keeps the
\* interpretations from asking for the same replay for ever (a rewind inserts the identity
\* after the draw of the card, whose action makes a card without a mark).
RewoundKnown ==
  \A s \in Seats : \A e \in ToSet(games[s].actionList) :
    e.action.type = "identify"
      => /\ e.action.id = shuffled[e.action.order]
         /\ Identity(games[s].common.thoughts[e.action.order]) = e.action.id
         /\ games[s].common.thoughts[e.action.order].rewinded
         /\ e.action.order \notin Held(games[s].state)

\* What seems lost of a card is never found again: from turn to turn the possibilities
\* of a held card only get fewer, although a rewind starts again from nothing.
KnowledgeGrows ==
  [][\A s \in Seats : \A o \in Held(games'[s].state) \cap Held(games[s].state) :
       games'[s].common.thoughts[o].possible \subseteq games[s].common.thoughts[o].possible]_vars

\* "Only add the inference back if it's still a possibility" (player-elim.js:782): what
\* is thought of a card is possible.
InferredPossible ==
  \A s \in Seats : \A o \in Held(games[s].state) :
    games[s].common.thoughts[o].inferred \subseteq games[s].common.thoughts[o].possible
=============================================================================
