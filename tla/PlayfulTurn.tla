----------------------------- MODULE PlayfulTurn -----------------------------
(***************************************************************************)
(* interpret-play.js, interpret-discard.js and update-turn.js of           *)
(* src/conventions/playful-sieve, without the rewinds they ask for, which  *)
(* are left to PlayfulSieve.  The convention is for two players.           *)
(***************************************************************************)
EXTENDS PlayfulClue

\* What basics.mutate takes over of a play or a discard: deck_ids is not in it.
Mutated(game, gone) == [gone EXCEPT !.state.deck_ids = game.state.deck_ids]

-----------------------------------------------------------------------------
(* interpret_play *)

PlayRewinds(game, a) ==
  LET c == game.common.thoughts[a.order]
  IN  a.playerIndex = game.state.ourPlayerIndex /\ c.inferred # {a.id} /\ ~c.rewinded

\* Whatever the card is, the other player knows a card to play on it.
KnownConnecting(game, a, other) ==
  \A inf \in game.common.thoughts[a.order].inferred :
    \E o \in game.state.hands[other] : \A id \in game.common.thoughts[o].inferred :
      IsPlayable(game.state, id) \/ (id[1] = inf[1] /\ PlayableAway(game.state, id) = 1)

\* The other player has nothing safe to do.
Unprovided(game, a, other) ==
  /\ ~ThinksLoaded(game.common, game.state, other)
  /\ CalledToDiscard(game.common, game.state.hands[other]) = {}
  /\ ~KnownConnecting(game, a, other)
  /\ game.state.clue_tokens > 0

\* The chop may be the next card of a suit, of that of a known card the one after it.
ChopIds(game, a) ==
  LET known  == Cardinality(game.common.thoughts[a.order].inferred) = 1
      others == {Masked(<<s, game.state.play_stacks[s] + 1>>) : s \in Suits \ {a.id[1]}}
  IN  others \cup {Masked(<<a.id[1], IF known THEN a.id[2] + 1
                                     ELSE game.state.play_stacks[a.id[1]] + 1>>)}

\* what a play says to the other player; shifts are those of the card
PlayTold(game, a, other, shifts, locked) ==
  IF locked THEN Unlocking(game, a, other, UnlockPromise(game, a, other, shifts))
  ELSE IF Unprovided(game, a, other)
  THEN [game EXCEPT !.common = ChopToPlay(@, Newest(game.state.hands[other]), ChopIds(game, a))]
  ELSE NoMoreShifts(game)

PlaySettled(game) == TeamElimP([game EXCEPT !.common = Settled(@, game.state)])

Played(game, a) == PlaySettled(Mutated(game, GamePlay(game, a)))

PlayHeard(game, a) ==
  LET other == NextPlayerIndex(a.playerIndex)
  IN  Played(PlayTold(Unshifted(game, a.order), a, other, game.locked_shifts[a.order],
                      ThinksLocked(game.common, game.state, other)),
             a)

-----------------------------------------------------------------------------
(* interpret_discard *)

\* A misplay or a card that is not what was thought of it: gone is the game after it.
DiscardRewinds(gone, a) ==
  LET c  == gone.common.thoughts[a.order]
      me == gone.players[gone.state.ourPlayerIndex]
  IN  /\ ~c.rewinded
      /\ \/ a.failed
         \/ /\ ~HasConsistentInferences(gone.state, a.order, c)
            /\ ~IsTrash(me, gone.state, gone.state.deck[a.order], a.order, FALSE)

SarcasticDiscard(game, a) == [game EXCEPT !.common = InterpretSarcastic(game, a)]

\* A clued card that is still needed.
UsefulDiscard(gone, a) ==
  LET restored == [gone EXCEPT !.common = RestoreElim(@, a.id)]
  IN  IF ~gone.common.thoughts[a.order].clued \/ ~Useful(gone.state, a.id) THEN gone
      ELSE IF a.failed THEN [restored EXCEPT !.common = UndoHypoStacks(@, a.id)]
      ELSE SarcasticDiscard(restored, a)

\* The chop of the other player, who has nothing safe to do, is playable.
DiscardTold(game, a, other, had_trash) ==
  IF ThinksLocked(game.common, game.state, other)
  THEN Shifted(game, ThinksPlayables(game.common, game.state, a.playerIndex, FALSE))
  ELSE IF \/ had_trash
          \/ ThinksPlayables(game.common, game.state, other, FALSE) # {}
          \/ CalledToDiscard(game.common, game.state.hands[other]) # {}
  THEN game
  ELSE [game EXCEPT !.common =
          ChopToPlay(@, Newest(game.state.hands[other]), NextCards(game.state.play_stacks))]

\* interpret_discard of a discard that does not replay the game: before is the game
\* before it.
DiscardHeard(before, gone, a) ==
  LET other == NextPlayerIndex(a.playerIndex)
  IN  DiscardTold(UsefulDiscard(gone, a), a, other,
                  ThinksTrash(before.common, before.state, other) # {})

-----------------------------------------------------------------------------
(* update_turn: a card that was waited for has been played. *)

Current(wc) == wc.connections[wc.conn_index]

\* The player who was waited for has played, and no longer has the card.
Awaited(game, wc, last) ==
  /\ Current(wc).reacting = last
  /\ Current(wc).order \notin game.state.hands[last]
  /\ game.last_actions[last].type = "play"

\* It is the card that was played that counts, whether it was the one waited for or not.
Disproved(game, wc, last) ==
  game.state.deck[game.last_actions[last].order] \notin Current(wc).identities

StillHeld(game, wc) ==
  {k \in DOMAIN wc.connections : /\ k > wc.conn_index
                                 /\ wc.connections[k].order \in game.state.hands[wc.connections[k].reacting]}

\* The waiting connections are looked at in turn, with those that stay.
TurnStep(game, wc, last) ==
  IF ~Awaited(game, wc, last) THEN [game EXCEPT !.waiting = Append(@, wc)]
  ELSE IF Disproved(game, wc, last)
  THEN [game EXCEPT !.common = WithThoughts(@, wc.focus,
          [inferred |-> @.thoughts[wc.focus].inferred \ {Masked(wc.inference)}])]
  ELSE IF StillHeld(game, wc) = {} THEN game
  ELSE [game EXCEPT !.waiting = Append(@, [wc EXCEPT !.conn_index = Min(StillHeld(game, wc))])]

TurnSteps(game, last) ==
  FoldLeft(LAMBDA g, wc : TurnStep(g, wc, last), [waiting |-> << >>] @@ game,
           game.common.waiting_connections)

TurnTaken(game, done) ==
  LET common == [done.common EXCEPT !.waiting_connections = done.waiting]
  IN  TeamElimP([game EXCEPT
        !.common = UpdateHypoStacks(GoodTouchElim(common, game.state, FALSE), game.state)])

UpdateTurn(game, a) == TurnTaken(game, TurnSteps(game, NextPlayerIndex(a.currentPlayerIndex)))
=============================================================================
