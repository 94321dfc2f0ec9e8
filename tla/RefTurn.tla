------------------------------- MODULE RefTurn -------------------------------
(***************************************************************************)
(* interpret-play.js, interpret-discard.js and update-turn.js of           *)
(* src/conventions/ref-sieve: what a play or a discard means, and what     *)
(* becomes of the waiting connections when a turn has been taken.  The     *)
(* rewinds these functions ask for are left to RefSieve, which has the     *)
(* replay: each of them is a pair here, the rewind and what is done if     *)
(* there is none or it is refused.                                         *)
(***************************************************************************)
EXTENDS RefClue, Unlocking

\* the cards of a hand that were called to discard are no longer
Uncalled(common, old, hand) ==
  FoldLeft(LAMBDA v, o : IF old.thoughts[o].status # "CALLED_TO_DC" THEN v
                         ELSE WithThoughts(v, o, [status |-> NoStatus]),
           common, NewestFirst(hand))

-----------------------------------------------------------------------------
(* interpret_play *)

\* At a table of two, a play promises something to a partner who is locked.
Unlocked(game, a) ==
  LET other == NextPlayerIndex(a.playerIndex)
  IN  IF ~ThinksLocked(game.common, game.state, other) THEN NoMoreShifts(game)
      ELSE Unlocking(Unshifted(game, a.order), a, other,
                     UnlockPromise(game, a, other, game.locked_shifts[a.order]))

\* The state before the play is used for the last elimination.
PlayConcluded(before, played, a) ==
  TeamElimP([played EXCEPT
    !.common = Settled(IF NumPlayers = 2 THEN @
                       ELSE Uncalled(@, before.common, before.state.hands[a.playerIndex]),
                       before.state)])

PlayHeard(game, a) ==
  PlayConcluded(game, GamePlay(IF NumPlayers = 2 THEN Unlocked(game, a) ELSE game, a), a)

\* We did not know what we play: the game is replayed with its identity.
PlayRewinds(game, a) ==
  LET c == game.common.thoughts[a.order]
  IN  a.playerIndex = game.state.ourPlayerIndex /\ c.inferred # {a.id} /\ ~c.rewinded

-----------------------------------------------------------------------------
(* interpret_rs_sarcastic and interpret_discard *)

\* The receivers of a discard of id, with the cards it may be about.
SarcasticReceivers(game, common, a) ==
  LET us == game.state.ourPlayerIndex
      me == game.players[us]
      told(r) == LET q == Oldest(FindSarcastics(game.state, r, common, a.id))
                 IN  /\ r # a.playerIndex /\ q # NoOrder
                     /\ a.id = IF r = us THEN InferredIdentity(me.thoughts[q], FALSE)
                               ELSE Identity(me.thoughts[q])
  IN  SelectSeq(FromUs(game.state), told)

\* The oldest card is tested, and the newest one is written.
RsSarcastic(game, a) ==
  LET st        == game.state
      us        == st.ourPlayerIndex
      common    == IF IsPlayable(st, a.id) THEN game.common ELSE InterpretSarcastic(game, a)
      receivers == SarcasticReceivers(game, common, a)
      ours      == FindSarcastics(st, us, game.players[us], a.id)
  IN  IF receivers # << >>
      THEN WithThoughts(common, Newest(FindSarcastics(st, receivers[1], common, a.id)),
                        [inferred |-> {a.id}])
      ELSE IF ours # {} THEN WithThoughts(common, Oldest(ours), [inferred |-> {a.id}, trash |-> FALSE])
      ELSE common

\* common knowledge after the discard of a card that was clued and useful; that of
\* onDiscard is given up for the one before, unless the card was misplayed.
UsefulDiscard(game, gone, a) ==
  IF ~(game.common.thoughts[a.order].clued /\ Useful(gone.state, a.id)) THEN gone.common
  ELSE IF a.failed THEN RestoreElim(gone.common, a.id)
  ELSE RsSarcastic(game, a)

PermissionToDiscard(common, st, partner) ==
  IF \/ ThinksLoaded(common, st, partner)
     \/ \E o \in st.hands[partner] : common.thoughts[o].status = "CALLED_TO_DC"
  THEN common
  ELSE WithThoughts(common, Newest(st.hands[partner]), [permission_to_discard |-> TRUE])

DiscardConcluded(game, common) ==
  TeamElimP([game EXCEPT !.common = Settled(common, game.state)])

DiscardTo(gone, a, common) ==
  LET partner == NextPlayerIndex(a.playerIndex)
      locked  == ThinksLocked(common, gone.state, partner)
  IN  DiscardConcluded(
        IF NumPlayers = 2 /\ locked
        THEN Shifted(gone, ThinksPlayables(common, gone.state, a.playerIndex, FALSE))
        ELSE gone,
        IF NumPlayers = 2 THEN PermissionToDiscard(common, gone.state, partner)
        ELSE Uncalled(common, common, gone.state.hands[a.playerIndex]))

DiscardFrom(game, gone, a) == DiscardTo(gone, a, UsefulDiscard(game, gone, a))

InterpretDiscard(game, a) == DiscardFrom(game, GameDiscard(game, a), a)

-----------------------------------------------------------------------------
(* update_turn.  A waiting connection wc is resolved when the player it    *)
(* waits for has taken a turn.                                             *)

Current(wc) == wc.connections[wc.conn_index]

Kept       == [remove |-> FALSE, remove_finesse |-> FALSE, rewind |-> FALSE, next_index |-> 0]
Removed    == [Kept EXCEPT !.remove = TRUE]
Undone     == [Removed EXCEPT !.remove_finesse = TRUE]
Redone     == [Kept EXCEPT !.rewind = TRUE]
NextUp(k)  == [Kept EXCEPT !.next_index = k]

\* The card may be a later one of another connection, whose player waits for
\* somebody else or has tried to play.
Superposed(game, wc, last) ==
  LET conn == Current(wc)
  IN  \E other \in ToSet(game.common.waiting_connections) \ {wc} :
        /\ \E k \in InWaiting([other EXCEPT !.conn_index = wc.conn_index]) :
             /\ other.connections[k].order = conn.order
             /\ \E id \in other.connections[k].identities : PlayableAway(game.state, id) > 0
        /\ Current(other).reacting # conn.reacting \/ last.type = "play"

\* finesse_index is -1 throughout, so that no finesse is older than another.
JumpedAhead(game, wc, last) ==
  LET play     == game.common.thoughts[last.order]
      expected == game.common.thoughts[Current(wc).order]
  IN  /\ BlindPlaying(play)
      /\ \/ play.finesse_index < expected.finesse_index
         \/ expected.hidden /\ expected.clued /\ play.finesse_index = expected.finesse_index

AttemptedBomb(game, wc, last) ==
  /\ last.type = "discard" /\ last.failed
  /\ Current(wc).identities \cap game.players[Current(wc).reacting].thoughts[last.order].possible # {}

\* a finesse or a prompt that was not played
BlindRetained(game, wc, last) ==
  LET conn == Current(wc)
      id   == game.state.deck[conn.order]
  IN  IF id # NoId /\ PlayableAway(game.state, id) > 0 THEN Kept
      ELSE IF last.type = "clue" THEN Undone
      ELSE IF \/ last.type = "play" /\ (conn.type = "prompt" \/ JumpedAhead(game, wc, last))
              \/ Superposed(game, wc, last) \/ AttemptedBomb(game, wc, last)
      THEN Kept
      ELSE Undone

\* resolve_card_retained
ResolveCardRetained(game, wc, last) ==
  IF Current(wc).type \in {"finesse", "prompt"} THEN BlindRetained(game, wc, last)
  ELSE IF last.type = "discard" /\ ~last.failed
       /\ \A id \in Current(wc).identities : IsBasicTrash(game.state, id) \/ IsPlayable(game.state, id)
  THEN Redone ELSE Kept

\* Mutant of ResolveCardGone: a connection that is not played as expected is waited for.
MutantResolveCardGone(game, wc, last) ==
  LET next == {k \in DOMAIN wc.connections :
                 /\ k > wc.conn_index
                 /\ wc.connections[k].order \in game.state.hands[wc.connections[k].reacting]}
  IN  IF /\ last.type = "play" /\ last.order = Current(wc).order
         /\ game.state.deck[last.order] \in Current(wc).identities
      THEN IF next = {} THEN Removed ELSE NextUp(Min(next))
      ELSE Kept

\* resolve_card_gone
ResolveCardGone(game, wc, last) ==
  LET next == {k \in DOMAIN wc.connections :
                 /\ k > wc.conn_index
                 /\ wc.connections[k].order \in game.state.hands[wc.connections[k].reacting]}
  IN  IF /\ last.type = "play" /\ last.order = Current(wc).order
         /\ game.state.deck[last.order] \in Current(wc).identities
      THEN IF next = {} THEN Removed ELSE NextUp(Min(next))
      ELSE Undone

\* What becomes of wc when player last has taken a turn.
Resolve(game, wc, last) ==
  IF Current(wc).reacting # last THEN Kept
  ELSE IF Current(wc).order \in game.state.hands[last]
  THEN ResolveCardRetained(game, wc, game.last_actions[last])
  ELSE ResolveCardGone(game, wc, game.last_actions[last])

\* What is left of the inferences of a connecting card.
Unnoted(c, conn) ==
  IF conn.type \notin {"finesse", "prompt"} THEN c.inferred
  ELSE IF c.hidden THEN {} ELSE c.inferred \ conn.identities

\* A card without inferences is what it was before the connection.
Unconnected(common, conn) ==
  LET c    == common.thoughts[conn.order]
      left == Unnoted(c, conn)
      was  == RevertStatus(c)
  IN  IF c.superposition \/ left # {} THEN WithThoughts(common, conn.order, [inferred |-> left])
      ELSE WithThoughts(common, conn.order,
             [inferred      |-> IF c.old_inferred # NoSet THEN c.old_inferred \cap c.possible ELSE left,
              status        |-> was.status,
              last_status   |-> was.last_status,
              hidden        |-> FALSE,
              superposition |-> c.superposition \/ c.old_inferred # NoSet,
              old_inferred  |-> NoSet])

\* The focus is not the inference that was waited for.  A reset of it is not listed
\* for the players.
Disproved(common, wc) ==
  LET c    == common.thoughts[wc.focus]
      less == IF Cardinality(c.possible) = 1 THEN common
              ELSE WithThoughts(common, wc.focus, [inferred |-> c.inferred \ {wc.inference}])
      left == less.thoughts[wc.focus]
  IN  IF left.inferred = {} /\ ~left.reset
      THEN [less EXCEPT !.thoughts = (wc.focus :> ResetInferences(left)) @@ @]
      ELSE less

\* remove_finesse_conns
RemoveFinesseConns(common, wc) ==
  Disproved(IF wc.symmetric THEN common ELSE FoldLeft(Unconnected, common, wc.connections), wc)

\* The connections that are resolved, in turn: a later one sees the conn_index of
\* an earlier one advanced, which is done in place.
Resolutions(game, last) ==
  LET step(g, k) == LET r == Resolve(g, g.common.waiting_connections[k], last)
                    IN  [g EXCEPT !.resolved = Append(@, r),
                                  !.common.waiting_connections[k].conn_index =
                                    IF r.next_index # 0 THEN r.next_index ELSE @]
      steps == [k \in 1 .. Len(game.common.waiting_connections) |-> k]
  IN  FoldLeft(step, [resolved |-> << >>] @@ game, steps)

\* A rewind that is refused leaves a removal.
TurnUpdated(game, done) ==
  LET wcs      == done.common.waiting_connections
      gone(r)  == r.remove \/ r.rewind
      undone   == SelectSeq([k \in DOMAIN wcs |-> k],
                            LAMBDA k : done.resolved[k].remove_finesse \/ done.resolved[k].rewind)
      left     == SelectSeq([k \in DOMAIN wcs |-> k], LAMBDA k : ~gone(done.resolved[k]))
      common   == FoldLeft(LAMBDA v, k : RemoveFinesseConns(v, wcs[k]), done.common, undone)
  IN  TeamElimP([game EXCEPT !.common =
        GoodTouchElim([common EXCEPT !.waiting_connections = [k \in DOMAIN left |-> wcs[left[k]]]],
                      game.state, FALSE)])
=============================================================================
