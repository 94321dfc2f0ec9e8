------------------------------- MODULE RefClue -------------------------------
(***************************************************************************)
(* src/conventions/ref-sieve/interpret-clue.js: what a clue means in the   *)
(* Referential Sieve.  The game record has, besides the fields of Basics,  *)
(* move, the last entry of moveHistory.                                    *)
(***************************************************************************)
EXTENDS Connecting, FiniteSetsExt

-----------------------------------------------------------------------------
(* interpret_clue *)

NewlyTouched(game, a) == {o \in a.list : game.common.thoughts[o].newly_clued}

\* The result of an interpretation: common knowledge, whether the players are
\* patched with it (patches is not empty), and the interpretation.
Result(common, patched, interp) == [common |-> common, patched |-> patched, interp |-> interp]

Failure(game) == Result(game.common, FALSE, "NONE")

\* What is written on the connecting card of conn: old is common knowledge before.
Connected(common, old, st, giver, conn) ==
  LET c        == common.thoughts[conn.order]
      inferred == old.thoughts[conn.order].inferred
      named    == [c EXCEPT !.inferred = IF c.superposition THEN inferred \cup conn.identities
                                         ELSE inferred \cap conn.identities,
                            !.superposition = TRUE]
  IN  [common EXCEPT !.thoughts =
         (conn.order :> IF conn.type # "finesse" THEN named
                        ELSE [UpdateStatus(named, "FINESSED") EXCEPT
                                !.firstTouch   = [giver |-> giver, turn |-> st.turn_count],
                                !.old_inferred = inferred]) @@ @]

WaitingFor(st, target, target_id, giver, poss) ==
  [connections |-> poss.connections, giver |-> giver, conn_index |-> 1,
   turn |-> st.turn_count, focus |-> target, inference |-> poss.id,
   symmetric |-> target_id \notin {NoId, poss.id}]

\* The card called to play may be any of ids.
Called(common, old, st, a, target, ids) ==
  LET c == UpdateStatus(common.thoughts[target], "CALLED_TO_PLAY")
      b == old.thoughts[target]
  IN  [common EXCEPT !.thoughts =
         (target :> [c EXCEPT
            !.inferred      = IF c.superposition THEN b.inferred \cup ids ELSE b.inferred \cap ids,
            !.info_lock     = b.possible \cap ids,
            !.firstTouch    = IF b.clued THEN @ ELSE [giver |-> a.giver, turn |-> st.turn_count],
            !.superposition = TRUE,
            !.focused       = @ \/ target \in a.list]) @@ @]

\* The possibilities of the target, [id, connections], that connect.
FocusPoss(game, a, target, unknown) ==
  LET old    == game.common.thoughts[target].inferred
      tried  == [id \in old |-> Connect(game, Search(target, id, a.giver, a.target, unknown))]
      good   == SelectSeq(InOrder(old), LAMBDA id : tried[id].success)
  IN  [k \in DOMAIN good |-> [id |-> good[k], connections |-> tried[good[k]].connections]]

TargetId(game, target) ==
  IF Identity(game.common.thoughts[target]) # NoId THEN Identity(game.common.thoughts[target])
  ELSE game.state.deck[target]

Includes(poss, id) == \E k \in DOMAIN poss : poss[k].id = id

\* The possibilities are written on the target and the cards connecting to it.
WriteTarget(game, a, target, poss) ==
  LET st        == game.state
      old       == game.common
      target_id == TargetId(game, target)
      conns     == FlattenSeq([k \in DOMAIN poss |->
                     IF target_id \in {NoId, poss[k].id} THEN poss[k].connections ELSE << >>])
      waiting   == SelectSeq(poss, LAMBDA fp : fp.connections # << >>)
      linked    == FoldLeft(LAMBDA v, conn : Connected(v, old, st, a.giver, conn), old, conns)
  IN  Called([linked EXCEPT !.waiting_connections =
                @ \o [k \in DOMAIN waiting |-> WaitingFor(st, target, target_id, a.giver, waiting[k])]],
             old, st, a, target, {poss[k].id : k \in DOMAIN poss})

\* target_play once the possibilities of everybody who cannot see the card are
\* found: what the card is must be one of them, or be reached through our hand.
TargetAs(game, a, target, poss, own, interp) ==
  LET target_id == TargetId(game, target)
  IN  IF target_id = NoId \/ Includes(poss, target_id)
      THEN Result(WriteTarget(game, a, target, poss), TRUE, interp)
      ELSE IF a.giver = game.state.ourPlayerIndex \/ ~own.success THEN Failure(game)
      ELSE Result(WriteTarget(game, a, target,
                    Append(poss, [id |-> target_id, connections |-> own.connections])),
                  TRUE, interp)

TargetPlay(game, a, target, interp) ==
  LET unknown == InferredIdentity(game.common.thoughts[target], TRUE) = NoId
  IN  TargetAs(game, a, target, FocusPoss(game, a, target, unknown),
               FindOwnFinesses(game, Search(target, TargetId(game, target), a.giver, a.target, unknown)),
               interp)

\* The card a referential play clue refers to.
RefPlayTarget(game, a, right) ==
  LET hand == game.state.hands[a.target]
      refs == {Refer(game.common, hand, o, IF right THEN "right" ELSE "left") : o \in NewlyTouched(game, a)}
  IN  IF right THEN Min(refs) ELSE Max(refs)

RefPlay(game, a, right) ==
  LET target == RefPlayTarget(game, a, right)
      c      == game.common.thoughts[target]
  IN  IF BlindPlaying(c) \/ c.status = "CALLED_TO_DC" THEN Failure(game)
      ELSE TargetPlay(game, a, target, "REF_PLAY")

WithFocus(common, focus) ==
  [common EXCEPT !.thoughts = (focus :> [common.thoughts[focus] EXCEPT !.focused = TRUE]) @@ @]

\* ref_discard: the next card after the focus that is not clued is called to
\* discard, or if there is none, the hand is locked.
RefDiscard(game, a) ==
  LET hand   == game.state.hands[a.target]
      focus  == Max(NewlyTouched(game, a))
      target == Newest({o \in hand : o < focus /\ ~game.common.thoughts[o].clued})
      with(orders, status) ==
        [game.common EXCEPT
           !.thoughts = [o \in orders |-> UpdateStatus(game.common.thoughts[o], status)] @@ @]
      free   == {o \in hand : game.common.thoughts[o].status = NoStatus}
  IN  IF target = NoOrder THEN Result(WithFocus(with(free, "CM"), focus), TRUE, "LOCK")
      ELSE Result(WithFocus(with({target}, "CALLED_TO_DC"), focus), TRUE, "REF_DC")

-----------------------------------------------------------------------------
(* prev is the game before clue a, game the one once it was heard and what *)
(* it fixes was reset; fixed are the cards it fixes.                       *)

Intent(game, a) ==
  IF a.clue.type = "colour" THEN RefPlayTarget(game, a, FALSE) ELSE Max(NewlyTouched(game, a))

Distributed(game, focus) ==
  LET c == game.common.thoughts[focus]
  IN  Result([game.common EXCEPT !.thoughts =
                (focus :> [c EXCEPT !.inferred = {id \in @ : ~IsBasicTrash(game.state, id)},
                                    !.certain_finessed = TRUE,
                                    !.reset = FALSE]) @@ @],
             TRUE, "REVEAL")

TrashPush(game, a) ==
  \A o \in NewlyTouched(game, a) :
    \A id \in game.common.thoughts[o].possible : IsBasicTrash(game.state, id)

PrevPlayables(prev, a) == ThinksPlayables(prev.common, prev.state, a.target, TRUE)

PrevLoaded(prev, a, fixed) ==
  \/ ThinksTrash(prev.common, prev.state, a.target) # {}
  \/ \E o \in prev.state.hands[a.target] : prev.common.thoughts[o].status = "CALLED_TO_DC"
  \/ PrevPlayables(prev, a) \ fixed # {}

Reclue(game, a) == TargetPlay(game, a, Max(a.list), "RECLUE")

\* A clue to a player who had something to do already.
InterpretLoaded(game, a, trash_push) ==
  IF NewlyTouched(game, a) = {} THEN Reclue(game, a)
  ELSE RefPlay(game, a, a.clue.type = "rank" /\ ~trash_push)

\* The clue reveals something to do.
RevealSafe(game, a, focuses) ==
  IF focuses THEN Result(WithFocus(game.common, Max(NewlyTouched(game, a))), TRUE, "REVEAL")
  ELSE Result(game.common, FALSE, "REVEAL")

\* A clue to a player who had nothing to do, or that fixes something.
InterpretUnloaded(prev, game, a, fix, trash_push) ==
  LET newly  == NewlyTouched(game, a)
      loaded == ThinksLoaded(game.common, game.state, a.target)
      just   == ThinksPlayables(game.common, game.state, a.target, FALSE) \ PrevPlayables(prev, a)
      rank   == a.clue.type = "rank"
  IN  IF newly = {} THEN IF loaded THEN RevealSafe(game, a, FALSE) ELSE Reclue(game, a)
      ELSE IF trash_push THEN RefPlay(game, a, FALSE)
      ELSE IF fix \/ (loaded /\ (rank \/ ~(just \subseteq newly)))
      THEN RevealSafe(game, a, ~fix /\ rank /\ just \subseteq newly)
      ELSE IF rank THEN RefDiscard(game, a) ELSE RefPlay(game, a, FALSE)

Interpretation(prev, game, a, fixed) ==
  LET fix        == fixed # {}
      trash_push == ~fix /\ TrashPush(game, a)
  IN  IF ~fix /\ ~trash_push /\ DistributionClue(game, a, Intent(game, a))
      THEN Distributed(game, Intent(game, a))
      ELSE IF ~fix /\ PrevLoaded(prev, a, fixed) THEN InterpretLoaded(game, a, trash_push)
      ELSE InterpretUnloaded(prev, game, a, fix, trash_push)

\* What a player learns: the patches listed by common knowledge, and then those of
\* the result.  produce lists a change of a card as a patch of the whole array, so
\* that the thoughts of common knowledge replace the thoughts of the player.
Taught(view, common, result, st) ==
  LET told == Patched(common, view)
  IN  RefreshLinks(GoodTouchElim([told EXCEPT !.thoughts = IF result.patched THEN result.common.thoughts
                                                           ELSE @],
                                 st, NumPlayers = 2), st)

Concluded(game, result) ==
  LET common == Settled(result.common, game.state)
  IN  IF result.interp = "NONE" THEN [game EXCEPT !.common = result.common, !.move = "NONE"]
      ELSE [game EXCEPT
              !.common  = [common EXCEPT !.patches = << >>],
              !.players = [p \in Players |->
                             Taught(game.players[p], common, result, game.state)],
              !.move    = result.interp]

InterpretFixed(prev, game, a, fixed) ==
  Concluded(game, Interpretation(prev, game, a, fixed))

\* interpret_clue, unless the fix is a rewind
InterpretHeard(prev, heard, a) ==
  LET fix == CheckFix(heard, prev.common.thoughts, a)
  IN  InterpretFixed(prev, [fix.game EXCEPT !.common = Settled(@, fix.game.state)], a,
                     fix.all_resets \cup fix.duplicate_reveal)
=============================================================================
