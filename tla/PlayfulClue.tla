----------------------------- MODULE PlayfulClue -----------------------------
(***************************************************************************)
(* src/conventions/playful-sieve/interpret-clue.js: what a clue means in   *)
(* the Playful Sieve.  newly are the cards that the clue a is the first to *)
(* touch: newly_clued of the deck, which a replay in the middle of the     *)
(* interpretation leaves alone, unlike that of common knowledge.           *)
(***************************************************************************)
EXTENDS Unlocking, FiniteSetsExt

WithStatus(common, o, status) ==
  WithThoughts(common, o, [status |-> status, last_status |-> common.thoughts[o].status])

CalledToDiscard(common, hand) == {o \in hand : common.thoughts[o].status = "CALLED_TO_DC"}

\* playable_possibilities: the next card of every suit
NextCards(stacks) == {Masked(<<s, stacks[s] + 1>>) : s \in Suits}

\* A card of which nothing was known is the one to play.
ChopToPlay(common, chop, ids) ==
  WithThoughts(WithStatus(common, chop, "CALLED_TO_PLAY"), chop,
               [old_inferred |-> common.thoughts[chop].inferred,
                inferred     |-> common.thoughts[chop].inferred \cap ids])

-----------------------------------------------------------------------------
(* The cards a clue refers to *)

\* the next card to the right of o that has no clue, or slot 1
NextUnclued(hand, unclued, o) ==
  IF unclued = {} THEN Newest(hand)
  ELSE IF \E q \in unclued : q < o THEN Newest({q \in unclued : q < o})
  ELSE Newest(unclued)

ReferredDiscard(common, hand, newly) ==
  LET unclued == {o \in hand : ~common.thoughts[o].clued}
  IN  Max({NextUnclued(hand, unclued, o) : o \in newly})

ReferredPlay(common, hand, newly) == Min({Refer(common, hand, o, "right") : o \in newly})

-----------------------------------------------------------------------------
(* interpret_locked_clue: the giver has nothing else to do. *)

\* locked_hand_ptd, with order 0 taken for none
PermitDiscard(common, hand) ==
  LET ptd == Newest({o \in hand : ~Saved(common.thoughts[o])})
  IN  IF ptd > 0 THEN WithStatus(common, ptd, "CALLED_TO_DC") ELSE common

LockedRefDiscard(common, newly, target) ==
  IF newly \subseteq {target} THEN common ELSE WithStatus(common, target, "CALLED_TO_DC")

\* The hand has something to discard already.
HasDiscard(common, st, target) ==
  ThinksTrash(common, st, target) # {} \/ CalledToDiscard(common, st.hands[target]) # {}

InterpretLockedClue(common, st, a, newly) ==
  LET hand  == st.hands[a.target]
      slot1 == Newest(hand)
      next  == Masked(<<a.clue.value, common.hypo.stacks[a.clue.value] + 1>>)
  IN  IF a.clue.type = "colour" /\ common.thoughts[slot1].newly_clued
      THEN PermitDiscard(WithThoughts(common, slot1,
                           [inferred |-> common.thoughts[slot1].inferred \cap {next}]),
                         hand)
      ELSE IF HasDiscard(common, st, a.target) THEN common
      ELSE IF a.clue.type = "rank" /\ newly # {}
      THEN LockedRefDiscard(common, newly, ReferredDiscard(common, hand, newly))
      ELSE PermitDiscard(common, hand)

-----------------------------------------------------------------------------
(* The meanings of a clue to play or to discard *)

\* The chop is not called to play: the hand is kept.
LockHand(game, a) ==
  [game EXCEPT
     !.lock   = TRUE,
     !.common = FoldLeft(LAMBDA v, o : IF v.thoughts[o].clued THEN v ELSE WithStatus(v, o, "CM"),
                         @, NewestFirst(game.state.hands[a.target]))]

UnknownPlays(game, a) == NewestFirst(game.common.hypo.unknown \cap game.state.hands[a.target])

\* The card called to play may come after any of the unknown plays.
WaitingOnUnknown(game, a, target) ==
  FlattenSeq([k \in DOMAIN UnknownPlays(game, a) |->
    LET unk == UnknownPlays(game, a)[k]
        ids == InOrder(game.common.thoughts[unk].inferred)
    IN  [j \in DOMAIN ids |->
           [connections |-> <<[type |-> "finesse", reacting |-> a.target, order |-> unk,
                               identities |-> {ids[j]}]>>,
            giver |-> a.giver, conn_index |-> 1, turn |-> game.state.turn_count,
            focus |-> target, inference |-> <<ids[j][1], ids[j][2] + 1>>, symmetric |-> FALSE]]])

AfterUnknown(game, a) ==
  {Masked(<<id[1], id[2] + 1>>) :
     id \in UNION {game.common.thoughts[o].inferred : o \in ToSet(UnknownPlays(game, a))}}

CallToPlay(common, target, ids) ==
  LET called == ChopToPlay(common, target, ids)
  IN  WithThoughts(called, target, [focused |-> TRUE])

RefPlayOn(game, a, target, loaded) ==
  IF target = Newest(game.state.hands[a.target]) /\ ~loaded THEN LockHand(game, a)
  ELSE IF loaded
  THEN [game EXCEPT !.common =
          CallToPlay([@ EXCEPT !.waiting_connections = @ \o WaitingOnUnknown(game, a, target)],
                     target, NextCards(game.common.hypo.stacks) \cup AfterUnknown(game, a))]
  ELSE [game EXCEPT !.common = CallToPlay(@, target, NextCards(game.state.play_stacks))]

RefPlay(game, a, newly) ==
  RefPlayOn(game, a, ReferredPlay(game.common, game.state.hands[a.target], newly),
            ThinksLoaded(game.common, game.state, a.target))

\* A rank clue to a loaded hand says that its first new card is playable.
LoadedRankPlay(game, a, focus) ==
  IF ~\E s \in Suits : game.state.play_stacks[s] + 1 = a.clue.value THEN game
  ELSE [game EXCEPT !.common = WithThoughts(@, focus,
          [focused  |-> TRUE,
           inferred |-> @.thoughts[focus].inferred \cap NextCards(game.state.play_stacks)])]

RefDiscardOn(game, newly, target) ==
  IF target \in newly THEN [game EXCEPT !.lock = TRUE]
  ELSE [game EXCEPT !.common = WithStatus(@, target, "CALLED_TO_DC")]

RefDiscard(game, a, newly) ==
  LET focus == Newest(newly)
  IN  IF \A id \in game.common.thoughts[focus].inferred : IsPlayable(game.state, id)
      THEN [game EXCEPT !.common = WithThoughts(@, focus, [focused |-> TRUE])]
      ELSE IF \/ ThinksTrash(game.common, game.state, a.target) # {}
              \/ ThinksPlayables(game.common, game.state, a.target, TRUE) # {}
      THEN LoadedRankPlay(game, a, focus)
      ELSE RefDiscardOn(game, newly, ReferredDiscard(game.common, game.state.hands[a.target], newly))

\* The clue has shown the player something safe to do.
NewSafeAction(prev, game, a, trash_push) ==
  \/ ThinksPlayables(game.common, game.state, a.target, FALSE)
       \ ThinksPlayables(prev.common, prev.state, a.target, FALSE) # {}
  \/ /\ ~trash_push
     /\ \E o \in ThinksTrash(game.common, game.state, a.target)
                   \ ThinksTrash(prev.common, prev.state, a.target) : game.common.thoughts[o].clued

InterpretOpenClue(prev, game, a, newly, fix, trash_push) ==
  IF ~(a.list \subseteq newly) /\ NewSafeAction(prev, game, a, trash_push) THEN game
  ELSE IF fix THEN game
  ELSE IF newly = {}
  THEN [game EXCEPT !.common = WithStatus(@, Newest(game.state.hands[a.target]), "CALLED_TO_DC")]
  ELSE IF a.clue.type = "colour" \/ trash_push THEN RefPlay(game, a, newly)
  ELSE RefDiscard(game, a, newly)

TrashPush(game, newly, fix) ==
  /\ ~fix /\ newly # {}
  /\ \A o \in newly : \A id \in game.common.thoughts[o].inferred :
       IsTrash(game.common, game.state, id, o, TRUE)

-----------------------------------------------------------------------------
(* interpret_clue *)

\* update_hypo_stacks and team_elim end it.
Concluded(game) ==
  TeamElimP([game EXCEPT !.common = UpdateHypoStacks(Settled(@, game.state), game.state)])

Interpretation(prev, game, a, newly, fix) ==
  Concluded(
    IF ThinksLocked(game.common, game.state, a.giver)
    THEN [game EXCEPT !.common = InterpretLockedClue(@, game.state, a, newly)]
    ELSE InterpretOpenClue(prev, game, a, newly, fix, TrashPush(game, newly, fix)))

\* The finessed cards that are clued after a play of what they may be.
Revocable(prev, game, a) ==
  LET last == game.last_actions[a.giver]
  IN  IF last.type # "play" THEN {}
      ELSE {o \in game.state.hands[a.target] :
              /\ BlindPlaying(prev.common.thoughts[o])
              /\ game.common.thoughts[o].newly_clued
              /\ game.state.deck[last.order] \in game.common.thoughts[o].possible}

\* They are not to get other inferences back from a false elimination.
Revoke(common, o, id) ==
  [WithThoughts(common, o, [inferred |-> {id}, status |-> NoStatus,
                            certain_finessed |-> TRUE, reset |-> TRUE])
     EXCEPT !.elims = [i \in Ids |-> WithoutFirst(common.elims[i], o)]]

Revoked(game, a, orders) ==
  IF orders = {} THEN game
  ELSE [game EXCEPT !.common =
          FoldLeft(LAMBDA v, o : Revoke(v, o, game.state.deck[game.last_actions[a.giver].order]),
                   @, NewestFirst(orders))]

InterpretRevoked(prev, game, a, newly, fix, revoked) ==
  Interpretation(prev, Revoked(game, a, revoked), a, newly, fix \/ revoked # {})

InterpretFixed(prev, game, a, newly, fix) ==
  InterpretRevoked(prev, game, a, newly, fix, Revocable(prev, game, a))

NewlyClued(prev, a) == {o \in a.list : ~prev.common.thoughts[o].clued}

InterpretChecked(prev, a, newly, check) ==
  InterpretFixed(prev, [check.game EXCEPT !.common = Settled(@, check.game.state)], a, newly,
                 (check.all_resets \cap a.list) \ newly # {} \/ check.duplicate_reveal # {})

\* interpret_clue of a clue that does not replay the game
InterpretHeard(prev, heard, a) ==
  InterpretChecked(prev, a, NewlyClued(prev, a), CheckFix(heard, prev.common.thoughts, a))

\* What is taken over from the replay that a fix asks for: common knowledge, and what
\* the two games share, the marks of the clues and the locked shifts.
Rejoined(heard, rewound, a) ==
  WithShifts([heard EXCEPT
                !.common       = Settled(rewound.common, heard.state),
                !.last_actions = [p \in Players |-> IF p = a.giver THEN @[p]
                                                    ELSE rewound.last_actions[p]],
                !.lock         = rewound.last_actions[a.giver].lock],
             rewound.shifts_given)

\* Nothing is fixed then, as far as interpret_clue is told.
InterpretRejoined(prev, heard, rewound, a) ==
  InterpretFixed(prev, Rejoined(heard, rewound, a), a, NewlyClued(prev, a), FALSE)
=============================================================================
