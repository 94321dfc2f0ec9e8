---------------------------- MODULE PlayfulAction ----------------------------
(***************************************************************************)
(* take_action of the Playful Sieve (src/conventions/playful-sieve:        *)
(* take-action.js, action-helper.js and fix-clues.js), with the results of *)
(* clues of src/basics/clue-result.js: what a player does on its turn.     *)
(*                                                                         *)
(* A move is [type, order] for PLAY and DISCARD, [type, clue] for CLUE.    *)
(* The value of a clue is counted in hundredths, the two digits that the   *)
(* code keeps of it.                                                       *)
(***************************************************************************)
EXTENDS PlayfulClue

PlayMove(o)    == [type |-> "PLAY", order |-> o]
DiscardMove(o) == [type |-> "DISCARD", order |-> o]
ClueMove(clue) == [type |-> "CLUE", clue |-> clue]

Us(game)      == game.state.ourPlayerIndex
Partner(game) == NextPlayerIndex(Us(game))
OurHand(game) == game.state.hands[Us(game)]
PartnerHand(game) == game.state.hands[Partner(game)]
Me(game)      == game.players[Us(game)]
Inferred(game, o) == InferredIdentity(Me(game).thoughts[o], FALSE)

\* maxOn: the place of the first of the highest values above least, 0 if there is none
FirstMost(values, least) ==
  LET above == {k \in DOMAIN values : values[k] > least}
      best  == {k \in above : \A j \in above : values[j] <= values[k]}
  IN  IF above = {} THEN 0 ELSE Min(best)

-----------------------------------------------------------------------------
(* cardValue, for a card that we see *)

\* save2
Save2(view, st, id) ==
  id[2] = 2 /\ st.play_stacks[id[1]] < 2 /\ Cardinality(VisibleFind(view, st, id, {})) = 1

CardValue(view, st, stacks, id, o) ==
  IF IsTrash(view, st, id, o, TRUE) \/ Cardinality(VisibleFind(view, st, id, {})) > 1 THEN 0
  ELSE IF IsCritical(st, id) THEN 5
  ELSE IF Save2(view, st, id) THEN 4
  ELSE 5 - (id[2] - stacks[id[1]])

-----------------------------------------------------------------------------
(* The result of a clue: hypo is the game in which it was given. *)

\* simulate_clue: rewinds are refused.
SimulateClue(game, a) == InterpretHeard(game, GameClue(game, a), a)

\* elim_result
Narrower(game, hypo, o) ==
  LET c == hypo.common.thoughts[o]
  IN  /\ c.clued /\ c.status # "CALLED_TO_DC"
      /\ Cardinality(c.possible) < Cardinality(game.common.thoughts[o].possible)

NewTouched(game, hypo, newly) ==
  {o \in newly : Narrower(game, hypo, o) /\ ~BlindPlaying(game.common.thoughts[o])}

\* the clued cards, of list or not, that are known better
Filled(game, hypo, newly) ==
  {o \in PartnerHand(game) \ NewTouched(game, hypo, newly) :
     Narrower(game, hypo, o) /\ HasConsistentInferences(hypo.state, o, hypo.common.thoughts[o])}

\* bad_touch_result
KnownTrash(hypo, o) ==
  LET c == hypo.common.thoughts[o]
  IN  \/ c.trash /\ \E id \in c.possible : ~IsCritical(hypo.state, id)
      \/ \A id \in c.possible : IsTrash(hypo.common, hypo.state, id, o, TRUE)

ChopMovedCopy(hypo, o) ==
  \E q \in Held(hypo.state) \ {o} :
    /\ hypo.common.thoughts[q].status = "CM" /\ ~hypo.common.thoughts[q].clued
    /\ hypo.state.deck[q] = hypo.state.deck[o]

TouchedCopy(game, hypo, o) ==
  \E q \in Held(hypo.state) :
    /\ Touched(Me(game).thoughts[q]) \/ Touched(Me(hypo).thoughts[q])
    /\ InferMatches(Me(hypo).thoughts[q], hypo.state.deck[o])
    /\ q \notin PartnerHand(game) \/ q < o

BadTouch(game, hypo, o) ==
  /\ ~KnownTrash(hypo, o)
  /\ \/ IsBasicTrash(hypo.state, hypo.state.deck[o])
     \/ ~ChopMovedCopy(hypo, o) /\ TouchedCopy(game, hypo, o)

\* playables_result, for common knowledge
AlreadyPlaying(game, hypo, o) ==
  LET id == hypo.state.deck[o]
  IN  \/ o \in game.common.hypo.played
      \/ id # NoId /\ \E q \in game.common.hypo.played : hypo.state.deck[q] = id
      \/ \E link \in ToSet(game.common.links) :
           link.identities \subseteq {id} /\ link.orders \subseteq game.common.hypo.played

NewPlayables(game, hypo) == {o \in hypo.common.hypo.played : ~AlreadyPlaying(game, hypo, o)}

\* revealed_trash: all of it, unless another card was known to be trash before
RevealedTrash(game, hypo) ==
  LET before == ThinksTrash(game.common, game.state, Partner(game))
  IN  {o \in ThinksTrash(hypo.common, hypo.state, Partner(game)) :
         game.common.thoughts[o].clued /\ before \subseteq {o}}

NewDiscards(game, hypo) ==
  CalledToDiscard(hypo.common, PartnerHand(game)) \ CalledToDiscard(game.common, PartnerHand(game))

\* three hundred times the value
Worth(game, hypo, stacks, newly, list) ==
  LET trash    == {o \in newly : KnownTrash(hypo, o)}
      bad      == {o \in newly : BadTouch(game, hypo, o)}
      filled   == Filled(game, hypo, newly)
      discard(o) == 150 - 100 * CardValue(Me(game), game.state, stacks, game.state.deck[o], o)
  IN    75 * (Cardinality(NewTouched(game, hypo, newly)) - Cardinality(bad) - Cardinality(trash))
      + 300 * Cardinality(NewPlayables(game, hypo))
      + FoldSet(LAMBDA o, n : n + discard(o), 0, NewDiscards(game, hypo))
      + 150 * Cardinality(RevealedTrash(game, hypo))
      + 75 * Cardinality(filled \cap list) + 15 * Cardinality(filled \ list)
      - 30 * Cardinality(bad)

\* A card looks playable but is not; one of order 0 is not noticed.
BadPlayable(game, hypo) ==
  Newest({o \in PartnerHand(game) :
            /\ BlindPlaying(hypo.common.thoughts[o])
            /\ Me(game).thoughts[o].id \notin hypo.common.thoughts[o].inferred}) > 0

ValueOf(game, hypo, stacks, newly, list) ==
  IF BadPlayable(game, hypo) THEN -1000
  ELSE (Worth(game, hypo, stacks, newly, list) + 1) \div 3

\* The clue gets one of the cards to be known better.
Fixes(hypo, orders) ==
  \E o \in orders : LET c == hypo.common.thoughts[o]
                    IN  hypo.state.deck[o] \in c.inferred \/ c.inferred = {} \/ c.reset

\* get_result
ResultIn(game, hypo, stacks, a, needed) ==
  [clue |-> a.clue, value |-> ValueOf(game, hypo, stacks, NewlyClued(game, a), a.list),
   fixes |-> Fixes(hypo, needed)]

GetResult(game, stacks, a, needed) == ResultIn(game, SimulateClue(game, a), stacks, a, needed)

Giving(game, clue) ==
  [type |-> "clue", giver |-> Us(game), target |-> Partner(game), clue |-> clue, lock |-> FALSE,
   list |-> ClueTouched(game.state, PartnerHand(game), clue)]

\* allValidClues lists the ranks before the colours.
AllClues ==
  SetToSortSeq(Clues, LAMBDA c, d : \/ c.type = "rank" /\ d.type = "colour"
                                    \/ c.type = d.type /\ c.value < d.value)

ValidClues(game) ==
  LET valid(clue) == clue \in AllValidClues(game.state, Partner(game))
  IN  SelectSeq(AllClues, valid)

Results(game, stacks, needed, clues) ==
  [k \in DOMAIN clues |-> GetResult(game, stacks, Giving(game, clues[k]), needed)]

-----------------------------------------------------------------------------
(* find_fix_clue: the partner thinks that it can play what it cannot. *)

FixNeeded(game) ==
  {o \in ThinksPlayables(game.common, game.state, Partner(game), FALSE) :
     ~IsPlayable(game.state, game.state.deck[o])}

\* The fix clue, as an index of results; 0 if there is none.
FixClue(results) ==
  FirstMost([k \in DOMAIN results |-> IF results[k].fixes THEN results[k].value ELSE -999900], -999900)

-----------------------------------------------------------------------------
(* Our cards, by what can be done with them *)

PlayableTrash(game, playables) ==
  {o \in playables : /\ Inferred(game, o) # NoId
                     /\ \E q \in playables : q < o /\ Inferred(game, q) = Inferred(game, o)}

PlayableDiscards(game, playables, trash) ==
  {o \in playables \cap trash :
     /\ Inferred(game, o) # NoId
     /\ ~\E q \in playables \ {o} : Inferred(game, q) = Inferred(game, o)}

CluedTrash(game) == {o \in ThinksTrash(Me(game), game.state, Us(game)) : Me(game).thoughts[o].clued}

ToldToDiscard(game) ==
  {o \in CalledToDiscard(Me(game), OurHand(game)) :
     \E id \in Me(game).thoughts[o].possible : ~IsCritical(game.state, id)}

\* playable_orders, discards and the first of trash_orders: what is called to be
\* discarded comes after what is known to be trash.
Sorted(game, playables, clued, told) ==
  LET again    == PlayableTrash(game, playables)
      discards == PlayableDiscards(game, playables, clued \cup told)
      left     == clued \ (discards \cup again)
  IN  [playables |-> playables \ ((clued \cup told) \ again),
       discards  |-> discards,
       trash     |-> IF left # {} THEN Newest(left) ELSE Newest(told \ (discards \cup again \cup clued))]

Options(game) ==
  Sorted(game, ThinksPlayables(Me(game), game.state, Us(game), FALSE), CluedTrash(game),
         ToldToDiscard(game))

\* lockedDiscard: the card that is critical in the fewest cases, and among those the
\* one that is furthest from being played.
Critical(game, o) == {id \in Possibilities(Me(game).thoughts[o]) : IsCritical(game.state, id)}

LessCritical(game, o, q) ==
  Cardinality(Critical(game, o)) * Cardinality(Possibilities(Me(game).thoughts[q]))
    <= Cardinality(Critical(game, q)) * Cardinality(Possibilities(Me(game).thoughts[o]))

Distance(game, stacks, o) ==
  LET all_crit == Critical(game, o) = Possibilities(Me(game).thoughts[o])
      crit(id) == (IF all_crit THEN id[2] * 5 ELSE 0) + id[2] - stacks[id[1]]
  IN  FoldSet(LAMBDA id, n : n + IF crit(id) < 0 THEN 5 ELSE crit(id), 0,
              Possibilities(Me(game).thoughts[o]))

LockedDiscard(game, stacks) ==
  LET least    == {o \in OurHand(game) : \A q \in OurHand(game) : LessCritical(game, o, q)}
      furthest == {o \in least : \A q \in least : Distance(game, stacks, q) <= Distance(game, stacks, o)}
  IN  DiscardMove(Newest(furthest))

-----------------------------------------------------------------------------
(* determine_playable_card *)

\* The first player after us with the next card, NumPlayers for ourselves, 0 for nobody.
ConnectedIn(game, id) ==
  LET having == {i \in 1 .. NumPlayers : \E o \in game.state.hands[(Us(game) + i) % NumPlayers] :
                                           game.state.deck[o] = <<id[1], id[2] + 1>>}
  IN  IF having = {} THEN 0 ELSE Min(having)

LowestRank(ids) == Min({id[2] : id \in ids})

\* priorities
PlayPriority(game, o) ==
  LET c         == Me(game).thoughts[o]
      connected == {ConnectedIn(game, id) : id \in Possibilities(c)}
  IN  IF BlindPlaying(c) THEN 5
      ELSE IF 0 \notin connected THEN IF NumPlayers \in connected THEN 1 ELSE 0
      ELSE IF LowestRank(Possibilities(c)) = MaxRank THEN 2
      ELSE IF Cardinality(Possibilities(c)) > 1 THEN 3
      ELSE 4

PriorityPlay(game, playables) ==
  LET first == Min({PlayPriority(game, o) : o \in playables})
      best  == {o \in playables : PlayPriority(game, o) = first}
      rank(o) == LowestRank(Possibilities(Me(game).thoughts[o]))
  IN  PlayMove(IF first # 4 THEN Newest(best)
               ELSE Oldest({o \in best : \A q \in best : rank(o) <= rank(q)}))

-----------------------------------------------------------------------------
(* take_action.  options are our cards, stacks our hypo stacks, results    *)
(* those of all clues and fix the index of the fix clue among them.        *)

NoMove == [type |-> "NONE"]

Or(move, otherwise) == IF move # NoMove THEN move ELSE otherwise

Chop(game)     == Newest(PartnerHand(game))
ChopId(game)   == game.state.deck[Chop(game)]
ChopAway(game) == PlayableAway(game.state, ChopId(game))

\* discards or trash_orders, whatever the tokens are
DiscardOne(options) ==
  IF options.discards # {} THEN DiscardMove(Newest(options.discards))
  ELSE IF options.trash # NoOrder THEN DiscardMove(options.trash)
  ELSE NoMove

\* Our hand is locked.
ChopDelayed(game, stacks) ==
  /\ ~IsTrash(Me(game), game.state, ChopId(game), Chop(game), FALSE)
  /\ stacks[ChopId(game)[1]] + 1 = ChopId(game)[2]

\* the best clue that is worth something, without the colours that touch the chop
StallClue(game, stacks, results) ==
  LET touching(clue) == clue.type = "colour" /\ CardTouched(ChopId(game), clue)
      best == FirstMost([k \in DOMAIN results |-> IF touching(results[k].clue) THEN 0 ELSE results[k].value], 0)
  IN  IF best = 0 THEN LockedDiscard(game, stacks) ELSE ClueMove(results[best].clue)

Stall(game, stacks, results, fix) ==
  IF game.state.clue_tokens = 0 \/ ThinksLocked(Me(game), game.state, Partner(game))
  THEN LockedDiscard(game, stacks)
  ELSE IF ChopDelayed(game, stacks) THEN ClueMove([type |-> "colour", value |-> ChopId(game)[1]])
  ELSE IF fix # 0 THEN ClueMove(results[fix].clue)
  ELSE StallClue(game, stacks, results)

\* A card that is played when the partner has it on chop.  Order 0 is taken for none.
SarcasticChop(game, options) ==
  LET same == Newest({o \in options.playables : Inferred(game, o) = ChopId(game)})
  IN  IF same > 0 THEN same ELSE NoOrder

\* The partner has something to do.
Provided(game, options) ==
  \/ ThinksLoaded(game.common, game.state, Partner(game))
  \/ CalledToDiscard(game.common, PartnerHand(game)) # {}
  \/ ChopAway(game) = 0 /\ game.state.turn_count # 1 /\ SarcasticChop(game, options) = NoOrder

\* Soon there will be no clue for the partner to give.
FewTokens(game) ==
  LET last == game.last_actions[Partner(game)]
  IN  \/ game.state.clue_tokens = 0
      \/ /\ game.state.clue_tokens = 1
         /\ \/ last.type = "discard"
            \/ last.type = "play" /\ game.state.deck[last.order][2] = MaxRank

WhileProvided(game, options, stacks) ==
  IF options.playables # {} THEN PriorityPlay(game, options.playables)
  ELSE IF game.state.clue_tokens = MaxClues \/ InEndgame(game.state) THEN NoMove
  ELSE Or(DiscardOne(options), IF FewTokens(game) THEN LockedDiscard(game, stacks) ELSE NoMove)

\* The partner is locked: what our play of o would be read to promise.
Promised(game, o) ==
  UnlockPromise(game, [type |-> "play", order |-> o, playerIndex |-> Us(game), id |-> Inferred(game, o)],
                Partner(game), game.locked_shifts[o])

Promises(game, options) ==
  LET known == {o \in options.playables \cup options.discards : Inferred(game, o) # NoId}
  IN  [o \in known |-> Promised(game, o)]

\* what is promised is true
RightPromise(game, promises) ==
  {o \in DOMAIN promises :
     /\ promises[o] > 0
     /\ Identity(Me(game).thoughts[promises[o]]) = <<Inferred(game, o)[1], Inferred(game, o)[2] + 1>>}

\* playables come before discards
FirstOf(options, S) == IF S \cap options.playables # {} THEN Newest(S \cap options.playables) ELSE Newest(S)

\* How far the lowest card of the partner in the suit of o is, the larger the nearer.
LeadsTo(game, o) ==
  LET id    == Inferred(game, o)
      ranks == {game.state.deck[q][2] : q \in {c \in PartnerHand(game) : game.state.deck[c][1] = id[1]}}
  IN  id[2] - (IF ranks = {} THEN 6 ELSE Min(ranks))

SafePlay(game, safe) ==
  PlayMove(Newest({o \in safe : \A q \in safe : LeadsTo(game, q) <= LeadsTo(game, o)}))

PromiseNothing(game, options, stacks, safe) ==
  Or(DiscardOne(options), IF safe # {} THEN SafePlay(game, safe) ELSE LockedDiscard(game, stacks))

Unlocks(game, options, stacks, promises) ==
  IF RightPromise(game, promises) # {}
  THEN PlayMove(FirstOf(options, RightPromise(game, promises)))
  ELSE PromiseNothing(game, options, stacks, {o \in DOMAIN promises : promises[o] <= 0})

\* a card for the suit of the chop, which is one away
ConnectingPlayable(game, options) ==
  IF ChopAway(game) # 1 THEN NoOrder
  ELSE Newest({o \in options.playables : Inferred(game, o)[1] = ChopId(game)[1]})

PlayableSarcastic(game, options) ==
  Newest({o \in options.discards :
            /\ IsPlayable(game.state, Inferred(game, o))
            /\ Cardinality(FindSarcastics(game.state, Us(game), Me(game), Inferred(game, o))) = 1})

DirectConnection(game, options) ==
  Newest({o \in options.playables :
            /\ Inferred(game, o) # NoId
            /\ \E q \in PartnerHand(game) :
                 Identity(game.common.thoughts[q]) = <<Inferred(game, o)[1], Inferred(game, o)[2] + 1>>})

\* the play or discard that makes up for a clue to a partner with nothing to do
Helping(game, options) ==
  IF ConnectingPlayable(game, options) # NoOrder THEN PlayMove(ConnectingPlayable(game, options))
  ELSE IF SarcasticChop(game, options) # NoOrder THEN DiscardMove(SarcasticChop(game, options))
  ELSE IF PlayableSarcastic(game, options) # NoOrder /\ game.state.clue_tokens # MaxClues
  THEN DiscardMove(PlayableSarcastic(game, options))
  ELSE IF DirectConnection(game, options) # NoOrder THEN PlayMove(DirectConnection(game, options))
  ELSE NoMove

\* Mutant of Unhelped: that there is no clue to give is not seen.
MutantUnhelped(game, options, stacks) == Helping(game, options)

\* the move for a partner with nothing to do, without a clue
Unhelped(game, options, stacks) ==
  Or(Helping(game, options),
     IF game.state.clue_tokens = 0 THEN LockedDiscard(game, stacks) ELSE NoMove)

\* The best clue, or if it is not worth much the last one that has the value of a lock.
BestClue(results) ==
  LET best  == FirstMost([k \in DOMAIN results |-> results[k].value], -999900)
      locks == {k \in DOMAIN results : results[k].value = -200}
  IN  ClueMove(results[IF results[best].value <= 25 /\ locks # {} THEN Max(locks) ELSE best].clue)

Proceed(game, options, stacks, results) ==
  IF ThinksLocked(game.common, game.state, Partner(game))
  THEN Unlocks(game, options, stacks, Promises(game, options))
  ELSE Or(Unhelped(game, options, stacks), BestClue(results))

Choose(game, options, stacks, results, fix) ==
  IF ThinksLocked(Me(game), game.state, Us(game)) THEN Stall(game, stacks, results, fix)
  ELSE IF fix # 0 /\ game.state.clue_tokens > 0 THEN ClueMove(results[fix].clue)
  ELSE Or(IF Provided(game, options) THEN WhileProvided(game, options, stacks) ELSE NoMove,
          Proceed(game, options, stacks, results))

ChooseAmong(game, options, stacks, results) ==
  Choose(game, options, stacks, results, IF FixNeeded(game) = {} THEN 0 ELSE FixClue(results))

ChooseWith(game, options, stacks) ==
  ChooseAmong(game, options, stacks, Results(game, stacks, FixNeeded(game), ValidClues(game)))

TakeAction(game) == ChooseWith(game, Options(game), Hypo(Me(game), game.state).stacks)
=============================================================================
