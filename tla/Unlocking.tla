------------------------------ MODULE Unlocking ------------------------------
(***************************************************************************)
(* unlock_promise, which interpret-play.js of src/conventions/ref-sieve    *)
(* and of src/conventions/playful-sieve both have: at a table of two, the  *)
(* card of a locked player that is promised to be next by a play that was  *)
(* not the obvious one.                                                    *)
(*                                                                         *)
(* The game record has the field locked_shifts, 0 for undefined: how often *)
(* a promise by an order was passed over.  A replay works on the array of  *)
(* the game it was asked for until it makes one of its own: shifts_given   *)
(* is what has become of that array, and shifts_own tells whether the game *)
(* has left it.                                                            *)
(***************************************************************************)
EXTENDS Basics

-----------------------------------------------------------------------------
(* locked_shifts *)

NoShifts == [o \in Orders |-> 0]

\* assignments to elements of the array
WithShifts(game, shifts) ==
  [game EXCEPT !.locked_shifts = shifts,
               !.shifts_given  = IF game.shifts_own THEN @ ELSE shifts]

Unshifted(game, o) == WithShifts(game, [game.locked_shifts EXCEPT ![o] = 0])

\* each of the orders is passed over once more
Shifted(game, orders) ==
  WithShifts(game, [o \in Orders |-> IF o \in orders THEN game.locked_shifts[o] + 1
                                     ELSE game.locked_shifts[o]])

\* a new array
NoMoreShifts(game) == [game EXCEPT !.locked_shifts = NoShifts, !.shifts_own = TRUE]

-----------------------------------------------------------------------------
(* unlock_promise *)

\* The comparison of the sort: with undefined it is NaN, and the cards are equal.
ReasonedBefore(common, o, q) ==
  /\ common.thoughts[o].reasoning_turn # -1 /\ common.thoughts[q].reasoning_turn # -1
  /\ common.thoughts[o].reasoning_turn < common.thoughts[q].reasoning_turn

\* Where the binary insertion of the sort puts o in the cards sorted so far.
RECURSIVE Place(_, _, _, _, _)
Place(common, sorted, o, low, high) ==
  LET mid == (low + high) \div 2
  IN  IF low = high THEN low
      ELSE IF ReasonedBefore(common, o, sorted[mid + 1]) THEN Place(common, sorted, o, low, mid)
      ELSE Place(common, sorted, o, mid + 1, high)

ByReasoning(common, orders) ==
  FoldLeft(LAMBDA s, o : InsertAt(s, Place(common, s, o, 0, Len(s)) + 1, o), << >>, NewestFirst(orders))

\* The player plays the oldest playable card, with nothing to discard.
NotGuaranteed(game, p, o) ==
  LET playables == ThinksPlayables(game.common, game.state, p, FALSE)
  IN  /\ ThinksTrash(game.common, game.state, p) = {}
      /\ ~\E q \in game.state.hands[p] : game.common.thoughts[q].status = "CALLED_TO_DC"
      /\ playables # {} /\ ByReasoning(game.common, playables)[1] = o

\* The cards of the locked hand with a clue for the next rank or for the suit.
PossibleMatches(game, locked, id) ==
  {o \in game.state.hands[locked] :
     \E k \in DOMAIN game.common.thoughts[o].clues :
       LET clue == game.common.thoughts[o].clues[k]
       IN  clue.value = IF clue.type = "rank" THEN id[2] + 1 ELSE id[1]}

\* The cards that look like a connection, from the oldest on: those after the
\* matches are passed over until shifts has counted them.
Lookalikes(game, locked, id) ==
  LET matches == PossibleMatches(game, locked, id)
      like(o) == Masked(<<id[1], id[2] + 1>>) \in game.common.thoughts[o].inferred
  IN  FoldLeft(LAMBDA s, o : IF like(o) /\ (\/ matches = {} \/ o \in matches
                                            \/ Len(s) >= Cardinality(matches))
                             THEN Append(s, o) ELSE s,
               << >>, Reverse(NewestFirst(game.state.hands[locked])))

\* unlock_promise: the card of the locked player that the play of o as id promises.
\* A match with order 0 is passed over like none at all.
UnlockPromise(game, a, locked, shifts) ==
  LET match == Newest({o \in game.state.hands[locked] :
                         InferMatches(game.common.thoughts[o], <<a.id[1], a.id[2] + 1>>)})
      likes == Lookalikes(game, locked, a.id)
  IN  IF \/ InferredIdentity(game.common.thoughts[a.order], FALSE) = NoId
         \/ NotGuaranteed(game, a.playerIndex, a.order)
      THEN NoOrder
      ELSE IF match > 0 THEN match
      ELSE IF shifts < Len(likes) THEN likes[shifts + 1] ELSE NoOrder

-----------------------------------------------------------------------------
(* What interpret_play makes of it *)

\* The playing player may have the connecting card, and the other one a later one.
MayHaveConnecting(game, a, locked) ==
  /\ \E o \in game.state.hands[a.playerIndex] :
       InferMatches(game.common.thoughts[o], <<a.id[1], a.id[2] + 1>>)
  /\ \E o \in game.state.hands[locked] : \E id \in game.common.thoughts[o].inferred :
       id[1] = a.id[1] /\ id[2] > a.id[2] + 1

\* Card o of the locked player is written as the one after a.id.
Unlock(game, a, locked, o) ==
  LET c          == game.common.thoughts[o]
      connecting == Masked(<<a.id[1], a.id[2] + 1>>)
      named      == [game EXCEPT !.common = WithThoughts(@, o, [inferred |-> {connecting}])]
  IN  IF MayHaveConnecting(game, a, locked) THEN game
      ELSE IF connecting \in c.inferred THEN NoMoreShifts(named)
      ELSE IF connecting \in c.possible THEN named
      ELSE game

Unlocking(game, a, locked, o) ==
  IF o # NoOrder THEN Unlock(game, a, locked, o)
  ELSE Shifted(game, ThinksPlayables(game.common, game.state, a.playerIndex, FALSE) \ {a.order})
=============================================================================
