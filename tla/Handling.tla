------------------------------- MODULE Handling -------------------------------
(***************************************************************************)
(* What the conventions share of playing at a table: the actions a program *)
(* is told (handle_action, src/action-handler.js), the game it starts      *)
(* from and the replay it makes of one (createBlank and rewind,            *)
(* src/basics/Game.js), and the moves of the players.                      *)
(*                                                                         *)
(* The game record also has actionList, flattened: its entries are         *)
(* [turn, action].  The bounds on rewinds are left to Rewind.              *)
(*                                                                         *)
(* Every seat of the table runs a program of its own, with a game of its   *)
(* own: the programs in the seats of Seats are modelled, and those of the  *)
(* other players are not looked at.                                        *)
(***************************************************************************)
EXTENDS Unlocking

CONSTANTS Seats,        \* the players whose programs are modelled
          Shuffles,     \* the decks that are dealt
          TurnBound     \* the turns a game is followed for

ASSUME HandlingAssumption ==
  Seats \subseteq Players /\ Seats # {} /\ Shuffles \subseteq Decks /\ TurnBound \in Nat

-----------------------------------------------------------------------------
(* Actions, and rewinding to insert one *)

ClueAction(p, target, list, clue) ==
  [type |-> "clue", giver |-> p, target |-> target, list |-> list, clue |-> clue,
   lock |-> FALSE]
PlayAction(p, o, id) ==
  [type |-> "play", playerIndex |-> p, order |-> o, id |-> id, failed |-> FALSE]
DiscardAction(p, o, id, failed) ==
  [type |-> "discard", playerIndex |-> p, order |-> o, id |-> id, failed |-> failed]
DrawAction(p, o, id)   == [type |-> "draw", playerIndex |-> p, order |-> o, id |-> id]
TurnAction(num, p)     == [type |-> "turn", num |-> num, currentPlayerIndex |-> p]
Identify(o, p, id)     == [type |-> "identify", order |-> o, playerIndex |-> p, id |-> id]
Ignore(o, inference)   == [type |-> "ignore", order |-> o, inference |-> inference]

\* The game before anything has happened.
BlankGame(us) ==
  LET view(p) == [playerIndex |-> p, all_possible |-> Ids, thrown |-> FALSE,
                  thoughts |-> [o \in Orders |-> NewCard(Ids, NoId)],
                  links |-> << >>, waiting_connections |-> << >>, patches |-> << >>,
                  elims |-> [id \in Ids |-> << >>],
                  hypo |-> [stacks |-> [s \in Suits |-> 0], unknown |-> {}, played |-> {}]]
  IN  [state         |-> [ourPlayerIndex |-> us] @@ InitialState,
       common        |-> view(Common),
       players       |-> [p \in Players |-> view(p)],
       last_actions  |-> [p \in Players |-> NoAction],
       next_ignore   |-> {},
       actionList    |-> << >>,
       move          |-> "NONE",
       lock          |-> FALSE,
       locked_shifts |-> NoShifts,
       shifts_given  |-> NoShifts,
       shifts_own    |-> TRUE]

\* createBlank: what a replay starts from.
CreateBlank(game) ==
  LET blank == BlankGame(game.state.ourPlayerIndex)
  IN  [blank EXCEPT !.state.deck_ids = game.state.deck_ids, !.locked_shifts = game.locked_shifts]

LastIndex(game) == Last(game.actionList).turn

\* rewind returns undefined.
Refused(game, index, action) ==
  \/ index > LastIndex(game)
  \/ [turn |-> index, action |-> action] \in ToSet(game.actionList)

\* The place of an insertion among the recorded actions: an identification of a card
\* that is not in the hand yet waits for its draw, but for one among the last actions.
Places(game, index, action) ==
  LET list    == game.actionList
      past    == {k \in DOMAIN list : list[k].turn < index}
      of(k)   == list[k].action
      this(k) == of(k).order = action.order
      held    == /\ \E k \in past : of(k).type = "draw" /\ this(k)
                 /\ \A k \in past : of(k).type \in {"play", "discard"} => ~this(k)
  IN  IF action.type # "identify" \/ held THEN {Cardinality(past)}
      ELSE {k \in DOMAIN list \ past :
              list[k].turn < LastIndex(game) /\ of(k).type = "draw" /\ this(k)}

\* Mutant of Replayed: what happened at the turn of the insertion is lost.
MutantReplayed(game, index, action) ==
  LET before(e) == e.turn < index
      after(e)  == e.turn > index
      acts(s)   == [k \in DOMAIN s |-> s[k].action]
  IN  acts(SelectSeq(game.actionList, before)) \o <<action>> \o acts(SelectSeq(game.actionList, after))

\* The actions of a replay.
Replayed(game, index, action) ==
  LET acts   == [k \in DOMAIN game.actionList |-> game.actionList[k].action]
      places == Places(game, index, action)
  IN  IF places = {} THEN acts ELSE InsertAt(acts, Max(places) + 1, action)

\* A replayed draw of a card that is in the hand is skipped.
Redrawn(game, action) == action.type = "draw" /\ action.order \in game.state.hands[action.playerIndex]

-----------------------------------------------------------------------------
(* handle_action *)

Listed(game, a) ==
  [game EXCEPT !.actionList = Append(@, [turn |-> game.state.turn_count, action |-> a])]

\* The card of a play or a discard becomes known to us and to its player.
Shown(game, a) ==
  [game EXCEPT !.state.deck[a.order] = IF @ = NoId THEN a.id ELSE @,
               !.players[a.playerIndex].thoughts[a.order].id = a.id]

NoLongerNew(view, orders) ==
  [view EXCEPT !.thoughts = [o \in orders |-> [view.thoughts[o] EXCEPT !.newly_clued = FALSE]] @@ @]

\* A clue has been interpreted; the Playful Sieve has marked it if it locks its target.
ClueDone(game, a) ==
  [game EXCEPT !.last_actions[a.giver] = [a EXCEPT !.lock = game.lock],
               !.lock        = FALSE,
               !.common      = NoLongerNew(@, a.list),
               !.players     = [p \in Players |-> NoLongerNew(@[p], a.list)],
               !.next_ignore = {}]

Moved(game, a) == [game EXCEPT !.last_actions[a.playerIndex] = a]

\* Mutant of Identified: the card is not marked.
MutantIdentified(game, a) ==
  TeamElimP([game EXCEPT
    !.common = WithThoughts(@, a.order, [id |-> a.id]),
    !.state.deck[a.order] = a.id,
    !.players[game.state.ourPlayerIndex].thoughts[a.order].id = a.id])

Identified(game, a) ==
  TeamElimP([game EXCEPT
    !.common = WithThoughts(@, a.order, [rewinded |-> TRUE, id |-> a.id]),
    !.state.deck[a.order] = a.id,
    !.players[game.state.ourPlayerIndex].thoughts[a.order].id = a.id])

-----------------------------------------------------------------------------
(* The table *)

VARIABLES shuffled,     \* the deck
          games,        \* the game of every seat
          sent          \* the actions of the turn, until the seats have handled them

vars == <<shuffled, games, sent>>

Deal(d) ==
  [k \in 1 .. NumPlayers * HandSize |->
     DrawAction((k - 1) \div HandSize, k - 1, d[k - 1])]

Dealt(us, d) ==
  LET told(a) == IF a.playerIndex = us THEN [a EXCEPT !.id = NoId] ELSE a
  IN  FoldLeft(LAMBDA g, a : GameDraw(Listed(g, told(a)), told(a)), BlankGame(us), Deal(d))

Init ==
  /\ shuffled \in Shuffles
  /\ games = [s \in Seats |-> Dealt(s, shuffled)]
  /\ sent = << >>

\* What the table knows is the same in all games.
Table == games[CHOOSE s \in Seats : TRUE].state

ToMove == Table.currentPlayerIndex

\* The card drawn after a play or a discard, if there is one.
Drawn(p) == IF Table.cardsLeft = 0 THEN << >>
            ELSE <<DrawAction(p, Table.cardOrder + 1, shuffled[Table.cardOrder + 1])>>

Over == Table.turn_count > TurnBound \/ Table.endgameTurns = 0 \/ Table.strikes = MaxStrikes

\* the players wait for the programs to have handled the turn before
ToAct == sent = << >> /\ ~Over

Take(acts) ==
  /\ sent' = acts \o <<TurnAction(Table.turn_count, NextPlayerIndex(ToMove))>>
  /\ UNCHANGED <<shuffled, games>>

Clue(target, clue) ==
  LET list == {o \in Table.hands[target] : CardTouched(shuffled[o], clue)}
  IN  /\ ToAct /\ Table.clue_tokens > 0
      /\ target # ToMove /\ list # {}
      /\ Take(<<ClueAction(ToMove, target, list, clue)>>)

Play(o) ==
  LET p == ToMove
  IN  /\ ToAct /\ o \in Table.hands[p]
      /\ Take(<<IF IsPlayable(Table, shuffled[o]) THEN PlayAction(p, o, shuffled[o])
                ELSE DiscardAction(p, o, shuffled[o], TRUE)>> \o Drawn(p))

Discard(o) ==
  LET p == ToMove
  IN  /\ ToAct /\ o \in Table.hands[p] /\ Table.clue_tokens < MaxClues
      /\ Take(<<DiscardAction(p, o, shuffled[o], FALSE)>> \o Drawn(p))
=============================================================================
