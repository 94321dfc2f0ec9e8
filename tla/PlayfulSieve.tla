----------------------------- MODULE PlayfulSieve -----------------------------
(***************************************************************************)
(* The Playful Sieve at a table of two: handle_action                      *)
(* (src/action-handler.js) with the interpretations of the convention, and *)
(* Game.rewind (src/basics/Game.js), which they call and which replays a   *)
(* game through handle_action.  A replay shares more with the game it is   *)
(* made for than createBlank says: the array locked_shifts and the         *)
(* recorded actions, which carry the marks of locking clues.               *)
(*                                                                         *)
(* The players in Bots do what take_action tells them; the others take any *)
(* legal move.                                                             *)
(***************************************************************************)
EXTENDS PlayfulTurn, PlayfulAction, Handling

CONSTANT Bots           \* the players who follow the convention

ASSUME PlayfulAssumption == NumPlayers = 2 /\ Bots \subseteq Seats /\ Convention = "PlayfulSieve"

RECURSIVE HandleAction(_, _)

-----------------------------------------------------------------------------
(* rewind *)

\* The blank game shares the array of locked shifts.
Restart(game) ==
  [CreateBlank(game) EXCEPT !.shifts_own = FALSE, !.shifts_given = game.locked_shifts]

Rewind(game, index, action) ==
  FoldLeft(LAMBDA g, a : IF Redrawn(g, a) THEN g ELSE HandleAction(g, a),
           Restart(game), Replayed(game, index, action))

\* The recorded actions are cleaned, even if the rewind is then refused.
Cleaned(game) ==
  [game EXCEPT !.last_actions = [p \in Players |-> IF @[p].type = "clue" THEN [@[p] EXCEPT !.lock = FALSE]
                                                   ELSE @[p]]]

\* Replace the game by its replay, which may itself have been made in a replay.
Replace(game, rewound) ==
  [rewound EXCEPT !.shifts_own   = game.shifts_own \/ @,
                  !.shifts_given = IF game.shifts_own THEN game.shifts_given ELSE @]

DrawnAt(game, o) == game.state.drawn_index[o] + 1

-----------------------------------------------------------------------------
(* handle_action *)

\* interpret_clue
InterpretFix(game, heard, a, o) ==
  IF o = NoOrder THEN InterpretHeard(game, heard, a)
  ELSE LET known == Identify(o, HeldBy(heard.state, o), Only(heard.common.thoughts[o].possible))
       IN  IF Refused(heard, DrawnAt(heard, o), known) THEN InterpretHeard(game, Cleaned(heard), a)
           ELSE InterpretRejoined(game, heard, Rewind(heard, DrawnAt(heard, o), known), a)

InterpretOnClue(game, heard, a) ==
  InterpretFix(game, heard, a, FixRewind(heard, game.common.thoughts, a))

InterpretClue(game, a) == InterpretOnClue(game, GameClue(game, a), a)

\* interpret_play
InterpretPlay(game, a) ==
  IF ~PlayRewinds(game, a) THEN PlayHeard(game, a)
  ELSE IF Refused(game, DrawnAt(game, a.order), Identify(a.order, a.playerIndex, a.id))
  THEN PlayHeard(Cleaned(game), a)
  ELSE Replace(game, Rewind(game, DrawnAt(game, a.order), Identify(a.order, a.playerIndex, a.id)))

\* interpret_discard
InterpretGone(game, gone, a) ==
  IF ~DiscardRewinds(gone, a) THEN DiscardHeard(game, gone, a)
  ELSE IF Refused(gone, DrawnAt(gone, a.order), Identify(a.order, a.playerIndex, a.id))
  THEN DiscardHeard(game, Cleaned(gone), a)
  ELSE Replace(gone, Rewind(gone, DrawnAt(gone, a.order), Identify(a.order, a.playerIndex, a.id)))

InterpretDiscard(game, a) == InterpretGone(game, Mutated(game, GameDiscard(game, a)), a)

Interpreted(game, a) ==
  CASE a.type = "clue"     -> ClueDone(InterpretClue(game, a), a)
    [] a.type = "play"     -> Moved(InterpretPlay(Shown(game, a), a), a)
    [] a.type = "discard"  -> Moved(InterpretDiscard(Shown(game, a), a), a)
    [] a.type = "draw"     -> GameDraw(game, a)
    [] a.type = "turn"     -> UpdateTurn([game EXCEPT !.state = HandleTurn(@, a.num, a.currentPlayerIndex)], a)
    [] a.type = "identify" -> Identified(game, a)

HandleAction(game, a) == Interpreted(Listed(game, a), a)

-----------------------------------------------------------------------------
(* The table *)

\* A seat's game after the actions of a turn: it is not told what it draws.
Told(s, acts) ==
  LET told(a) == IF a.type = "draw" /\ a.playerIndex = s THEN [a EXCEPT !.id = NoId] ELSE a
  IN  FoldLeft(LAMBDA g, a : HandleAction(g, told(a)), games[s], acts)

\* Every program handles the actions of the turn, in their order.
Handle ==
  /\ sent # << >>
  /\ games' = [s \in Seats |-> Told(s, sent)]
  /\ sent' = << >>
  /\ UNCHANGED shuffled

\* A player does what take_action says.
Perform(p, move) ==
  Take(CASE move.type = "CLUE" ->
              LET target == NextPlayerIndex(p)
              IN  <<ClueAction(p, target, {o \in Table.hands[target] : CardTouched(shuffled[o], move.clue)},
                               move.clue)>>
         [] move.type = "PLAY" ->
              <<IF IsPlayable(Table, shuffled[move.order]) THEN PlayAction(p, move.order, shuffled[move.order])
                ELSE DiscardAction(p, move.order, shuffled[move.order], TRUE)>> \o Drawn(p)
         [] move.type = "DISCARD" ->
              <<DiscardAction(p, move.order, shuffled[move.order], FALSE)>> \o Drawn(p))

BotMoves == ToAct /\ ToMove \in Bots /\ Perform(ToMove, TakeAction(games[ToMove]))

Next ==
  \/ BotMoves
  \/ ToMove \notin Bots /\ \E target \in Players, clue \in Clues : Clue(target, clue)
  \/ ToMove \notin Bots /\ \E o \in Orders : Play(o)
  \/ ToMove \notin Bots /\ \E o \in Orders : Discard(o)
  \/ Handle

Spec == Init /\ [][Next]_vars

-----------------------------------------------------------------------------
(* Properties *)

Views(g) == {g.common} \cup {g.players[p] : p \in Players}

\* The calls to play and to discard, the locks and the promises of this convention, and
\* the replays its plays and discards ask for, take no identity away from a card that it
\* really is: in the game of either seat, in no player's view (onClue and card_elim,
\* src/basics; only inferences may be wrong).
TruthKept ==
  \A s \in Seats : \A o \in Held(games[s].state) : \A v \in Views(games[s]) :
    shuffled[o] \in v.thoughts[o].possible

\* A card whose identity a game was replayed for comes out of the replay as that card and
\* marked, also when the replay was made in the interpretation of a later action or in
\* another replay: the interpretations test the mark, and would else ask for ever.
RewoundKnown ==
  \A s \in Seats : \A e \in ToSet(games[s].actionList) :
    e.action.type = "identify"
      => /\ e.action.id = shuffled[e.action.order]
         /\ Identity(games[s].common.thoughts[e.action.order]) = e.action.id
         /\ games[s].common.thoughts[e.action.order].rewinded

\* The move that take_action.js has chosen, while the seats have not handled it.
Chosen == sent # << >> /\ ToMove \in Bots

\* take_action never ends in a clue that cannot be paid for or touches nothing: its last
\* branches, and the fix clue and the stalling before them, test the tokens here and there,
\* and the last test of all stands behind those for a loaded and for a locked partner.
CluesPaid ==
  Chosen /\ sent[1].type = "clue" => Table.clue_tokens > 0 /\ sent[1].list # {}

\* "8 clues, must stall" (h-group/take-action.js:735): nothing is discarded while there
\* are as many tokens as there can be.
DiscardsAllowed ==
  Chosen /\ sent[1].type = "discard" /\ ~sent[1].failed => Table.clue_tokens < MaxClues

\* A player may be misled, but does not play a card that it knows cannot be played:
\* thinksPlayables (src/basics/Player.js) goes by the inferences, which follow clues,
\* promises and eliminations, and not by what is possible.
BombsUnknown ==
  Chosen /\ sent[1].type = "discard" /\ sent[1].failed
    => \E id \in games[ToMove].players[ToMove].thoughts[sent[1].order].possible :
         IsPlayable(Table, id)
=============================================================================
