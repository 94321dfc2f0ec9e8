------------------------------- MODULE Rewind -------------------------------
(***************************************************************************)
(* class Game (src/basics/Game.js): the bot handles what happens at the    *)
(* table, and an interpretation that finds a past move was misread rewinds *)
(* the game: it starts a blank one and handles all actions again with a    *)
(* few inserted.  A replayed action may rewind once more, so the calls of  *)
(* rewind in progress form a stack.                                        *)
(*                                                                         *)
(* The module also has navigate, by which a person at the console moves    *)
(* through a game that is over, and updateNotes.  What an action does to   *)
(* the State is in Engine.  What an interpretation does is left open: it   *)
(* may ask for a rewind, within the guards of the callers of rewind, and a *)
(* clue may give any card of its target a status, another one each time it *)
(* is read.  All that the flag `mistake`, which rewind sets on the clue it *)
(* goes back to, does is to change that reading, so it is left out.        *)
(***************************************************************************)
EXTENDS Engine, Sequences, SequencesExt, FiniteSetsExt

CONSTANTS
  Us,          \* ourPlayerIndex
  Deck,        \* [Orders -> Ids]: the shuffled deck
  Games,       \* bound: the games explored, each the sequence of its moves
  MaxRequests, \* bound: how often the interpretations of a game ask for a rewind
  MaxRewinds,  \* 100 in the code
  MaxDepth,    \* 3 in the code
  Kinds,       \* the callers of rewind that are explored, see Request
  Statuses     \* what a clue may say of a card

Moves == {"clue", "play", "discard"}

ASSUME RewindAssumption ==
  /\ Us \in Players
  /\ Deck \in Decks
  /\ Games \subseteq Seq([type : Moves, order : Orders]) \ {<<>>}
  /\ MaxRequests \in [Games -> Nat] /\ MaxRewinds \in Nat /\ MaxDepth \in Nat
  /\ Kinds \subseteq {"identify", "focus", "silent", "demonstrate", "ignore", "finesse", "fix"}
  /\ "none" \notin Statuses

VARIABLES
  game,      \* the game being handled: bot.game, or newGame of the innermost rewind
  stack,     \* the calls in progress, innermost last
  pc,        \* "idle", "handle", "interpret", "over", or what was thrown
  session,   \* what the server or the replay tool has done
  server     \* the notes the server holds

vars == <<game, stack, pc, session, server>>

-----------------------------------------------------------------------------
(* The game *)

Hole      == <<>>          \* an entry of actionList never assigned
NoNote    == [last |-> "", turn |-> 0, full |-> <<>>]
InfoNote  == [last |-> "INFO", turn |-> 0, full |-> <<"INFO">>]
EmptyNote == [o \in {} |-> NoNote]

Specials == {"identify", "ignore", "finesse"}

NewGame(live) ==
  [st         |-> InitialState,
   list       |-> <<>>,           \* actionList, turn t at index t + 1
   notes      |-> EmptyNote,
   rewinds    |-> 0,
   depth      |-> 0,              \* rewindDepth
   catchup    |-> TRUE,
   inProgress |-> live,
   status     |-> [o \in Orders |-> "none"],
   rewinded   |-> {},             \* cards with the flag `rewinded`
   ignored    |-> {},             \* next_ignore, next_finesse
   queued     |-> <<>>]

\* createBlank of Game: rewindDepth and queued_cmds are not handed on.
CreateBlank(g) ==
  [NewGame(g.inProgress) EXCEPT !.notes = g.notes,
                                !.rewinds = g.rewinds,
                                !.st.deck_ids = g.st.deck_ids]

\* Mutant of Restarted: the game is rewound from where it stands.
MutantRestarted(g) == [g EXCEPT !.list = <<>>, !.catchup = TRUE, !.notes = EmptyNote]

\* The blank game a rewind or a navigation starts from.
Restarted(g) == [CreateBlank(g) EXCEPT !.catchup = TRUE, !.notes = EmptyNote]

OurHand(g) == g.st.hands[Us]

\* the list with an entry i, whatever was assigned before it
Stretched(list, i) ==
  [j \in 1 .. Max({i, Len(list)}) |-> IF j \in DOMAIN list THEN list[j] ELSE Hole]

\* actionList[turn_count] ??= []; actionList[turn_count].push(action)
Record(g, a) ==
  LET t    == g.st.turn_count + 1
      long == Stretched(g.list, t)
  IN  [g EXCEPT !.list = [long EXCEPT ![t] = Append(long[t], a)]]

-----------------------------------------------------------------------------
(* updateNotes *)

\* The cards whose note is written: a later turn, another text.
Noted(g) ==
  {o \in UNION {g.st.hands[p] : p \in Players} :
     LET old == IF o \in DOMAIN g.notes THEN g.notes[o] ELSE NoNote
     IN  g.status[o] # "none" /\ g.status[o] # old.last /\ g.st.turn_count > old.turn}

\* draft[order] ??= {...} happens for every card with a status.
Annotated(g) ==
  {o \in UNION {g.st.hands[p] : p \in Players} : g.status[o] # "none"}

Written(g, o) ==
  LET old == IF o \in DOMAIN g.notes THEN g.notes[o] ELSE NoNote
  IN  IF o \in Noted(g)
      THEN [last |-> g.status[o], turn |-> g.st.turn_count,
            full |-> Append(old.full, g.status[o])]
      ELSE old

UpdateNotes(g) ==
  [g EXCEPT
     !.notes  = [o \in DOMAIN g.notes \cup Annotated(g) |->
                   IF o \in Annotated(g) THEN Written(g, o) ELSE g.notes[o]],
     !.queued = IF ~g.catchup /\ g.inProgress
                THEN @ \o SetToSeq({[order |-> o, note |-> Written(g, o).full] : o \in Noted(g)})
                ELSE @]

-----------------------------------------------------------------------------
(* handle_action, with the interpretation reduced to the status it gives.  *)

\* The readings of action a: a clue says nothing, or something of a card that
\* it is not to ignore.  Bound: only a game in progress, whose notes are sent,
\* has statuses.
Readings(g, a) ==
  IF a.type # "clue" \/ ~g.inProgress THEN {g}
  ELSE {g} \cup {[g EXCEPT !.status = [@ EXCEPT ![o] = s]] :
                   o \in g.st.hands[a.target] \ {i.order : i \in g.ignored}, s \in Statuses}

Identified(g, a) ==
  [g EXCEPT !.rewinded = @ \cup {a.order},
            !.st.deck  = IF a.infer THEN @ ELSE [@ EXCEPT ![a.order] = a.id]]

\* What an action does up to the point where its interpretation may rewind.
Effect(g, a) ==
  CASE a.type = "draw"      -> [g EXCEPT !.st       = HandleDraw(@, a.playerIndex, a.order, a.id),
                                         !.status   = [@ EXCEPT ![a.order] = "none"],
                                         !.rewinded = @ \ {a.order}]
    [] a.type \in Moves     -> [g EXCEPT !.st = HandleTableAction(@, a)]
    [] a.type = "turn"      -> [g EXCEPT !.st = HandleTurn(@, a.num, a.playerIndex)]
    [] a.type = "gameOver"  -> [g EXCEPT !.inProgress = FALSE]
    [] a.type = "identify"  -> Identified(g, a)
    [] a.type = "ignore"    -> [g EXCEPT !.ignored = @ \cup {a}]
    [] a.type = "finesse"   -> [g EXCEPT !.ignored = @ \cup {a}]

\* What handle_action still does with the game the interpretation returned.
Settled(g, a) ==
  CASE a.type = "clue" -> [g EXCEPT !.ignored = {}]
    [] a.type = "turn" -> UpdateNotes(g)
    [] OTHER           -> g

-----------------------------------------------------------------------------
(* The stack of calls *)

Top == stack[Len(stack)]
Pop == SubSeq(stack, 1, Len(stack) - 1)

\* entries of a frame's todo: the action and the part of rewind that handles it
Entries(acts, part) == [i \in 1 .. Len(acts) |-> [act |-> acts[i], part |-> part]]

\* What is left to do in a frame: its ids are remaining_id_actions.
Frame(kind, this, act, todo) ==
  [kind |-> kind, this |-> this, act |-> act, todo |-> todo, ids |-> <<>>]

SetTop(f) == [stack EXCEPT ![Len(stack)] = f]

\* Mutant of After: nothing waits for a draw.
MutantAfter(f, e) == [f EXCEPT !.todo = Tail(@)]

\* The rest of a frame after entry e: a draw may be followed by the first
\* identification that waited for it.
After(f, e) ==
  IF /\ e.part \in {"insert", "future"}
     /\ e.act.type = "draw"
     /\ f.ids # <<>> /\ Head(f.ids).order = e.act.order
  THEN [f EXCEPT !.todo = <<[act |-> Head(f.ids), part |-> "waited"]>> \o Tail(f.todo),
                 !.ids  = Tail(@)]
  ELSE [f EXCEPT !.todo = Tail(@)]

InHand(g, a) == a.order \in g.st.hands[a.playerIndex]

\* update_game drops a draw of a card already in hand.
Skipped(e) ==
  /\ e.part \in {"history", "insert", "future"}
  /\ e.act.type = "draw"
  /\ InHand(game, e.act)

\* An identification of a card not yet drawn has to wait.
Waits(e) ==
  e.part = "insert" /\ e.act.type = "identify" /\ ~InHand(game, e.act)

\* newGame.catchup = this.catchup, before the last list is handled
Resumed(g, this) == [g EXCEPT !.catchup = this.catchup]

\* Handle the next entry of the innermost frame.
Handle ==
  /\ pc = "handle" /\ Top.todo # <<>>
  /\ LET e == Head(Top.todo)
     IN  CASE e.part = "restore" ->
              /\ game' = Resumed(game, Top.this)
              /\ stack' = SetTop([Top EXCEPT !.todo = Tail(@)])
              /\ UNCHANGED pc
           [] Waits(e) ->
              /\ stack' = SetTop([Top EXCEPT !.todo = Tail(@), !.ids = Append(@, e.act)])
              /\ UNCHANGED <<game, pc>>
           [] Skipped(e) ->
              /\ stack' = SetTop(After(Top, e))
              /\ UNCHANGED <<game, pc>>
           [] e.act.type \in Moves \cup {"turn"} ->
              /\ game' = Record(game, e.act)
              /\ pc' = "interpret"
              /\ UNCHANGED stack
           [] OTHER ->
              /\ game' = Effect(Record(game, e.act), e.act)
              /\ stack' = SetTop(After(Top, e))
              /\ UNCHANGED pc
  /\ UNCHANGED <<session, server>>

\* The interpretation is content.
Complete ==
  /\ pc = "interpret"
  /\ LET e == Head(Top.todo)
     IN  /\ \E g \in Readings(Effect(game, e.act), e.act) : game' = Settled(g, e.act)
         /\ stack' = SetTop(After(Top, e))
  /\ pc' = "handle"
  /\ UNCHANGED <<session, server>>

-----------------------------------------------------------------------------
(* rewind *)

Invalid(g, index) == index < 0 \/ index >= Len(g.list)

\* list.some(action => rewind_actions.some(a => objEquals(action, a)))
AlreadyIn(list, acts) == ToSet(list) \cap ToSet(acts) # {}

\* Mutant of Replay: the list of the current turn is among the future ones too.
MutantReplay(g, index, acts) ==
  LET turns(m, n) == FlattenSeq(SubSeq(g.list, m, n))
  IN  Entries(turns(1, index), "history")
      \o Entries(acts, "insert")
      \o Entries(turns(index + 1, Len(g.list)), "future")
      \o <<[act |-> [type |-> "none"], part |-> "restore"]>>
      \o Entries(g.list[Len(g.list)], "last")

\* Everything a rewind will hand to the blank game, in order.
Replay(g, index, acts) ==
  LET turns(m, n) == FlattenSeq(SubSeq(g.list, m, n))
  IN  Entries(turns(1, index), "history")
      \o Entries(acts, "insert")
      \o Entries(turns(index + 1, Len(g.list) - 1), "future")
      \o <<[act |-> [type |-> "none"], part |-> "restore"]>>
      \o Entries(g.list[Len(g.list)], "last")

\* The call of rewind, up to the replay.  A refusal returns undefined.
Start(kind, index, acts) ==
  LET g     == [game EXCEPT !.rewinds = @ + 1]
      d     == [g EXCEPT !.depth = @ + 1]
      spent == g.rewinds > MaxRewinds
      deep  == g.depth > MaxDepth
  IN  CASE spent -> game' = g /\ pc' = "too many" /\ UNCHANGED stack
        [] ~spent /\ deep -> game' = g /\ pc' = "too deep" /\ UNCHANGED stack
        [] ~spent /\ ~deep /\ Invalid(g, index) -> game' = g /\ UNCHANGED <<pc, stack>>
        [] OTHER ->
             IF g.list[index + 1] = Hole
             THEN game' = d /\ pc' = "TypeError" /\ UNCHANGED stack
             ELSE IF AlreadyIn(g.list[index + 1], acts)
             THEN game' = d /\ UNCHANGED <<pc, stack>>
             ELSE /\ game' = Restarted(d)
                  /\ stack' = Append(stack, Frame(kind, d, acts, Replay(d, index, acts)))
                  /\ pc' = "handle"

Identify(o, p, infer) ==
  [type |-> "identify", order |-> o, playerIndex |-> p, infer |-> infer,
   id |-> IF infer THEN NoId ELSE Deck[o]]

FromDraw(o) == game.st.drawn_index[o] + 1

Newest(g, p) == CHOOSE o \in g.st.hands[p] : \A q \in g.st.hands[p] : q <= o

Earliest(os) == CHOOSE o \in os : \A q \in os : FromDraw(o) <= FromDraw(q)

ClueTurns == {t \in 0 .. Len(game.list) - 1 : \E a \in ToSet(game.list[t + 1]) : a.type = "clue"}

(* The requests that the interpretation of action a may make, one for each *)
(* caller of rewind.                                                       *)

\* A card of ours that is played, or that a clue reveals, is not what it seemed.
AskIdentify(a) ==
  \E o \in Orders \ game.rewinded :
    /\ \/ a.type \in {"play", "discard"} /\ a.playerIndex = Us /\ a.order = o
       \/ a.type = "clue" /\ o \in OurHand(game)
    /\ Start("identify", FromDraw(o), <<Identify(o, Us, FALSE)>>)

\* The card a clue is about, whoever holds it, is not what a connection needs.
AskFocus(a) ==
  /\ a.type = "clue"
  /\ \E o \in game.st.hands[a.target] :
       Start("focus", FromDraw(o), <<Identify(o, a.target, FALSE)>>)

\* A waiting connection is resolved by a clue; no note is written.
AskSilent(a) ==
  \E o \in OurHand(game) \ game.rewinded :
    a.type = "clue" /\ Start("silent", FromDraw(o), <<Identify(o, Us, FALSE)>>)

\* One or two cards of old connections are demonstrated when a turn begins.
AskDemonstrate(a) ==
  \E o, q \in OurHand(game) \ game.rewinded :
    /\ a.type = "turn" /\ o <= q /\ game.st.drawn_index[q] < a.num
    /\ LET os == IF o = q THEN <<o>> ELSE <<o, q>>
       IN  Start("demonstrate", FromDraw(Earliest({o, q})),
                 [i \in 1 .. Len(os) |-> Identify(os[i], Us, TRUE)])

\* A connection was stomped, discarded or not played.
AskIgnore(a) ==
  \E t \in ClueTurns :
    /\ a.type \in {"clue", "discard", "turn"} /\ OurHand(game) # {}
    /\ Start("ignore", t, <<[type |-> "ignore", order |-> Newest(game, Us)]>>)

\* A layered finesse on us; the turn of the clue it is read from may be missing.
AskFinesse(a) ==
  \E t \in ClueTurns \cup {-1} :
    /\ a.type = "clue" /\ a.target = Us /\ OurHand(game) # {}
    /\ Start("finesse", t, <<[type |-> "finesse", order |-> Newest(game, Us)]>>)

\* checkFix, on behalf of apply_good_touch.
AskFix(a) ==
  /\ a.type = "clue"
  /\ \E o \in game.st.hands[a.target] \ game.rewinded :
       Start("fix", FromDraw(o), <<Identify(o, a.target, FALSE)>>)

Request(kind, a) ==
  \/ kind = "identify" /\ AskIdentify(a)
  \/ kind = "focus" /\ AskFocus(a)
  \/ kind = "silent" /\ AskSilent(a)
  \/ kind = "demonstrate" /\ AskDemonstrate(a)
  \/ kind = "ignore" /\ AskIgnore(a)
  \/ kind = "finesse" /\ AskFinesse(a)
  \/ kind = "fix" /\ AskFix(a)

\* The interpretation asks for a rewind.
AskRewind ==
  /\ pc = "interpret"
  /\ session.requests < MaxRequests[session.moves]
  /\ \E kind \in Kinds : Request(kind, Head(Top.todo).act)
  /\ session' = [session EXCEPT !.requests = @ + 1]
  /\ UNCHANGED server

\* Mutant of Restore: the notes from before the rewind are not copied back.
MutantRestore(g, this) == g

\* for (const [order, noteObj] of this.notes.entries()) newGame.notes[order] = noteObj:
\* an order that had no note but precedes one that had becomes undefined.
Restore(g, this) ==
  LET below == {o \in Orders : \E q \in DOMAIN this.notes : o <= q}
  IN  [g EXCEPT !.notes = [o \in (DOMAIN g.notes \ below) \cup DOMAIN this.notes |->
                             IF o \in DOMAIN this.notes THEN this.notes[o] ELSE g.notes[o]]]

\* What the caller of rewind makes of the new game g: checkFix's caller takes
\* only its common knowledge, the others return it as the result.
Returned(kind, g, this) ==
  CASE kind = "silent" -> g
    [] kind = "fix"    -> [this EXCEPT !.rewinded = g.rewinded, !.status = g.status]
    [] OTHER           -> UpdateNotes(g)

\* A rewind is done: its caller returns the new game.
Return ==
  /\ pc = "handle" /\ Len(stack) > 1 /\ Top.todo = <<>>
  /\ LET caller == stack[Len(stack) - 1]
         e == Head(caller.todo)
         g == Returned(Top.kind, Restore(game, Top.this), Top.this)
     IN  IF Top.kind = "fix"
         THEN game' = g /\ stack' = Pop /\ pc' = "interpret"
         ELSE /\ game' = Settled(g, e.act)
              /\ stack' = Append(SubSeq(stack, 1, Len(stack) - 2), After(caller, e))
              /\ pc' = "handle"
  /\ UNCHANGED <<session, server>>

-----------------------------------------------------------------------------
(* The bot between actions *)

\* sendCmd for the queued commands, in order: the last note of a card stays
Sent(notes, queued) ==
  [o \in Orders |->
     LET mine == SelectSeq(queued, LAMBDA c : c.order = o)
     IN  IF mine = <<>> THEN notes[o] ELSE mine[Len(mine)].note]

\* handle_action of the bot is done; its commands are sent.
Done ==
  /\ pc = "handle" /\ Len(stack) = 1 /\ Top.kind = "table" /\ Top.todo = <<>>
  /\ server' = Sent(server, game.queued)
  /\ game' = [game EXCEPT !.queued = <<>>]
  /\ stack' = <<>>
  /\ pc' = "idle"
  /\ UNCHANGED <<session>>

Table == session.table

\* The next action arrives from the server, or the replay tool reads it.
Receive(a, next, phase) ==
  /\ pc = "idle"
  /\ stack' = <<Frame("table", "none", "none", Entries(<<a>>, "table"))>>
  /\ pc' = "handle"
  /\ session' = [session EXCEPT
       !.log = Append(@, a), !.table = next, !.phase = phase,
       !.made = IF a.type \in Moves THEN @ + 1 ELSE @,
       !.begun = [t \in 1 .. next.turn_count |-> IF t \in DOMAIN @ THEN @[t] ELSE next]]
  /\ UNCHANGED <<game, server>>

Draw(p) ==
  LET o == Table.cardOrder + 1
  IN  [type |-> "draw", playerIndex |-> p, order |-> o,
       id |-> IF p = Us THEN NoId ELSE Deck[o]]

\* The cards are dealt one hand after the other.
Deal ==
  /\ session.phase = "deal"
  /\ LET a == Draw((Table.cardOrder + 1) \div HandSize)
         t == HandleDraw(Table, a.playerIndex, a.order, a.id)
     IN  Receive(a, t, IF a.order + 1 = NumPlayers * HandSize THEN "move" ELSE "deal")

\* The move to be made; a clue has no order.
Move == session.moves[session.made + 1]

Clue ==
  /\ session.phase = "move" /\ Move.type = "clue"
  /\ LET p == Table.currentPlayerIndex
         a == [type |-> "clue", giver |-> p, target |-> NextPlayerIndex(p)]
     IN  Receive(a, HandleTableAction(Table, a), "turn")

\* A card leaves the hand: played, misplayed or discarded.
PlayOrDiscard ==
  /\ session.phase = "move" /\ Move.type # "clue"
  /\ Move.order \in Table.hands[Table.currentPlayerIndex]
  /\ LET p    == Table.currentPlayerIndex
         id   == Deck[Move.order]
         good == Move.type = "play" /\ IsPlayable(Table, id)
         a    == [type |-> IF good THEN "play" ELSE "discard",
                  playerIndex |-> p, order |-> Move.order, id |-> id,
                  failed |-> Move.type = "play" /\ ~good]
     IN  Receive(a, HandleTableAction(Table, a), IF Table.cardsLeft > 0 THEN "draw" ELSE "turn")

DrawCard ==
  /\ session.phase = "draw"
  /\ LET a == Draw(Table.currentPlayerIndex)
     IN  Receive(a, HandleDraw(Table, a.playerIndex, a.order, a.id), "turn")

Turn ==
  /\ session.phase = "turn" /\ session.made < Len(session.moves)
  /\ LET n == session.made
         p == NextPlayerIndex(Table.currentPlayerIndex)
     IN  Receive([type |-> "turn", num |-> n, playerIndex |-> p], HandleTurn(Table, n, p), "move")

\* The game is over when its moves are made.
GameOver ==
  /\ session.phase = "turn" /\ session.made = Len(session.moves)
  /\ Receive([type |-> "gameOver"], Table, "over")

\* A live game has caught up; a replay has been read (replay.js:126).
CaughtUp ==
  /\ pc = "idle" /\ session.catchup
  /\ session.live \/ session.phase = "over"
  /\ game' = [game EXCEPT !.catchup = FALSE]
  /\ session' = [session EXCEPT !.catchup = FALSE]
  /\ UNCHANGED <<stack, pc, server>>

-----------------------------------------------------------------------------
(* navigate *)

\* list.filter(a => !types.includes(a.type))
Filtered(list, types) ==
  LET kept[n \in 0 .. Len(list)] ==
        IF n = 0 THEN <<>>
        ELSE IF list[n].type \in types THEN kept[n - 1] ELSE Append(kept[n - 1], list[n])
  IN  kept[Len(list)]

Plain(list) == Filtered(list, Specials)

Stripped(list) == [i \in DOMAIN list |-> Plain(list[i])]

\* The last turn the console lets one navigate to.
MaxTurn(list) ==
  LET ends == {i \in DOMAIN list : list[i] # Hole /\ list[i][Len(list[i])].type = "turn"}
  IN  IF ends = {} THEN 0
      ELSE LET i == CHOOSE i \in ends : \A j \in ends : j <= i
           IN  list[i][Len(list[i])].num + 2

\* Bound: navigate is explored in games of the usual hand size, where the deal
\* ends by setting turn_count to 1.
Navigate ==
  /\ pc = "idle" /\ ~game.inProgress /\ ~session.catchup /\ HandSizeOption = 0
  /\ \E turn \in 1 .. MaxTurn(game.list) :
       /\ stack' = <<Frame("nav", game, turn, Entries(FlattenSeq(Stripped(game.list)), "nav"))>>
       /\ game' = Restarted(game)
       /\ session' = [session EXCEPT !.shown = turn]
  /\ pc' = "handle"
  /\ UNCHANGED server

\* Mutant of Arrived: one action too many is handled.
MutantArrived == game.st.turn_count > Top.act

\* The two loops of navigate stop.
Arrived == game.st.turn_count >= Top.act

\* The wanted turn is reached; the whole list is kept.
Shown ==
  /\ pc = "handle" /\ Len(stack) = 1 /\ Top.kind = "nav"
  /\ Arrived \/ Top.todo = <<>>
  /\ game' = [Resumed(game, Top.this) EXCEPT !.list = Stripped(Top.this.list)]
  /\ stack' = <<>>
  /\ pc' = "idle"
  /\ UNCHANGED <<session, server>>

-----------------------------------------------------------------------------

Init ==
  \E moves \in Games, live \in BOOLEAN, catchup \in BOOLEAN :
    /\ live \/ catchup
    /\ game = [NewGame(live) EXCEPT !.catchup = catchup,
                                    !.notes = IF live THEN (0 :> InfoNote) ELSE EmptyNote]
    /\ stack = <<>> /\ pc = "idle"
    /\ session = [moves |-> moves, live |-> live, catchup |-> catchup, phase |-> "deal", log |-> <<>>,
                  made |-> 0, table |-> InitialState, requests |-> 0, shown |-> 0,
                  begun |-> <<>>, fresh |-> ~catchup]
    /\ server = [o \in Orders |-> IF live /\ o = 0 THEN <<"INFO">> ELSE <<>>]

\* Nothing more need happen: the process has died, or the game is over.
Rest == /\ \/ pc \in {"too many", "too deep", "TypeError"}
           \/ pc = "idle" /\ session.phase = "over" /\ ~session.catchup
        /\ UNCHANGED vars

Handling == (Handle /\ ~(Len(stack) = 1 /\ Top.kind = "nav" /\ Arrived))
            \/ Complete \/ AskRewind \/ Return \/ Done \/ Shown

Next == \/ Deal \/ Clue \/ PlayOrDiscard \/ DrawCard \/ Turn \/ GameOver
        \/ CaughtUp \/ Navigate \/ Handling \/ Rest

Spec == Init /\ [][Next]_vars

\* handle_action, rewind and navigate are synchronous: they run to their end.
FairSpec == Spec /\ WF_vars(Handling)

-----------------------------------------------------------------------------
(* Properties *)

\* what does not depend on the cards a player has been told of
Public(st) == Restrict(st, DOMAIN st \ {"deck", "deck_ids"})

AtRest == pc = "idle" /\ session.shown = 0

\* However often the game was rewound, and rewound within a rewind, its State is
\* the one a game that handled every action once has; and a card that was
\* identified in hindsight is the card it is (rewind, handle_action).
SameState ==
  AtRest => /\ Public(game.st) = Public(Table)
            /\ \A o \in Orders : game.st.deck[o] \in {Table.deck[o], Deck[o]}

\* The list of actions, what rewinds inserted left out, is what happened, in
\* that order: no action is handled twice or lost by rewind or navigate.
LogKept == pc = "idle" => Plain(FlattenSeq(game.list)) = session.log

Returning == Len(stack') < Len(stack) /\ Len(stack') > 0

\* A rewind that returns a game has inserted all it was asked to, also the
\* identifications of cards that were drawn after the place it went back to.
RequestsInserted ==
  [][Returning => ToSet(Top.act) \subseteq ToSet(FlattenSeq(game.list))]_vars

\* When a turn begins, a note the server shows on a card in a hand says what the
\* bot now thinks of it, in a game followed from its start: whatever rewinds did
\* to the notes, what hindsight changes reaches the table (rewind, updateNotes).
NotesCorrected ==
  AtRest /\ session.fresh /\ session.phase = "move" =>
    \A p \in Players : \A o \in Table.hands[p] :
      game.status[o] # "none" /\ server[o] # <<>> =>
        server[o][Len(server[o])] = game.status[o]

\* Navigating shows the position as it was when that turn began, also when the
\* way there was rewound; one turn past the last one is the end of the game.
ShowsTurn ==
  pc = "idle" /\ session.shown # 0 =>
    Public(game.st) = Public(IF session.shown \in DOMAIN session.begun
                             THEN session.begun[session.shown]
                             ELSE Table)
=============================================================================
