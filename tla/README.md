# hanabi-bot in TLA+

A TLA+ model of the hanabi-bot, a Node.js program that plays Hanabi on
hanab.live and against itself. The modules are translated from the source under
`src/src/`; TLC checks them on small tables and TLAPS proves the results listed
under *What is proved* for every table.

Contents: the inventory of the system, the modules and what they correspond to,
the runs, the proofs, what is left out, and what could come next.

## 1. Inventory

Paths are relative to `src/src/`.

| Component | State it keeps | Operations | Modelled by |
|---|---|---|---|
| **State and handlers** (`basics/State.js`, `basics.js`, `action-handler.js`) | clue tokens, strikes, hands, deck, play and discard stacks, max ranks, cards left, countdown `endgameTurns`, turn | `onClue`, `onDiscard`, `onDraw`, `onPlay`, `handle_action` | `Engine`, `Basics` |
| **Self-play driver** (`self-play.js`, `performToAction` of `tools/util.js`) | one Game per seat, the deck, the turn, the recorded actions | `simulate_game` | `SelfPlay`, `Hanabi` |
| **Command queue** (`command-handler.ts` 442-460) | `cmdQueue`, `queueTimer`, the socket | `sendCmd`, `emptyCmdQueue` | `CmdQueue`, `Channel` |
| **Bot session** (`command-handler.ts`, `tools/settings.ts`, `hanabi-bot.ts`) | `settings`, `game`, `tableID`, `gameStarted`, `tables`, the restored-level flag, pending timers | one handler per server message, one per chat command | `BotSession` |
| **Game** (`basics/Game.js`) | State, players, notes, `actionList`, `deck_ids`, queued commands, `rewinds`, `rewindDepth`, `catchup` | `createBlank`, `rewind`, `navigate`, `updateNotes`, `simulate_*` | `Rewind`, `Handling`, `PlayfulAction` (`simulate_clue`) |
| **Card knowledge** (`basics/Card.js`, `IdentitySet.js`, `Player.js`, `player-elim.js`, `helper.js`) | per player and for common knowledge: possible and inferred identities, statuses, links, elims, hypothetical stacks | `card_elim`, `good_touch_elim`, `find_links`, `refresh_links`, `restore_elim`, `team_elimP`, `checkFix`, the questions of class Player | `Cards`, `Elim`, `GoodTouch`, `Thinks`, `Basics`, `Empathy` |
| **StateProxy** (`StateProxy.js`) | drafts and their revocations | `produce` | left out |
| **Endgame solver** (`conventions/shared/endgame*.js`, `tools/fraction.js`) | memo tables | `solve_game`, `winnable`, `unwinnable_state`, `winnable_simpler` | `Fraction`, `EndgameHelper`, `Playout`, `Endgame` |
| **Referential sieve** (`conventions/ref-sieve*`, `rs-player.js`) | waiting connections, `next_ignore`, `locked_shifts` | clue, play, discard and turn interpretation; `take_action` | `Connecting`, `RefClue`, `Unlocking`, `RefTurn`, `RefSieve`; not `take_action` |
| **Playful sieve** (`conventions/playful-sieve*`) | waiting connections, `locked_shifts`, marks of locking clues | the same | `Unlocking`, `PlayfulClue`, `PlayfulTurn`, `PlayfulAction`, `PlayfulSieve` |
| **H-Group** (`conventions/h-group*`, `h-player.js`) | waiting connections, finesse counters, move history | the same | left out |
| **Shared conventions** (`conventions/shared/`) | none | sarcastic and gentleman's discards | the sarcastic ones in `Basics` |
| **Clue evaluation** (`basics/clue-result.js`, `hanabi-util.js`) | none | results of hypothetical clues | `Thinks`, `PlayfulAction`, as far as the sieves use it |
| **Variants** (`variants.js`) | `variants_promise` | download, lookup, touch and counts | the download in `BotSession`, counts and touch as constants |
| **Replay** (`replay.js`), **console** (`tools/console.js`) | a Game | feed a recorded game; developer's commands | the loop and `navigate` in `Rewind` |
| **Logging** (`tools/log.js`, `logger.js`) | none that matters | output | left out |

### How they interact

`hanabi-bot.ts` opens a websocket and gives every message to `Bot.handle_msg`
without awaiting it. The handlers load and update `bot.game`, whose
`handle_action` calls the handlers of the rules (`basics.js`) and then the
interpretation of the convention set in use, which may rewind the game: it
builds a blank game and replays the list of actions with one inserted. When it
is our turn a timer is set that calls `take_action` and sends the action through
the command queue. Self-play and the replay tool drive the same `handle_action`
without a server; in self-play all seats live in one process.

### What is hard, and what makes each part correct

- *Rules.* Six counters are updated by four handlers, each with its own guards:
  the maximum score drops when the last copy of a card goes, a token comes back
  in two places, the countdown starts at the draw of the last card and is
  decremented by three handlers. Correct: the bookkeeping accounts for every
  card, a prediction (`isCritical`) agrees with what then happens, the sequence
  of states is a game of Hanabi.
- *Self-play.* Every copy decides by itself whether the game is over and whether
  a card is drawn, and the driver looks at seat 0 only. Correct: the copies
  agree, no seat learns its own hand from the shared process, every game ends.
- *Command queue.* `sendCmd` sends at once when no timer runs; the callback
  sends the rest. Correct: first in first out, nothing lost, never faster than
  the rate limit, never stuck.
- *Session.* A game is loaded in four round trips with an `await` in the middle,
  while players move, people chat, and the process may die; the only thing that
  survives it is a note on card 0. Correct: the bot's game is the server's, it is
  played with the noted settings, each turn of ours is answered, once.
- *Game.* `rewind` re-enters itself; its bounds, the clearing and restoring of
  notes, the early return at an action already inserted, and `deck_ids`
  interact. Correct: the game that comes out is the game that went in but for
  what was inserted.
- *Knowledge.* Elimination recurses over maps it changes, in every program with
  other cards in sight; links and reset inferences must be dropped or restored when
  what they rest on changes. Correct: the true identity is never eliminated, and
  no program thinks a player knows what that player cannot know.
- *Endgame solver.* Memoised on a hash, with cut-offs that give positions up.
  Correct: what is given up is lost, what is promised can be had.
- *Sieves.* The same handlers run in the programs of all players, each of which
  rewinds its own game for its own reasons. Correct: the programs still describe
  one table, truth is not ruled out, connections are not waited for when their
  cards have gone, and what is done is allowed.

`PROJECT.json` lists the hazards at their lines with the properties that cover
them, or the reason why none does.

## 2. Modules

```
Sums <- Engine, EndgameHelper
Engine <- SelfPlay (Hanabi as abstract specification) <- MCSelfPlay, SelfPlay_proofs
       <- Rewind <- MCRewind, Rewind_proofs
       <- Cards <- Elim <- Empathy <- MCEmpathy, Empathy_proofs
                        <- GoodTouch <- Thinks <- Basics
          Basics <- Connecting <- RefClue \
                 <- Unlocking ------------- RefTurn \
                    Unlocking <- Handling ----------- RefSieve <- MCRefSieve
                    Unlocking <- PlayfulClue <- PlayfulTurn   \
                                             <- PlayfulAction - PlayfulSieve <- MCPlayfulSieve
                                                Handling      /
SelfPlay_proofs <- Ranks_proofs        Sums <- Sums_proofs <- Ranks_proofs, Rewind_proofs, Playout_proofs,
                                                                   Empathy_proofs
Channel <- CmdQueue <- CmdQueue_proofs        BotSession <- BotSession_proofs
EndgameHelper <- Playout <- Playout_proofs
                 Playout, Fraction <- Endgame <- MCEndgame
```

### Engine

`State` is the record of the fields of class State the rules need, plus
`Game.deck_ids`. Each handler is a function from the old record to the new one,
because the code's handlers are (`produce(state, ...)`): `OnClue`, `OnDiscard`,
`OnPlay`, `OnDraw`, and the cases of `handle_action` around them (`HandleDraw`
with the start of the first turn, `HandleTurn`, `HandleTableAction`). A hand is a
set of orders: where the code looks at slots, the order of the cards gives them
(`NewestFirst`). Identities are pairs `<<suit, rank>>`; `NoId` is the code's
`-1, -1`. A card with `NoId` changes no stack, as in the code.

Constants give the table: players, suits, ranks, the multiplicity of every
identity, deck size, maxima. `TableAssumption` is what the code's tables satisfy;
`HandSizeOption` is the one-card-less or one-card-extra option.

### SelfPlay, MCSelfPlay

`simulate_game`, statement by statement: `DealCard` for the nested loops of the
deal (seat after seat), `NextTurn` for the top of the loop, `TakeAction` for the
call of `take_action`, `ApplyAction` for `games.map(...)` with the action and the
draw, `EndGame` for what follows the loop, `Throw` for the catch block. `pc` is
where the function stands. What a convention decides is any legal move, so the
results hold whatever the conventions do; they may also throw at any point of a
turn.

### Hanabi

The rules of the game from the point of view of a table, with the last round
given by the set of players who still have a turn instead of a countdown.
`SelfPlay!FollowsRules` states that seat 0's copy implements it. The mapping
turns `endgameTurns` into the set of players it stands for.

### CmdQueue, Channel

`sendCmd`, `emptyCmdQueue` and its timer. The socket is connecting (a send
throws, which ends the process), open, or closed (a send is silently dropped).
A timer may fire late, never early. `Channel` is the abstract FIFO channel with
a breaking point; `CmdQueue!IsChannel` states that the queue implements it.

### BotSession

Class Bot at one table, between two FIFO channels (`toBot`, `toServer`; that the
outgoing one may be taken as FIFO is what `CmdQueue` shows).

| Code | Action or operator |
|---|---|
| `handle_msg` and its table of handlers | `HandleMsg`, with `GameAction`, `GameActionList`, `NoteListPlayer`, `InitMsg`, `Joined`, `Left`, `TableStart`, `TableList` |
| the `await` in `init`, `variants_promise` | `inits`, `LoadVariants`, `ResumeInits` |
| `Bot.handle_action`, its `setTimeout` | `HandleAction`, `timers`, `TimerFires` |
| `handle_chat`: `/settings`, `/leave`, `/rejoin`, `/join` | `HandleChat` |
| a rejected promise nobody handles (`hanabi-bot.ts:91`) | `Die` |
| the server, its log, the note, crashes, restarts | external actions |

The server's game is its log: entry 1 ends the deal, even entries are what a
player did, odd ones the next `turn`, the last one `gameOver`. A game of the bot
is reduced to the list of entries it has handled, its settings, whether it is in
progress, whether the first note is written, and the commands it has queued.

`Throws` is where a handler cannot handle an entry: the deal handled twice (the
hand-size assertion of `onDraw`) or a move whose card was not dealt. The process
then ends, and the outgoing commands may have been sent up to any point.

### Rewind, MCRewind

Class Game with a stack: `stack` holds the calls of `rewind` in progress, each
with the actions it still has to handle, since an action that is replayed may
ask for a rewind itself (`Handle`, `Return`). An interpretation asks for one of
the seven kinds the code has (`AskIdentify`, `AskFocus`, `AskSilent`, `AskDemonstrate`,
`AskIgnore`, `AskFinesse`, and `AskFix` after a clue), at any moment its callers' guards
allow; which one is open, since this module has no convention. So is what a clue says of
the cards of its target, each time it is read (`Readings`): the flag `mistake`, which `rewind`
sets on the clue it goes back to, only bears on that and is left out. `Start` has the bounds
and the early returns in the code's order (`Invalid`, `AlreadyIn`), `UpdateNotes` what is
told to the server, `Navigate` the console's command over a finished game. The status of
a card stands for everything a convention thinks of it.

`session` is the server or the recorded game. `session.begun` and `session.table` are history
variables: the States in which the turns began, and the State of a game that is never
rewound. `navigate` is explored without a hand-size option: with one, the deal does not set
the turn, so that the list keeps a hole at the first turn (`action-handler.js:92`).

### Cards, Elim, GoodTouch, Thinks, Basics

The knowledge, in the code's layers. `Cards` is class Card: a record with the
fields that anything outside the H-Group writes, and the methods that change it
(`UpdateStatus`, `ResetInferences`). `Elim` is `card_elim`, `GoodTouch` the
rest of `player-elim.js`, `Thinks` the questions class Player answers and its
hypothetical stacks, `Basics` the four handlers of `basics.js` in full,
`team_elimP`, `checkFix` and the sarcastic discards of `helper.js` and
`conventions/shared/sarcastic.js`.

The closure variables of an elimination (`newThoughts`, `certain_map`,
`cross_elim_candidates`, `eliminated`) are one record that the steps hand on;
`changed` and `recursive_ids` are returned, and overwritten where the code
overwrites them. Loops over identities and cards visit them in the code's order
(`InOrder`, `Slots`, `SlotNumber`), since the result depends on it. In `Elim`, which is
proved about, a loop over identities is a function of the number of passes made
(`BasicPass`, `EndgamePass`, `ShareAll`, `NakedPairs`), and what calls itself or goes
round until nothing changes is a function of how often it may still do so, with bounds
the code has no need of: `basic_elim` (`Recurse`) calls itself at most `DeckSize` times,
since every call but the last makes a card certain; `gen_subset` nests at most
`DeckSize + 1` deep, since `nextIndex` grows; and the loop of `card_elim` (`CrossLoop`)
ends within `Rounds`, since every round but the last takes a possibility off a card.
Where an operation is done in the midst of such a function, it is handed to it as a function
itself (`Passing`, `Performing`, `Crossing`). Where the code keeps stale
entries, skips the next element after a splice or tests a value that is never
true, the definitions do the same.

### Empathy, MCEmpathy

Elimination in a whole game. Every seat runs its own program: `games[i]` has the
State as seat i sees it, common knowledge, and one view per player. `GameClue`,
`GameDraw` and `GameReveal` are the knowledge halves of the handlers, each with the
calls of `card_elim` and `team_elimP` it ends in; what they do to one card is
`Positive`, `Negative`, `Shown` and `Merged`. The game is the one of `SelfPlay`
with an action and the draw after it in one step, as `games.map` does it; plays
are of playable cards (a misplay shows a card as a discard does).

Inferences are narrowed by conventions, of which `Infer` stands for one result:
card `o` is `id`, for any touched card and any identity all programs still infer.

### Endgame, Playout, EndgameHelper, Fraction, MCEndgame

`solve_game` with everything it calls. A position has all cards of the hands and
the multiset of the cards still to come; a search looks only at those its player
knows. `Start` is the call, `SearchOne` one arrangement of our unknown cards,
`TimeUp` the deadline, `Conclude` the sum; then the position is played on by any
legal moves (`Play`), so that what the solver's tests claim can be compared with
what comes of it. That game is the module `Playout`, without the solver: a move is handled as
`advance_game` does it, which lowers the maximum ranks (`AdvanceGame`), and `lost` collects the
maximum scores that `unwinnable_state` has given up on the way. `Proper` says what holds of a
position that came out of a game (each card once, no more copies than there are, maximum
ranks that the discard pile has earned), and `RootAssumption` that the positions
explored are such. `EndgameHelper` has no recursion, the search of `winnable_simpler` is in
`Endgame`. `CanWin` and `BestChance` are reference definitions: whether
some play and some draws reach the maximum, and the largest probability a
strategy with all cards in sight has.

### Unlocking, Handling

What both sieves share: `unlock_promise` and the shifts of a locked hand, and a
table at which every seat of `Seats` has a program with its own game. `Handling`
has the blank game, the list a rewind replays (`Replayed`, where an identification waits
for the draw of its card: `Places`), its refusals, the
`identify` and `ignore` actions, and the moves of players who do what they like.
`sent` holds the actions of a turn until all programs have handled them
(`Handle`), as `games.map` does it in self-play.

### RefSieve

| Code | Module |
|---|---|
| `ref-sieve/connecting-cards.js` | `Connecting` |
| `ref-sieve/interpret-clue.js` | `RefClue` |
| `ref-sieve/interpret-play.js`, `interpret-discard.js`, `update-turn.js` | `RefTurn`, `Unlocking` |
| `action-handler.js`, `Game.rewind` with these | `RefSieve` |

`HandleAction` is recursive through `Rewind`, as in the code: an interpretation
that asks for a replay returns the replayed game, in which other interpretations
may have asked for replays of their own. Each such request is a pair in the
model, the replay and what is done if it is refused. The players make any legal
move.

### PlayfulSieve

| Code | Module |
|---|---|
| `playful-sieve/interpret-clue.js` | `PlayfulClue` |
| `playful-sieve/interpret-play.js`, `interpret-discard.js`, `update-turn.js` | `PlayfulTurn`, `Unlocking` |
| `playful-sieve/take-action.js`, `action-helper.js`, `fix-clues.js`, `basics/clue-result.js` | `PlayfulAction` |
| `playful-sieve.js`, `action-handler.js`, `Game.rewind` with these | `PlayfulSieve` |

Here players can also follow the convention: those in `Bots` do what `TakeAction`
says, which simulates every clue (`SimulateClue`), weighs what it would tell the
partner (`GetResult`) and goes through the branches of `take_action` in their
order. Values of clues are counted in hundredths, the two digits the code keeps.
`locked_shifts` is an array that `createBlank` passes on by reference: `shifts_own`
and `shifts_given` keep apart the array that a replay still shares and its own.

## 3. Runs

| Run | What it asks | Distinct states |
|---|---|---|
| `self_play` | Does every self-play game keep the copies in step, hide hands, account for cards, follow the rules and end? | 660 029 |
| `cmd_queue` | Queue, timer and socket in every interleaving | 6 258 |
| `bot_session` | Loading, chats, crash and restart in every order | 1 012 455 |
| `bot_settings` | Are accepted settings remembered? Not after a rejected command (see *Findings*) | |
| `empathy` | Is elimination sound, and does no program think a player knows more than that player does? | 24 006 |
| `empathy_players` | Is a known identity removed from every card? Not always (see *Findings*) | |
| `rewind` | Whatever is taken back, also in a replay: is it the same game afterwards, and do the notes say so? | 2 872 413 |
| `endgame` | Is what the solver gives up lost, and what it promises possible? | 139 723 |
| `ref_sieve` | The referential sieve at two seats, for any moves: truth, agreement, connections, replays | 7 031 |
| `ref_restore` | Is an inference only given back if it is possible? No (see *Findings*) | |
| `playful_sieve` | A bot of the playful sieve and a partner with a mind of its own: truth, replays, and is what the bot does allowed and sensible? | 3 154 |
| `playful_discard` | Does the bot only discard when that is allowed? No (see *Findings*) | |

### Properties

`self_play`:
- `CopiesAccounted`: `baseCount` is exactly the number of drawn cards of an
  identity that are in no hand.
- `OwnHandHidden`: no copy knows a card of its own hand, neither in `deck` nor in
  `deck_ids`, and knows every other card drawn.
- `CopiesAgree`: the public state of all copies is the same, although each is told
  other things.
- `CriticalDiscardCosts`: a discard or misplay lowers the maximum score exactly
  when the card was critical before.
- `FollowsRules`: refinement of `Hanabi`.
- `GameEnds`: the loop ends.

`cmd_queue`: `NothingLost`, `SendSpacing`, `IsChannel` (refinement), `QueueDrains`.

`bot_session`:
- `CaughtUp`: what the bot has handled is a prefix of the server's log, nothing
  twice, nothing skipped. Where messages do not fit together (another player
  moves during the load, two loads overlap) the process dies rather than play on.
- `SettingsMatch`: a game in progress is played with the bot's settings.
- `NoteKept`: the first noted settings are never replaced.
- `OneMove`: at most one move is under way and it answers the current turn,
  unless the bot left the table or was loaded again while a move was under way
  (nothing clears the timer of `handle_action`, so there the code does send twice:
  the history variable `stale`).
- `BotMoves`: our turn is always answered, unless somebody sent the bot away.

`CaughtUp`, `NoteKept` and `OneMove` except a process that has loaded the game twice at
a time (the history variable `overlap`): nothing ties a list of actions or of notes to
the load that asked for it. With enough `/leave` and `/rejoin` within one round trip
an old list meets a newer game, so that it may be caught up with and acted on, or
settings be noted that another load has already replaced.

`empathy`:
- `TruthKept`: no view of any program rules out what a card is, in a hand or still
  in the deck, and the assertion of `update_map` never fails.
- `NoFalseCredit`: what seat i's program thinks player p knows about a card in p's
  hand, p's program knows. The two programs see different cards and eliminate in a
  different order.
- `CommonIsKnown`: what any program holds to be common knowledge about a card, its
  holder knows.
- `InferredPossible`: inferences are within the possibilities.

`rewind`:
- `SameState`: the rewound game has the State of a game that handled each action
  once, and cards identified in hindsight are what they are.
- `LogKept`: without the insertions, the list of actions is what happened.
- `RequestsInserted`: a rewind that returns a game has inserted all it was asked to,
  also the identifications of cards drawn after the place it went back to.
- `NotesCorrected`: when a turn begins in a game followed from its start, a note that
  the server shows on a card in a hand says what the bot thinks of it now. A replay is
  free to read every clue in another way than the first time, for any card of its target.
  A card without a note on the server is excepted: the code can leave its first note
  unsent (see *Other observations*).
- `ShowsTurn`: navigating shows the position as it was when that turn began.

`endgame`:
- `UnwinnableIsFinal`: a position that `unwinnable_state` gives up never gets to its
  maximum score, whatever is played and drawn.
- `SimplerHolds`: `winnable_simpler` promises no win that does not exist.
- `CacheHolds`: positions of one search with the same hash have the same result. The
  hash joins the hands of all players into one list and has no stacks; with three
  players, positions that differ in where a hand ends do meet under one hash.
- `WinrateHolds`: `winnable`, and the search of each arrangement, promise no more than
  the best strategy has; and the action that is reported when all is known keeps what
  it promises.
- `SharedFairly`: the arrangements of our unknown cards are the identities that what
  we know of them allows, none left out, each with the share of the deals that give it
  and with as many cards left over as the deck has.

`ref_sieve`:
- `TruthKept`: in the game of either seat, no player's view rules out what a held
  card is, however often a game was replayed.
- `PublicAgreed`: a seat that has replayed its game has the same table as one that
  has not.
- `ConnectionsHeld`: the next card of a waiting connection is in the hand of the
  player who is to play it.
- `RewoundKnown`: a card that a game was replayed for comes out of the replay known
  and marked, or the interpretation would ask for the same replay for ever.
- `KnowledgeGrows`: the possibilities of a held card only get fewer, although a
  rewind starts from nothing.

`playful_sieve`: `TruthKept` and `RewoundKnown` as above, and
- `CluesPaid`: no path through `take_action` ends in a clue without a token or a
  touched card.
- `BombsUnknown`: the bot may be misled by its partner, but never bombs a card that
  it can know to be unplayable.

Each property has a mutant in `PROJECT.json`: a small change of one definition,
the kind of slip the code could contain (a dropped guard, a missing reset), under
which TLC finds the property violated. The operators named `Mutant...` are these
changes; nothing else uses them.

### Bounds, and why they are enough

- *self_play*: 2 players, 2 suits, ranks 1 and 2, three copies of one of the ones,
  two of the other, one of each two: 7 cards, hands of 2, 1 clue token, 2 strikes.
  Every event of the rules happens: misplays, strike-out, discarding the last copy
  of a critical and of a trash card, a token not regained because they are all
  there, a suit completed, the last round with all its turns, a perfect score
  before and within the last round, a game that ends at its maximum score. With 6
  cards no game could end by its score before the last round is over: four cards
  would always have to leave the hands first. The decks are those that deal each
  player a card of each suit (`MCShuffles`, 36 decks); the other decks multiply the
  states by more than ten and bring no other event; every property of this run but
  the liveness `GameEnds` is proved for every deck and table (section 4). Three
  players would add no handler, only longer rotations.
- *cmd_queue*: 3 commands, 4 calls, a period of 2: enough for a call at each
  moment of a running timer with zero, one and more commands waiting.
- *bot_session*: two convention sets, levels 1 and 2 and undefined, a log of 9
  entries (each player moves twice), 4 chat commands, 1 crash of the outside kind
  (those the program brings about by itself are not counted, and a restart
  follows each). Four chats allow leave, rejoin
  and a change of settings, two rounds of leaving and coming back, or three overlapping
  loads. The safety properties are proved for any number of chats (section 4).
- *empathy*: 2 players, 2 suits, ranks 1 and 2, two copies of the ones and one of the
  twos, 6 cards, hands of 2, 3 turns, 1 inference, the 24 decks that begin with a
  one of the first suit and end with a one of the second (exchanging the suits
  gives the same game). Three turns are enough for a clue between two draws, for
  two clues and a draw, and for the deck to run out, so that endgame elimination
  takes part; four identities and four cards in hands give the sudoku operation
  subsets of two and of three cards.
- *rewind*: three games of three moves that have a clue of each player, a misplay of
  ours followed by a clue, and a discard between two plays; up to 3 requests of
  any kind (one in the game with two clues, where each clue can be read in nine ways each
  time), the bounds on rewinds lowered from 100 to 2 and on the depth to 3, so
  that both are reached. Three requests allow one in a replay in a replay. Cards have
  one of two statuses or none, in a game in progress only: the notes of one that is over
  are not sent. Two are enough for a note to be wrong.
- *endgame*: three players, two suits of three ranks, hands of two, dealt from chosen
  pools of cards with two, one and no card left to draw, and after the first turn of the
  last round, when the players before us have fewer cards (`MCRoots`); with and without
  a token, with the cards we know from none to all, and of the others nothing, the suit
  or the rank told (`Hints`); a suit that needs two cards, one that needs one, copies that
  may be discarded, a game that is won. In some no arrangement is possible. Longer
  endgames repeat these steps.
- *ref_sieve*, *playful_sieve*: 2 players, 2 suits, ranks 1 to 3, two copies of the
  ones, 8 cards, hands of 3, 3 clue tokens. In `ref_sieve` one deal, 1 strike and any
  moves of both for 4 turns; in `playful_sieve` two deals, 2 strikes, the bot at seat 1, any
  moves of the partner, 6 turns. The first deal puts playable cards side by side,
  so that finesses, prompts, calls to play and replays for misplayed and
  wrongly called cards happen; the second one has a clue that locks the
  bot's hand, so that stalling and unlocking happen. Two turns fewer and no
  promise is kept or broken; with every deck the runs would take days. Linked
  cards are played as long as a strike may be lost (`UnsafeLinked`), so `playful_sieve` has
  two; the referential sieve never plays them, and what a bomb shows is seen in the
  state it leads to, so that `ref_sieve` ends with the first.

`CHECK_DEADLOCK FALSE` is set where the system may stop: the queue is empty and no
more commands are bounded, the game is over or has used up its turns.

### Fairness

- `SelfPlay`: weak fairness of `Step`. `simulate_game` is one loop without an await
  between the calls; nothing pauses it. `Throw` is not fair.
- `CmdQueue`: weak fairness of `Tick` and `TimerFires`: time passes, and Node runs a
  timer that is due. Neither calls nor socket events are fair.
- `BotSession`: weak fairness of message delivery in both directions, of the
  timer, of the download at start-up, and of `Restart`. The comment at
  `command-handler.ts:222` ("Try to automatically re-attend games after crash")
  presupposes that somebody starts the program again. If the download fails
  (`variants.js:64`) the promise never settles and `BotMoves` would not hold.
  Other players, chats and crashes are not fair.

The other specifications state no liveness and need no fairness.

### Findings

- `SettingsRemembered` (`bot_settings`): `assignSettings` clears the level before it
  looks at the command, and a rejected command leaves it cleared, while
  `README.md:57` says the bot remembers its settings between games.
- `PlayersPropagated` (`empathy_players`): `basic_elim` overwrites `recursive_ids` for
  every identity it looks at (`player-elim.js:145`). Seat 0 finds two cards
  of its own hand to be r1 in one step, so `recursive_ids = [r1, r1]`; the first r1
  leaves a card of the other player with one identity, the second finds nothing and
  its empty list replaces that identity, which stays possible elsewhere although
  line 128 says it is removed from every card.
- `InferredPossible` (`ref_restore`): the callback of `elims.filter` in `restore_elim`
  (`player-elim.js:781`) returns an arrow function, which counts as true, so an
  identity that has become impossible for a card is put back among its inferences,
  although line 782 says "Only add the inference back if it's still a possibility".
- `DiscardsAllowed` (`playful_discard`): `take_action` of the playful sieve discards a
  playable card that is a copy of the partner's chop (lines 213-214) without
  looking at the tokens; the next branch (line 221) asks for `clue_tokens !== 8`, and
  `h-group/take-action.js:735` says "8 clues, must stall". In the run the partner plays
  a card on the first turn that tells the bot its oldest card is playable and
  draws the same card, and the bot discards with all tokens there.

### Other observations

Seen while modelling; the definitions do what the code does, and no run is
spent on them.

- `self-play.js:194` records `STRIKEOUT` for every game that ends before the countdown
  does, perfect games included; `log.js:190` prints it as "Players lose!".
- `basic_elim`, `cross_elim` and `team_elimP`: what their comments say of common
  knowledge fails in small games too. A card reset to one possibility is not made
  certain (`player-elim.js:108-118`); the sudoku step groups by `state.deck`, so that
  the program of one seat holds something to be common knowledge that the other
  cannot know (line 175); endgame elimination runs for common knowledge only. The
  programs are then too cautious, or `CommonIsKnown` still holds, never wrong about a card.
- `winnable_simpler` never discards a useful duplicate (`endgame-helper.js:238`), so it
  misses wins of players who see their cards (line 201). With the default sampling
  the group of arrangements without trash is weighed twice (`endgame.js:155`), so
  that a winrate may exceed one; `SharedFairly` is stated before the sampling. Of the
  tests of `impossible` (`endgame.js:117`) the last one never rules anything out: an
  identity that is trash and possible makes its `some` true. `trivially_winnable`
  discards the last card when we have nothing to play, also with all tokens there
  (`endgame-helper.js:130`).
- A replay starts with `notes = []` and sends nothing (`Game.js:313`, `265`), and on return
  only the orders below `this.notes.length` are put back (line 361). A card from there on
  that the replay gives its first status keeps the note of the replay as its last one, so
  that it is not sent until the bot changes its mind again.
- `rewindDepth` is increased before the early return at an action already
  inserted, and is not inherited by the blank game. With a hand-size option,
  `actionList[1]` stays a hole (`action-handler.js:92`).
- `PlayfulSieve.shallowCopy` is a `minimalCopy`: each copy drops notes, queued commands
  and `catchup`, resets `rewinds`, and counts towards the limit of 100 nested copies.
- `createBlank` of the playful sieve shares `locked_shifts` with the replay, while
  `Game.js:130` speaks of a copy "as if it had restarted": when both players move
  freely, a misplay after an unlock makes the replay count a shift twice (2 of
  6 617 states of the second deal with 4 turns). In the games of `playful_sieve` the
  replay of a game's own list gives the same State, common knowledge and shifts in
  every state.
- Playful sieve, with the bot's own moves: in 5 of 40 states after a clue of the bot
  the partner takes a called card for something it is not; when both seats are
  bots the games of the two deals end with scores of 1 to 4, and 3 of 24 with a strike.
- `interpret_clue` of both sieves does not look at `rewinded` in what `checkFix`
  returned; of the playful sieve it goes on with a game that was replayed without
  the clue. `action-helper.js:33` compares `o1 !== o2` where `===` is meant, so trash that
  was known is not told from new trash. `playful-sieve/take-action.js` tests orders for
  truth (lines 119, 168, 213), so order 0 counts as none. A waited-for card that is
  discarded leaves its playful connection behind for ever.
- Referential sieve: `interpret_rs_sarcastic` works on the common knowledge from before
  the discard and loses what `onDiscard` revealed; a reset during elimination of common
  knowledge leaves the players with other statuses; a finessed card can be left
  without its connection. `check_transfer` and the symmetric connections of the
  H-Group are dropped without `remove_finesse`.

## 4. What is proved

All theorems are for every value of the constants that satisfies the named
assumptions (`TableAssumption`, `ShuffleAssumption`, `QueueAssumption`,
`SessionAssumption`, `RewindAssumption`, `EndgameAssumption`, `CopiesAssumption`,
`RootAssumption`, `SuitsAssumption`, `EmpathyAssumption`).

`SelfPlay_proofs`, the copies of the game:
- `Invariance`: `Spec => []IInv`, with
  `IInv == TypeOK /\ CopiesAgree /\ Counted /\ HandsOK /\ Dealing /\ PerformOK /\ OwnHandHidden`.
- `TypeCorrect`, `HandsStayHidden`, `CopiesStayAligned` follow from it.

None of the three is inductive. A copy reveals the card a decision names, so
`OwnHandHidden` needs that the card is in the hand of the player who decided
(`PerformOK`) and that hands are disjoint and drawn (`HandsOK`); a draw must give
every copy the same order, which needs `CopiesAgree`; that the order is one of
the deck needs `Counted`, which ties `cardsLeft` and with it the countdown's type
to `cardOrder`; during the deal the copies differ, and `Dealing` says how far
each one is, so that they agree at its end. The lemmas `DrawFields`,
`ActedFields`, `TurnFields` say what each handler leaves in each field;
`DrawCopy`, `ActedCopy`, `AdvanceCopy` that it preserves the invariant of one
copy, `ActedAgree`, `AdvanceAgree` that it preserves the agreement of two.

and, on top of `Invariance`, the cards that have left the hands:
- `CardsAccounted`: `Spec => []CopiesAccounted`. A copy's `baseCount` of an
  identity is the cardinality of the set of its cards that were drawn and are in no
  hand. A draw moves no card into that set (`DrawAccount`); an action that takes a card from
  a hand adds exactly that card, and `CountedOnce` says that a stack or the discard
  pile grows by one for its identity and for no other (`ActedAccount`). The
  step needs that a card is held once and drawn before it is held (`HandsOK`), and that
  the decision is about a card of the player who takes it (`PerformOK`).

`Sums_proofs`: scores and maximum scores are folds over the suits (`Sum`). The library's induction
theorems cannot be used (they take an operator), so `SubsetInduction` is stated
for a set of sets and proved from the least cardinality of an exception;
`PartialUnfolds` shows that the fold's recursion has a solution, `SumOrder` that sums
follow the pointwise order and are equal only for equal functions, `SumConstant` what a
constant sums to, `SumOneMore` that a function larger by one at one place sums to one more.
They need that there are finitely many suits (`TableAssumption`, `EndgameAssumption`).

`Ranks_proofs`, on top of both, the ranks within reach:
- `RulesInvariance`: `Spec => []RInv`. `RInv` adds to `IInv` and the accounts that
  stacks stay within `max_ranks` and `max_ranks` are exactly what the discard pile leaves
  within reach (`RanksOK`), that the countdown runs if and only if the deck is empty
  (`LastRound`), and that a turn is taken only while the loop condition holds
  (`InPlay`). Discarding or playing a card keeps `RanksOK` only because no identity is counted
  more often than the deck has it (`AtMostCopies`), which is `CardsAccounted` and
  the assumption that a shuffle is a deck.
- `CriticalIsCostly`: `Spec => CriticalDiscardCosts`. `isCritical` looks at the ranks
  before the card is gone, `onDiscard` lowers them after (`DiscardCost`).

and the rules of the game:
- `PlaysByTheRules`: `Spec => FollowsRules`, the refinement of `Hanabi`. Each step of the
  loop is a step of the rules or none: `DealCardRules`, `StartLoopRules`,
  `ApplyActionRules`, `OtherRules`. The rules' end of the game is the loop's (`NotOver`,
  with `ReachableRank` and `NotPerfectYet`), whether a card is drawn is decided alike
  (`ReplaceStep`, with `PerfectIsFull`), and the countdown from `NumPlayers` to 0 is
  the set of the players still to move (`FullRound`, `OneFewer`).

So every property of `self_play` but its liveness holds for all tables, variants and
shuffles.

`Playout_proofs`, for any number of players, hand sizes, variant, stage of the game and draws:
- `PlayInvariance`: `PlaySpec => []PlayInv`. That a position is lost is not inductive as
  `unwinnable_state` tests it: a lost position need not be seen to be lost after a move, as
  the tests compare against a maximum score that a discard lowers, against void players who draw, and
  against must-plays whose number falls. `PlayInv` says that the positions are `Proper` and that for every
  score in `lost` either the maximum has sunk below it (it never rises), or the maximum is
  still that score and the position is `Doomed`, for one of three reasons that moves keep:
  - `TooFew`: fewer plays can still be made than are missing. Until the last card is drawn
    those are the cards left and one for each player who is not void, then one for each
    player still in turn who is not void. A void player is one without a useful
    card: while the maximum stays, no card becomes useful (`TrashStays`), so a player who is
    void and moves uses a turn and a card without scoring, and drawing fills one hand only
    (`VoidAfter`, `TooFewCard`).
  - `TooLate`: in the last round a player holds more cards that only that player can play
    than there are turns. A must-play that leaves the hand any way but by being played lowers
    the maximum (`MustAfter`, `TooLateCard`).
  - `Rivals`: with one card in the deck two players must play two cards each. Whoever draws it
    starts the last round, the other has one turn (`RivalsCard`).
- `GivenUpIsFinal`: `PlaySpec => []UnwinnableIsFinal`. Each test of `unwinnable_state` gives one
  of the three reasons (`GivenUpIsDoomed`), and a position with one of them is not won
  (`DoomedIsShort`). TLC checked `PlayInv` on the positions of `MCEndgame` first.

`MaxesAfter`, `CopiesAfter` and `HandsAfter` show that a move leaves a `Proper` position, `MaxesAfter`, `CopiesAfter` and `HandsAfter` show that a move leaves a `Proper` position, in
particular that a maximum rank is only lowered to where the last copy has gone. In `Endgame`
every step but `Play` leaves `pos` and `lost` alone and `Play` is a step of `PlayOn`, so that
the theorem is about every position the solver is asked about and all that follow it.

`CmdQueue_proofs`:
- `QueueInvariance`: `QInv` adds to the types that a non-empty queue always has a
  timer (`NeverStuck`), that nothing is lost until the socket closes
  (`Accounted`), and that the time left on the timer and the time since the last
  send add up to the period (`Spaced`).
- `QueueTypeCorrect`, `QueueLosesNothing`, `QueueSpacesSends` follow, and
  `QueueIsChannel`: the queue implements `Channel`, step by step.

`BotSession_proofs`, for logs of any length and any number of crashes and chats:
- `SessionInvariance`: `Spec => []IInv`. Three of the four properties are far from
  inductive, because the state they speak of is spread over both channels. `IInv` says
  what each channel holds: after a game that is dealt has handled `n` actions, the
  actions `n + 1` to the end of the log are on their way, once and in order
  (`Contiguous`, with `Follow`); the same follows a list a game is waiting for
  (`ListCurrent`); between the two hands of a load no note is written (`NotesCurrent`)
  and all notes on their way agree (`NotesAgree`); a game whose settings are not restored
  has handled nothing (`Fresh`); the server's actions come in pairs and a list
  with its notes (`Paired`), so that between the two actions of a turn the game is dealt
  or gone (`OddHead`). A move under way means that the game has handled the whole
  log (`MoveLast`), and the log does not pass a turn of ours that the game has not
  handled (`TurnsOpen`).
- `BotCatchesUp`, `SettingsStayMatched`, `MovesOnce` and `NoteStaysKept` follow from it.
  Each handler has its lemma: `HandledStep` for the actions and the lists,
  `NoteStep`, `ResumeStep` for `init` after its `await`, `DieStep` for exceptions
  and crashes, `TimerStep`, `ChatStep`; and each answer of the server:
  `LoadServe`, `NoteServe`, `AdvanceStep`, `QuietServe`.

The proof needs the bot to go through the channels in the order of its requests: that a
`/leave` is sent before the next load is asked for is what makes a list current. With
two loads at a time that order is lost, which is where the exception `overlap` comes from.

`Rewind_proofs`, for any moves, any number and kinds of requests, any bounds on rewinds and
their depth, every table and deck:
- `RewindInvariance`: `Spec => []IInv`. Between two actions of the server the properties
  hold; while a call is in progress they do not, and what they say then must be found in the
  frames of the stack. `IInv` says that there is a function `R` with the State after each action
  of the log, and a position `pos[n]` for the game of each call.
  - `Course`, of `R` alone: each State follows from the one before (`Runs`); what it knows of
    cards is true (`Truth`); turns and the deck only advance (`Onward`); actions come when they may
    (`Orderly`); a card in a hand was drawn there, at the turn `drawn_index` gives, and has
    been there since (`Held`); the turns began where `session.begun` says (`Began`); what
    the server may do next (`Ahead`).
  - `Doing`, of each call: its game is the State `R[pos[n]]` but for cards it knows in
    hindsight, and its list holds the first actions of the log, each draw under the turn it was
    made in (`Played`, `Filed`); what its frame has left are the actions of the log up to
    the one its caller is interpreting (`Goal`).
  - `Rewinding`, of each call of `rewind`: whatever was in the list or is to be inserted is in
    the list, still to do or waiting for its card (`Kept`); an identification finds its card
    in the hand it names, or waits for one draw that is still to come (`Insertable`,
    `Waiting`); and if something is to be inserted, the action that asked for it is handled after it
    (`Closing`). `Navigating`, of `navigate`: it has not passed the turn it looks for.
- `ListIsTheLog`, `StateIsTheSame`, `TurnIsShown`, `AllIsInserted` follow from it:
  `LogKept`, `SameState`, `ShowsTurn` and `RequestsInserted`.

`SameState` and `LogKept` are not inductive: a rewind cuts the list where the turn of the
action stands and replays it, so that it needs to know where the actions are in
the list (`Filed`), and returning hands on a game that must be as far as the frame below
expects. `drawn_index` is where an identification goes back to, hence `Held`. Each action has its
lemma: `HandleKeeps` and `CompleteKeeps` for one action of a list, `AskKeeps` with `StartKeeps`
for a request, `ReturnKeeps`, `DoneKeeps`, `ReceiveKeeps` for the server, `CaughtUpKeeps`,
`NavigateKeeps` and `ShownKeeps`. `TurnIsShown` is about games without a hand-size option,
where alone `Navigate` is modelled. `IInv` quantifies over functions of the whole log, so
TLC cannot evaluate it; its consequences are the properties that the run `rewind` checks.

`Empathy_proofs`, elimination, for every number of players, hand size, variant, deck and
course of the game, and any inferences:
- `CardElimSound`: on a table that is sound (`TableSound`: nobody holds a card of another's,
  known identities are true, and the copies of each identity in hands and deck are those
  that are neither played nor discarded), `card_elim` makes of a view that rules out nothing
  true (`ViewSound`) another such view, and never throws.
- `ProgramsAreSound`: `Spec => []IInv`; `IInv` says that every program's table and views
  are sound and that the programs agree on hands, stacks, strikes and the last card drawn.
- `TruthIsKept`, `InferencesArePossible` follow from it: `TruthKept` and `InferredPossible`.

The invariant inside an elimination is `WorkSound`. Besides the cards, it says of the
variables of `card_elim` that the cards `certain` has for an identity are live cards with
that identity, and that an eliminated identity is that of no card to be drawn. One counting
argument then carries all of it: a set of live cards with one identity that is as large as
the copies not yet played or discarded has all of them, so that the identity can be taken
off every other card (`AllKnownAccounted` for `basic_elim`; `CountedOut` for `endgame_elim`,
whose count includes what is seen of the cards). For the sudoku step the count is over several identities (`Multiplicity`): the `contained` cards have
identities of `acc_ids`, and so have the `certains`, which are other cards; if the two are
as many as the copies of `acc_ids`, the cards outside have none of these (`CallSound` is what a
call of `gen_subset` knows of its arguments; `TriedSound`, `IncludeSound`, `SkipSound`).
`PerformElimSound` needs that the certain cards only become more (`Grown`) while the entries are worked off.
The loops over identities are handled by induction over the passes (`Iterated`), what calls
itself by induction over the bound (`UpTo`; `RecurseSound`, `GenSubsetSound`,
`CrossLoopSound`). A lemma for each handler says what it does to the table (`ClueState`,
`DrawState`, `DiscardState`, `PlayState`) and to a game (`GameClueSound`, `GameDrawSound`,
`GameRevealSound`, `InferSound`). The agreement of the programs is needed because the cards
a clue touches, whether a play fits and whether a card is drawn are read off one table.

What the proof shows beyond the run: it uses neither the order in which the loops visit
identities and cards nor the values of `changed` and `recursive_ids` that `basic_elim`
overwrites. These decide how much is eliminated (finding `PlayersPropagated`), never whether
the truth survives.

### Only model-checked

`GameEnds`, `QueueDrains` and `BotMoves` are liveness under fairness, out of the
prover's reach.

`NotesCorrected` of `Rewind` compares what the server shows with what the last of several
nested replays made of a clue, across the notes that `Restore` puts back. A proof would have
to carry the notes of every call in progress and how they relate to the server; TLC
finds it right for the games and readings of the run.

`SimplerHolds`, `CacheHolds`, `WinrateHolds` and `SharedFairly` are about what recursive searches compute,
from the definition of a recursion over positions. Nor is there a proof of `NoFalseCredit`
and `CommonIsKnown`, which compare what two views derive by the same elimination: it
is not monotone. A view that knows more need not rule out more, as `update_map` spares the
whole hand of a player who holds a copy unknowingly, and what `basic_elim` looks at again
depends on the identity it handled last. That the properties hold all the same depends
on which views meet, and TLC finds it so. `GoodTouch` and the modules above it, the sieves
and `Endgame` use RECURSIVE operators, which the prover does not take.

## 5. What is not modelled, and why

- *H-Group.* More than eight thousand lines whose interpretations call each other; a
  model of one file alone would state nothing about a game. What it shares with the
  sieves is modelled: elimination, links, `checkFix`, rewinds, the endgame solver.
- `take_action` of the referential sieve and its weighing of clues: its players make
  any legal move, which includes what it would choose.
- *StateProxy.* A handler's draft is the record it yields. A model of the proxies
  would be one of JavaScript's aliasing. Two aliases that matter are described
  above or modelled: `locked_shifts`, and `elims`, which a simulated clue
  changes in the real game (`helper.js:162`, not modelled: simulations are pure here).
- `simulate_action` and `minimalCopy`, of which only the H-Group makes deep use; what
  copies forget is listed above.
- The worker thread of the endgame solver, and what conventions pass to it as clues and
  discards.
- Several tables at once, `table`/`tableGone` messages and chat commands that only
  pass something on. The bot plays at one table at a time.
- Several of the fields of a card that the H-Group alone writes (`finesse_ids`, `rewind_ids`,
  `maybe_layered`, link targets).
- Logging and output formats.

## 6. What could come next

1. Proofs: `TruthKept` of the sieves from `CardElimSound`, which needs the recursions of
   `good_touch_elim`, the links and the hypothetical stacks as recursive functions.
2. `take_action` of the referential sieve, on the pattern of `PlayfulAction`, so that
   both programs follow the convention.
3. The waiting connections of the H-Group (`update-wcs.js`, `update-turn.js`), composed
   with `Basics` and `Handling`, and its interpretation of clues.
4. `BotSession`: several tables and the remaining commands.
