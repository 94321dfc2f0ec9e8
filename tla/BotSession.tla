----------------------------- MODULE BotSession -----------------------------
(***************************************************************************)
(* class Bot (src/command-handler.ts) playing one game at one table of the *)
(* server: the messages it handles, the commands it sends, what it keeps   *)
(* between them, and what survives when its process dies.                  *)
(*                                                                         *)
(* The two channels are FIFO: a websocket one way, the command queue (see  *)
(* CmdQueue) and the websocket the other way.  A handler runs until its    *)
(* first await; the one await that lets other messages in is that of init, *)
(* which waits for the list of variants the process downloads at startup.  *)
(*                                                                         *)
(* The server is external: it does what the handlers rely on.  The game is *)
(* its log of actions: entry 1 ends the deal, then every turn adds what    *)
(* the player did (an even entry) and the next 'turn' (an odd one), and    *)
(* the last entry is 'gameOver'.  There are two players.                   *)
(***************************************************************************)
EXTENDS Integers, Sequences, SequencesExt

CONSTANTS
  Conventions,   \* the convention sets, "HGroup" among them
  MaxHLevel,     \* MAX_H_LEVEL
  Us,            \* our seat, 0 or 1
  LogEnd,        \* length of the whole log
  MaxCrashes,    \* bound on how often the process is killed
  MaxChats       \* bound on the chat commands of one behaviour

ASSUME SessionAssumption ==
  /\ "HGroup" \in Conventions
  /\ MaxHLevel \in Nat \ {0}
  /\ Us \in {0, 1}
  /\ LogEnd \in Nat /\ LogEnd % 2 = 1
  /\ MaxCrashes \in Nat /\ MaxChats \in Nat

NoLevel == 0     \* settings.level === undefined
Settings == [convention : Conventions, level : NoLevel .. MaxHLevel]
Boot == [convention |-> "HGroup", level |-> 1]

\* The settings of a game built with s: HGroup's level parameter defaults to 1,
\* the other conventions have none.
Built(s) == IF s.convention # "HGroup" THEN [s EXCEPT !.level = NoLevel]
            ELSE IF s.level = NoLevel THEN [s EXCEPT !.level = 1] ELSE s

NoGame == [log |-> <<0>>]
NoNote == [convention |-> "none", level |-> NoLevel]

\* the entries of the server's log
IsTurn(k)  == k % 2 = 1 /\ k > 1 /\ k < LogEnd
OurTurn(k) == k % 2 = 1 /\ k < LogEnd /\ ((k - 1) \div 2) % 2 = Us
Entries(n) == [k \in 1 .. n |-> k]

VARIABLES
  \* the process
  up, settings, game, tableID, gameStarted, restoredLevel,
  inits,           \* suspended init handlers
  variantsLoaded,  \* variants_promise has settled
  timers,          \* the turns for which a setTimeout will send an action
  \* the channels
  toBot, toServer,
  \* the server
  log,             \* length of its log, 0 before the game starts
  note,            \* the settings noted on card 0
  seated, attending,
  \* history
  crashes, chats,
  accepted,        \* the settings the bot last told somebody it plays with
  stale,           \* this process left the table or built a game with a move under way
  overlap,         \* this process has loaded the game twice at a time
  dismissed        \* somebody told the bot to leave

procVars == <<up, settings, game, tableID, gameStarted, restoredLevel, inits,
              variantsLoaded, timers>>
serverVars == <<log, note, seated, attending>>
historyVars == <<crashes, chats, accepted, stale, overlap, dismissed>>
vars == <<procVars, toBot, toServer, serverVars, historyVars>>

-----------------------------------------------------------------------------
(* The program *)

Cmd(t) == [type |-> t]

\* The moves decided and not yet received by the server are the timers and the
\* commands at these places.
Sent == {i \in 1 .. Len(toServer) : toServer[i].type = "action"}

MoveUnderWay == timers # <<>> \/ Sent # {}

\* The loads of the game under way: a request for the notes, or its answer.
Asked    == {i \in 1 .. Len(toServer) : toServer[i].type = "getGameInfo2"}
Answered == {i \in 1 .. Len(toBot) : toBot[i].type = "noteListPlayer"}

OneLoad == /\ \A i, j \in Asked : i = j
           /\ \A i, j \in Answered : i = j
           /\ Asked = {} \/ Answered = {}

\* History of a step that may build a game or ask for one.
Watch == /\ stale' = (stale \/ (MoveUnderWay /\ game' # NoGame /\ game'.log = <<>>))
         /\ overlap' = (overlap \/ ~OneLoad')

\* new CONVENTIONS[settings.convention](state, true, undefined, settings.level)
NewGame(s) == [settings    |-> Built(s),
               log         |-> <<>>,     \* the actions handled, as server entries
               in_progress |-> TRUE,
               noted       |-> FALSE,    \* notes[0] is defined
               queued_cmds |-> <<>>]

\* The game once it has handled entry k.
Handled(g, k) ==
  [g EXCEPT !.log = Append(@, k),
            !.in_progress = @ /\ k # LogEnd,
            !.queued_cmds = <<>>]

\* It is our move: after a 'turn', or after a draw while turn_count is 1.
Performs(g, k) ==
  /\ Handled(g, k).in_progress
  /\ OurTurn(k)
  /\ k = 1 => \A i \in 1 .. Len(g.log) : ~IsTurn(g.log[i])

\* Handling entry k throws: a move names a card the game has not seen dealt, or
\* onDraw finds the hands full.
Throws(g, k) ==
  LET dealt == \E i \in 1 .. Len(g.log) : g.log[i] = 1
  IN  (k = 1 /\ dealt) \/ (k % 2 = 0 /\ ~dealt)

\* handle_action on a game that exists: the queued commands go out and, unless
\* the game is catching up, a timer is set for our move.  The notes on cards that
\* updateNotes queues are left out: with the cards dealt card 0 has its note, and
\* what is appended to it leaves the settings as they are.
HandleAction(k) ==
  /\ game' = Handled(game, k)
  /\ toServer' = toServer \o game.queued_cmds
  /\ timers' = IF Performs(game, k) THEN Append(timers, k) ELSE timers

\* An exception in a handler is a rejected promise nobody handles: Node ends
\* the process.  What was on its way to the server may or may not get there.
DieSending(cmds) ==
  LET sent == toServer \o cmds
  IN  /\ up' = FALSE
      /\ toBot' = <<>>
      /\ \E n \in 0 .. Len(sent) : toServer' = SubSeq(sent, 1, n)
      /\ UNCHANGED <<settings, game, tableID, gameStarted, restoredLevel, inits,
                     variantsLoaded, timers>>

Die == DieSending(<<>>)

GameAction(m) ==
  IF game = NoGame \/ Throws(game, m.entry) THEN Die
  ELSE /\ HandleAction(m.entry)
       /\ toBot' = Tail(toBot)
       /\ UNCHANGED <<up, settings, tableID, gameStarted, restoredLevel, inits, variantsLoaded>>

\* The actions of a list of length n are handled, all but the last with catchup
\* set.  The loop is synchronous; the rejections of its calls end the process
\* after it.
HandleList(n) ==
  LET caughtUp == [game EXCEPT !.log = @ \o Entries(n - 1)]
      cmds     == game.queued_cmds \o <<Cmd("loaded")>>
  IN  IF Throws(game, 1) THEN DieSending(cmds)
      ELSE /\ game' = Handled(caughtUp, n)
           /\ toServer' = toServer \o cmds
           /\ timers' = IF Performs(caughtUp, n) THEN Append(timers, n) ELSE timers
           /\ toBot' = Tail(toBot)
           /\ UNCHANGED <<up, settings, tableID, gameStarted, restoredLevel, inits,
                          variantsLoaded>>

\* Mutant of GameActionList: catchup is reset after the last action, not before it.
MutantCatchupLast(m) ==
  CASE ~restoredLevel -> toBot' = Tail(toBot) /\ UNCHANGED <<procVars, toServer>>
    [] restoredLevel /\ (game = NoGame \/ Throws(game, 1)) -> Die
    [] OTHER -> /\ game' = Handled([game EXCEPT !.log = @ \o Entries(m.length - 1)], m.length)
                /\ toServer' = toServer \o game.queued_cmds \o <<Cmd("loaded")>>
                /\ toBot' = Tail(toBot)
                /\ UNCHANGED <<up, settings, tableID, gameStarted, restoredLevel, inits,
                               variantsLoaded, timers>>

\* Mutant of GameActionList: the loop does not stop before the last action.
MutantLastTwice(m) ==
  CASE ~restoredLevel -> toBot' = Tail(toBot) /\ UNCHANGED <<procVars, toServer>>
    [] restoredLevel /\ (game = NoGame \/ Throws(game, 1)) -> Die
    [] OTHER ->
         LET caughtUp == [game EXCEPT !.log = @ \o Entries(m.length)]
         IN  /\ game' = Handled(caughtUp, m.length)
             /\ toServer' = toServer \o game.queued_cmds \o <<Cmd("loaded")>>
             /\ timers' = IF Performs(caughtUp, m.length) THEN Append(timers, m.length) ELSE timers
             /\ toBot' = Tail(toBot)
             /\ UNCHANGED <<up, settings, tableID, gameStarted, restoredLevel, inits,
                            variantsLoaded>>

\* Mutant of GameActionList: catchup is not set while the list is handled.
MutantNoCatchup(m) ==
  CASE ~restoredLevel -> toBot' = Tail(toBot) /\ UNCHANGED <<procVars, toServer>>
    [] restoredLevel /\ (game = NoGame \/ Throws(game, 1)) -> Die
    [] OTHER ->
         LET caughtUp == [game EXCEPT !.log = @ \o Entries(m.length - 1)]
         IN  /\ game' = Handled(caughtUp, m.length)
             /\ toServer' = toServer \o game.queued_cmds \o <<Cmd("loaded")>>
             /\ timers' = timers \o SelectSeq(Entries(m.length), OurTurn)
             /\ toBot' = Tail(toBot)
             /\ UNCHANGED <<up, settings, tableID, gameStarted, restoredLevel, inits,
                            variantsLoaded>>

\* Without restored settings the list is not looked at.
GameActionList(m) ==
  CASE ~restoredLevel                  -> toBot' = Tail(toBot) /\ UNCHANGED <<procVars, toServer>>
    [] restoredLevel /\ game = NoGame -> Die
    [] OTHER                           -> HandleList(m.length)

\* The end of NoteListPlayer, once the note has been looked at.
MutantNoteEnd(restored, fresh) ==
  /\ settings' = restored
  /\ game' = IF ~fresh.noted /\ fresh.in_progress
             THEN [fresh EXCEPT !.noted = TRUE,
                                !.queued_cmds =
                                  Append(@, [type |-> "note", settings |-> fresh.settings])]
             ELSE fresh
  /\ restoredLevel' = TRUE
  /\ toServer' = Append(toServer, Cmd("getGameInfo2"))
  /\ toBot' = Tail(toBot)
  /\ UNCHANGED <<up, tableID, gameStarted, inits, variantsLoaded, timers>>

\* Mutant of NoteListPlayer: the game is not built anew with the restored settings.
MutantNotRebuilt(m) ==
  CASE restoredLevel -> toBot' = Tail(toBot) /\ UNCHANGED <<procVars, toServer>>
    [] ~restoredLevel /\ game = NoGame -> Die
    [] OTHER -> MutantNoteEnd(IF m.note # NoNote THEN m.note ELSE settings, game)

\* Mutant of NoteListPlayer: the note is not read.
MutantNoteUnread(m) ==
  CASE restoredLevel -> toBot' = Tail(toBot) /\ UNCHANGED <<procVars, toServer>>
    [] ~restoredLevel /\ game = NoGame -> Die
    [] OTHER -> MutantNoteEnd(settings, game)

\* The settings in the note on card 0 win; the note is written if it is missing.
NoteListPlayer(m) ==
  CASE restoredLevel ->
         /\ toBot' = Tail(toBot)
         /\ UNCHANGED <<procVars, toServer>>
    [] ~restoredLevel /\ game = NoGame -> Die
    [] OTHER ->
         LET restored == IF m.note # NoNote /\ m.note # settings THEN m.note ELSE settings
             fresh    == IF restored # settings THEN NewGame(restored) ELSE game
             noting   == ~fresh.noted /\ fresh.in_progress
         IN  /\ settings' = restored
             /\ game' = IF noting
                        THEN [fresh EXCEPT
                                !.noted = TRUE,
                                !.queued_cmds =
                                  Append(@, [type |-> "note", settings |-> fresh.settings])]
                        ELSE fresh
             /\ restoredLevel' = TRUE
             /\ toServer' = Append(toServer, Cmd("getGameInfo2"))
             /\ toBot' = Tail(toBot)
             /\ UNCHANGED <<up, tableID, gameStarted, inits, variantsLoaded, timers>>

\* init after its await, for n suspended handlers that resume one after another.
ResumeInits(n) ==
  /\ game' = NewGame(settings)
  /\ restoredLevel' = FALSE
  /\ toServer' = toServer \o [i \in 1 .. n |-> Cmd("getGameInfo2")]

InitMsg ==
  /\ tableID' = TRUE
  /\ IF variantsLoaded
     THEN ResumeInits(1) /\ UNCHANGED inits
     ELSE inits' = inits + 1 /\ UNCHANGED <<game, restoredLevel, toServer>>
  /\ toBot' = Tail(toBot)
  /\ UNCHANGED <<up, settings, gameStarted, variantsLoaded, timers>>

Joined ==
  /\ tableID' = TRUE /\ gameStarted' = FALSE
  /\ toBot' = Tail(toBot)
  /\ UNCHANGED <<up, settings, game, restoredLevel, inits, variantsLoaded, timers, toServer>>

Left ==
  /\ tableID' = FALSE /\ gameStarted' = FALSE
  /\ toBot' = Tail(toBot)
  /\ UNCHANGED <<up, settings, game, restoredLevel, inits, variantsLoaded, timers, toServer>>

TableStart ==
  /\ tableID' = TRUE /\ gameStarted' = TRUE
  /\ toServer' = Append(toServer, Cmd("getGameInfo1"))
  /\ toBot' = Tail(toBot)
  /\ UNCHANGED <<up, settings, game, restoredLevel, inits, variantsLoaded, timers>>

\* tableList: the bot re-attends the table it has a seat at.
TableList(m) ==
  /\ toServer' = IF m.seated THEN Append(toServer, Cmd("tableReattend")) ELSE toServer
  /\ toBot' = Tail(toBot)
  /\ UNCHANGED procVars

\* handle_msg
HandleMsg ==
  /\ up /\ toBot # <<>>
  /\ LET m == Head(toBot)
     IN  \/ m.type = "gameAction"     /\ GameAction(m)
         \/ m.type = "gameActionList" /\ GameActionList(m)
         \/ m.type = "noteListPlayer" /\ NoteListPlayer(m)
         \/ m.type = "init"           /\ InitMsg
         \/ m.type = "joined"         /\ Joined
         \/ m.type = "left"           /\ Left
         \/ m.type = "tableStart"     /\ TableStart
         \/ m.type = "tableList"      /\ TableList(m)
  /\ Watch
  /\ UNCHANGED <<serverVars, crashes, chats, accepted, dismissed>>

\* variants_promise settles and the suspended init handlers resume.
LoadVariants ==
  /\ up /\ ~variantsLoaded
  /\ variantsLoaded' = TRUE
  /\ inits' = 0
  /\ IF inits > 0 THEN ResumeInits(inits) ELSE UNCHANGED <<game, restoredLevel, toServer>>
  /\ UNCHANGED <<up, settings, tableID, gameStarted, timers, toBot, serverVars, crashes, chats,
                 accepted, dismissed>>
  /\ Watch

\* The setTimeout callback of handle_action: it reads tableID when it runs.
TimerFires ==
  /\ up /\ timers # <<>>
  /\ timers' = Tail(timers)
  /\ toServer' = Append(toServer, [type |-> "action", turn |-> Head(timers), table |-> tableID])
  /\ UNCHANGED <<up, settings, game, tableID, gameStarted, restoredLevel, inits, variantsLoaded,
                 toBot, serverVars, historyVars>>

-----------------------------------------------------------------------------
(* Chat commands: handle_chat *)

InProgress == game # NoGame /\ game.in_progress

\* assignSettings with valid settings s
AssignSettings(s) ==
  /\ ~InProgress
  /\ settings' = s
  /\ accepted' = Built(s)
  /\ UNCHANGED <<up, game, tableID, gameStarted, restoredLevel, inits, variantsLoaded, timers,
                 toServer, dismissed, stale, overlap>>

\* assignSettings with a level out of range, or with no known convention set:
\* an explanation is sent, the level is gone.
RejectSettings ==
  /\ ~InProgress
  /\ settings' \in {[convention |-> "HGroup", level |-> NoLevel],
                    [settings EXCEPT !.level = NoLevel]}
  /\ UNCHANGED <<up, game, tableID, gameStarted, restoredLevel, inits, variantsLoaded, timers,
                 toServer, accepted, dismissed, stale, overlap>>

\* /leave, /leaveall: leaveRoom
LeaveRoom ==
  /\ tableID
  /\ toServer' = Append(toServer, Cmd(IF gameStarted THEN "tableUnattend" ELSE "tableLeave"))
  /\ tableID' = FALSE /\ game' = NoGame /\ gameStarted' = FALSE
  /\ dismissed' = TRUE
  /\ stale' = (stale \/ MoveUnderWay)
  /\ UNCHANGED <<up, settings, restoredLevel, inits, variantsLoaded, timers, accepted,
                 overlap>>

\* /rejoin and /join
Rejoin ==
  /\ ~tableID /\ seated
  /\ toServer' = Append(toServer, Cmd("tableReattend"))
  /\ dismissed' = FALSE
  /\ UNCHANGED <<procVars, accepted, stale, overlap>>

Join ==
  /\ toServer' = Append(toServer, Cmd("tableJoin"))
  /\ UNCHANGED <<procVars, accepted, dismissed, stale, overlap>>

HandleChat ==
  /\ up /\ chats < MaxChats
  /\ chats' = chats + 1
  /\ \/ \E s \in Settings : Built(s) = s /\ AssignSettings(s)
     \/ RejectSettings
     \/ LeaveRoom \/ Rejoin \/ Join
  /\ UNCHANGED <<toBot, serverVars, crashes>>

-----------------------------------------------------------------------------
(* The server and the operating system (external) *)

Emit(ms) == toBot' = toBot \o ms

\* The table plays on: two entries, sent to the bot if it attends.
Advance ==
  /\ log' = log + 2
  /\ Emit(IF attending THEN <<[type |-> "gameAction", entry |-> log + 1],
                              [type |-> "gameAction", entry |-> log + 2]>> ELSE <<>>)

\* The table opens the game to the bot.
Present ==
  /\ attending' = TRUE
  /\ Emit(<<Cmd("tableStart")>>)

SrvStart ==
  /\ log = 0 /\ seated
  /\ log' = 1
  /\ Present
  /\ UNCHANGED <<procVars, toServer, note, seated, historyVars>>

SrvMove ==
  /\ log % 2 = 1 /\ log < LogEnd /\ ~OurTurn(log)
  /\ Advance
  /\ UNCHANGED <<procVars, toServer, note, seated, attending, historyVars>>

\* What the server does with a command.
SrvHandles(m) ==
  \/ /\ m.type = "getGameInfo1" /\ attending
     /\ Emit(<<Cmd("init")>>)
     /\ UNCHANGED <<serverVars>>
  \/ /\ m.type = "getGameInfo2" /\ attending
     /\ Emit(<<[type |-> "gameActionList", length |-> log],
               [type |-> "noteListPlayer", note |-> note]>>)
     /\ UNCHANGED <<serverVars>>
  \/ /\ m.type = "loaded"
     /\ UNCHANGED <<toBot, serverVars>>
  \/ /\ m.type = "note" /\ attending
     /\ note' = m.settings
     /\ UNCHANGED <<toBot, log, seated, attending>>
  \/ /\ m.type = "action" /\ m.table /\ attending /\ OurTurn(log)
     /\ Advance
     /\ UNCHANGED <<note, seated, attending>>
  \/ /\ m.type = "tableReattend" /\ seated /\ log > 0
     /\ Present
     /\ UNCHANGED <<log, note, seated>>
  \/ /\ m.type = "tableUnattend" /\ attending
     /\ attending' = FALSE
     /\ Emit(<<Cmd("left")>>)
     /\ UNCHANGED <<log, note, seated>>
  \/ /\ m.type = "tableLeave" /\ seated /\ log = 0
     /\ seated' = FALSE
     /\ Emit(<<Cmd("left")>>)
     /\ UNCHANGED <<log, note, attending>>
  \/ /\ m.type = "tableJoin" /\ ~seated /\ log = 0
     /\ seated' = TRUE
     /\ Emit(<<Cmd("joined")>>)
     /\ UNCHANGED <<log, note, attending>>

\* A command that makes no sense is answered with a warning, which changes nothing.
Refused(m) ==
  \/ m.type \in {"getGameInfo1", "getGameInfo2", "note", "tableUnattend"} /\ ~attending
  \/ m.type = "action" /\ ~(m.table /\ attending /\ OurTurn(log))
  \/ m.type = "tableReattend" /\ ~(seated /\ log > 0)
  \/ m.type = "tableLeave" /\ ~(seated /\ log = 0)
  \/ m.type = "tableJoin" /\ (seated \/ log > 0)

SrvReceive ==
  /\ toServer # <<>>
  /\ toServer' = Tail(toServer)
  /\ \/ SrvHandles(Head(toServer))
     \/ Refused(Head(toServer)) /\ UNCHANGED <<toBot, serverVars>>
  /\ UNCHANGED <<procVars, historyVars>>

Crash ==
  /\ up /\ crashes < MaxCrashes
  /\ crashes' = crashes + 1
  /\ Die
  /\ UNCHANGED <<serverVars, chats, accepted, stale, overlap, dismissed>>

\* A new process logs in.  The old connection is gone: the bot no longer attends
\* its game, and has lost its seat if the game had not begun.
Restart ==
  /\ ~up /\ toServer = <<>>
  /\ up' = TRUE
  /\ settings' = Boot
  /\ game' = NoGame
  /\ tableID' = FALSE /\ gameStarted' = FALSE /\ restoredLevel' = FALSE
  /\ inits' = 0 /\ variantsLoaded' = FALSE
  /\ timers' = <<>>
  /\ attending' = FALSE
  /\ seated' = (seated /\ log > 0)
  /\ toBot' = <<[type |-> "tableList", seated |-> seated']>>
  /\ accepted' = Boot
  /\ stale' = FALSE /\ overlap' = FALSE /\ dismissed' = FALSE
  /\ UNCHANGED <<toServer, log, note, crashes, chats>>

-----------------------------------------------------------------------------
\* The bot has joined a table whose game has not started.
Init ==
  /\ up = TRUE
  /\ settings = Boot
  /\ game = NoGame
  /\ tableID = TRUE /\ gameStarted = FALSE /\ restoredLevel = FALSE
  /\ inits = 0 /\ variantsLoaded = FALSE
  /\ timers = <<>>
  /\ toBot = <<>> /\ toServer = <<>>
  /\ log = 0 /\ note = NoNote
  /\ seated = TRUE /\ attending = FALSE
  /\ crashes = 0 /\ chats = 0
  /\ accepted = Boot
  /\ stale = FALSE /\ overlap = FALSE /\ dismissed = FALSE

Next ==
  \/ HandleMsg \/ LoadVariants \/ TimerFires \/ HandleChat
  \/ SrvStart \/ SrvMove \/ SrvReceive
  \/ Crash \/ Restart

Spec == Init /\ [][Next]_vars

\* Messages arrive, the download ends, timers fire, and a dead process is started
\* again; nobody has to play, chat or crash.
FairSpec ==
  /\ Spec
  /\ WF_vars(HandleMsg) /\ WF_vars(LoadVariants) /\ WF_vars(TimerFires)
  /\ WF_vars(SrvReceive) /\ WF_vars(Restart)

-----------------------------------------------------------------------------
(* Properties *)

\* Catching up is exact: the actions the bot has handled are a prefix of those
\* the server has logged, nothing twice and nothing skipped, although the list is
\* requested twice, the note is restored in between, the game may be built anew
\* and players move while the bot is loading.  Where the messages do not fit
\* together the process dies rather than play on.  With loads that overlap, as
\* several /rejoin and /leave may bring about, a list can be handled that is older
\* than the time the bot was away.
CaughtUp == ~overlap /\ game # NoGame => IsPrefix(game.log, Entries(log))

\* A game in progress is played with the settings the bot answers with.
SettingsMatch == InProgress => game.settings = Built(settings)

\* The game goes on with the settings it began with: once they are noted on the
\* first card no crash, /settings or /rejoin makes the bot note others, unless an
\* overlapping load brings notes from before they were written.
NoteKept == [][~overlap /\ note # NoNote => note' = note]_vars

\* At most one move is under way, and it answers the turn the server waits for:
\* catching up never acts on a turn that has passed, and no turn is answered twice.
\* Only a move decided before the bot left the table or the game was loaded again
\* may be left over, as nothing clears the timer of handle_action, and one that an
\* overlapping load decides on a list older than the game it built.
OneMove ==
  up /\ ~stale /\ ~overlap =>
    /\ Len(timers) <= 1 /\ \A i \in 1 .. Len(timers) : timers[i] = log
    /\ \A i, j \in Sent : i = j /\ toServer[i].turn = log
    /\ timers = <<>> \/ Sent = {}

\* Our turn is always answered, unless somebody has sent the bot away: through
\* the two requests for the game, the restored settings, crashes and restarts.
BotMoves == \A k \in {n \in 1 .. LogEnd : OurTurn(n)} :
              (log = k) ~> (log # k \/ dismissed)

\* "The bot remembers its settings between games" (README.md:57): a game that has
\* no settings noted yet is begun with those the bot last said it plays with.
SettingsRemembered == note = NoNote /\ InProgress => game.settings = accepted
=============================================================================
