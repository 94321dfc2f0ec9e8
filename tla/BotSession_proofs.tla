-------------------------- MODULE BotSession_proofs --------------------------
(***************************************************************************)
(* Proofs about BotSession, for every set of conventions, length of the    *)
(* game, number of crashes and number of chat commands.                    *)
(***************************************************************************)
EXTENDS BotSession, SequenceTheorems, TLAPS

-----------------------------------------------------------------------------
(* Types *)

BuiltSettings == {s \in Settings : Built(s) = s}

NoteCmd == [type : {"note"}, settings : BuiltSettings]

Game == [settings : BuiltSettings, log : Seq(Nat), in_progress : BOOLEAN, noted : BOOLEAN,
         queued_cmds : Seq(NoteCmd)]

\* the messages of the server
ToBot == [type : {"gameAction"}, entry : Nat]
         \cup [type : {"gameActionList"}, length : Nat]
         \cup [type : {"noteListPlayer"}, note : BuiltSettings \cup {NoNote}]
         \cup [type : {"init", "joined", "left", "tableStart"}]
         \cup [type : {"tableList"}, seated : BOOLEAN]

\* the commands of the bot
ToServer == NoteCmd
            \cup [type : {"action"}, turn : Nat, table : BOOLEAN]
            \cup [type : {"getGameInfo1", "getGameInfo2", "loaded", "tableReattend",
                          "tableUnattend", "tableLeave", "tableJoin"}]

TypeOK ==
  /\ up \in BOOLEAN /\ settings \in Settings /\ (game = NoGame \/ game \in Game)
  /\ tableID \in BOOLEAN /\ gameStarted \in BOOLEAN /\ restoredLevel \in BOOLEAN
  /\ inits \in Nat /\ variantsLoaded \in BOOLEAN
  /\ timers \in Seq(Nat) /\ toBot \in Seq(ToBot) /\ toServer \in Seq(ToServer)
  /\ log \in Nat /\ note \in BuiltSettings \cup {NoNote}
  /\ seated \in BOOLEAN /\ attending \in BOOLEAN
  /\ crashes \in Nat /\ chats \in Nat
  /\ accepted \in Settings /\ stale \in BOOLEAN /\ overlap \in BOOLEAN /\ dismissed \in BOOLEAN

-----------------------------------------------------------------------------
(* The inductive invariant *)

Dealt    == game # NoGame /\ game.log # <<>>
Awaiting == game # NoGame /\ game.log = <<>>

\* The server's log ends the deal or a turn, and there is one when the bot attends.
LogOdd == (log = 0 \/ log % 2 = 1) /\ (attending => log > 0)

\* The actions of a turn arrive together, a list together with the notes.
Paired ==
  /\ \A i \in 2 .. Len(toBot) :
       toBot[i].type = "gameAction" /\ toBot[i].entry % 2 = 1 => toBot[i - 1].type = "gameAction"
  /\ \A i \in 1 .. Len(toBot) :
       toBot[i].type = "gameActionList" =>
         i < Len(toBot) /\ toBot[i + 1].type = "noteListPlayer"

\* A game exists only once the variants are there, and between the two actions of a
\* turn the bot has a game that is dealt or none.
GameLoaded == up /\ game # NoGame => variantsLoaded
OddHead ==
  up /\ toBot # <<>> /\ toBot[1].type = "gameAction" /\ toBot[1].entry % 2 = 1 =>
    variantsLoaded /\ (game = NoGame \/ game.log # <<>>)

\* Until its settings are restored nothing happens to a game.
Fresh ==
  up /\ game # NoGame /\ ~restoredLevel =>
    game.log = <<>> /\ game.queued_cmds = <<>> /\ ~game.noted /\ game.in_progress

OneAtATime == ~overlap => OneLoad

\* After place i of the messages b come the actions n + 1 to end, one after the other.
Follow(b, i, n, end) ==
  /\ n <= end
  /\ \A j \in i + 1 .. Len(b) :
       b[j].type = "gameAction" => n < b[j].entry /\ b[j].entry <= end
  /\ \A j, k \in i + 1 .. Len(b) :
       j < k /\ b[j].type = "gameAction" /\ b[k].type = "gameAction" => b[j].entry < b[k].entry
  /\ \A e \in n + 1 .. end :
       \E j \in i + 1 .. Len(b) : b[j].type = "gameAction" /\ b[j].entry = e

Stays == attending /\ \A i \in 1 .. Len(toServer) : toServer[i].type # "tableUnattend"

\* A game that is dealt misses no action: the rest of the log is on its way.
Contiguous ==
  ~overlap =>
    /\ game # NoGame => game.log = Entries(Len(game.log)) /\ Len(game.log) <= log
    /\ up /\ Dealt => Stays /\ Follow(toBot, 0, Len(game.log), log)

\* The same holds of a list a game is waiting for: the bot does not leave before it
\* has come, as a load that is asked for comes behind the command to leave.
ListCurrent ==
  up /\ ~overlap /\ game # NoGame =>
    /\ \A i \in 1 .. Len(toBot) :
         toBot[i].type = "gameActionList" =>
           Stays /\ toBot[i].length > 0 /\ Follow(toBot, i, toBot[i].length, log)
    /\ \A i, j \in 1 .. Len(toServer) :
         toServer[i].type = "getGameInfo2" /\ toServer[j].type = "tableUnattend" => j < i

\* All notes under way are the same, and those of the server.
NotesAgree ==
  ~overlap =>
    /\ \A i \in 1 .. Len(toServer) :
         toServer[i].type = "note" => note \in {NoNote, toServer[i].settings}
    /\ \A i, j \in 1 .. Len(toServer) :
         toServer[i].type = "note" /\ toServer[j].type = "note" =>
           toServer[i].settings = toServer[j].settings
    /\ game # NoGame /\ game.queued_cmds # <<>> =>
         /\ note \in {NoNote, game.settings}
         /\ \A i \in 1 .. Len(game.queued_cmds) : game.queued_cmds[i].settings = game.settings
         /\ \A i \in 1 .. Len(toServer) :
              toServer[i].type = "note" => toServer[i].settings = game.settings

\* The notes a game is restored from are those the server has: none is written
\* between the request and its answer.
NotesCurrent ==
  up /\ ~overlap /\ game # NoGame /\ ~restoredLevel =>
    /\ \A i \in 1 .. Len(toBot) :
         toBot[i].type = "noteListPlayer" =>
           /\ toBot[i].note = note
           /\ \A j \in 1 .. Len(toServer) : toServer[j].type # "note"
    /\ \A i, j \in 1 .. Len(toServer) :
         toServer[i].type = "getGameInfo2" /\ toServer[j].type = "note" => j < i

\* A move is under way only for the last action of a game that has handled them all.
MovesOurs ==
  /\ \A i \in 1 .. Len(timers) : OurTurn(timers[i])
  /\ \A i \in 1 .. Len(toServer) : toServer[i].type = "action" => OurTurn(toServer[i].turn)

MoveLast ==
  up /\ ~stale /\ ~overlap /\ MoveUnderWay => Dealt /\ Len(game.log) = log

\* The log does not go on past a turn of ours that the game has not handled.
TurnsOpen ==
  up /\ ~stale /\ ~overlap /\ game # NoGame =>
    /\ game.log # <<>> => \A k \in Len(game.log) + 1 .. log - 1 : ~OurTurn(k)
    /\ game.log = <<>> =>
         \A i \in 1 .. Len(toBot) :
           toBot[i].type = "gameActionList" => \A k \in toBot[i].length .. log - 1 : ~OurTurn(k)

IInv ==
  /\ TypeOK /\ LogOdd /\ Paired /\ GameLoaded /\ OddHead /\ Fresh /\ SettingsMatch
  /\ OneAtATime /\ Contiguous /\ ListCurrent /\ NotesAgree /\ NotesCurrent
  /\ MovesOurs /\ OneMove /\ MoveLast /\ TurnsOpen

-----------------------------------------------------------------------------
(* Sequences of messages *)

\* What Tail leaves, place by place.
LEMMA TailPlaces ==
  ASSUME NEW S, NEW b \in Seq(S), b # <<>>
  PROVE  /\ Head(b) = b[1] /\ b[1] \in S /\ Tail(b) \in Seq(S)
         /\ Len(b) \in Nat /\ Len(b) >= 1 /\ Len(Tail(b)) = Len(b) - 1
         /\ \A i \in 1 .. Len(b) - 1 : Tail(b)[i] = b[i + 1]
BY HeadTailProperties, EmptySeq

\* What Append adds, place by place.
LEMMA AppendPlaces ==
  ASSUME NEW S, NEW b \in Seq(S), NEW m \in S
  PROVE  /\ Append(b, m) \in Seq(S)
         /\ Len(b) \in Nat /\ Len(Append(b, m)) = Len(b) + 1
         /\ \A i \in 1 .. Len(b) : Append(b, m)[i] = b[i]
         /\ Append(b, m)[Len(b) + 1] = m
BY AppendProperties

\* What a concatenation is, place by place.
LEMMA ConcatPlaces ==
  ASSUME NEW S, NEW b \in Seq(S), NEW c \in Seq(S)
  PROVE  /\ b \o c \in Seq(S)
         /\ Len(b) \in Nat /\ Len(c) \in Nat /\ Len(b \o c) = Len(b) + Len(c)
         /\ \A i \in 1 .. Len(b) : (b \o c)[i] = b[i]
         /\ \A i \in 1 .. Len(c) : (b \o c)[Len(b) + i] = c[i]
         /\ \A i \in Len(b) + 1 .. Len(b) + Len(c) : (b \o c)[i] = c[i - Len(b)]
<1>1. /\ b \o c \in Seq(S) /\ Len(b \o c) = Len(b) + Len(c)
      /\ \A i \in 1 .. Len(b) + Len(c) : (b \o c)[i] = IF i <= Len(b) THEN b[i] ELSE c[i - Len(b)]
  BY ConcatProperties
<1>2. Len(b) \in Nat /\ Len(c) \in Nat
  BY LenProperties
<1>3. QED
  BY <1>1, <1>2

\* What is added to nothing is the only element.
LEMMA OneIsAppended ==
  ASSUME NEW x
  PROVE  Len(Append(<<>>, x)) = 1 /\ Append(<<>>, x)[1] = x
OBVIOUS

\* The messages that follow a place move up when the first one is taken.
LEMMA FollowShifts ==
  ASSUME NEW S, NEW b \in Seq(S), b # <<>>, NEW i \in 1 .. Len(b), NEW n, NEW end,
         Follow(b, i, n, end)
  PROVE  Follow(Tail(b), i - 1, n, end)
<1>1. /\ Len(b) \in Nat /\ Len(Tail(b)) = Len(b) - 1
      /\ \A k \in 1 .. Len(b) - 1 : Tail(b)[k] = b[k + 1]
  BY TailPlaces
<1>2. \A j \in i .. Len(Tail(b)) : j + 1 \in i + 1 .. Len(b) /\ Tail(b)[j] = b[j + 1]
  BY <1>1
<1>3. \A j \in i + 1 .. Len(b) : j - 1 \in i .. Len(Tail(b)) /\ Tail(b)[j - 1] = b[j]
  BY <1>1
<1>4. i - 1 + 1 = i
  OBVIOUS
<1>5. \A j, k \in i .. Len(Tail(b)) :
        j < k /\ Tail(b)[j].type = "gameAction" /\ Tail(b)[k].type = "gameAction"
          => Tail(b)[j].entry < Tail(b)[k].entry
  <2> SUFFICES ASSUME NEW j \in i .. Len(Tail(b)), NEW k \in i .. Len(Tail(b)), j < k,
                      Tail(b)[j].type = "gameAction", Tail(b)[k].type = "gameAction"
               PROVE  Tail(b)[j].entry < Tail(b)[k].entry
    OBVIOUS
  <2>1. j + 1 < k + 1
    OBVIOUS
  <2>2. QED
    BY <1>2, <2>1 DEF Follow
<1>6. \A e \in n + 1 .. end :
        \E j \in i .. Len(Tail(b)) : Tail(b)[j].type = "gameAction" /\ Tail(b)[j].entry = e
  BY <1>3 DEF Follow
<1>7. QED
  BY <1>2, <1>4, <1>5, <1>6 DEF Follow

\* A first message of another kind may be taken as well.
LEMMA FollowSkips ==
  ASSUME NEW S, NEW b \in Seq(S), b # <<>>, NEW n, NEW end, Follow(b, 0, n, end),
         b[1].type # "gameAction"
  PROVE  Follow(Tail(b), 0, n, end)
<1>1. Len(b) \in Nat /\ Len(b) >= 1
  BY TailPlaces
<1>2. \A j \in 1 .. Len(b) : b[j].type = "gameAction" => j \in 2 .. Len(b)
  <2> SUFFICES ASSUME NEW j \in 1 .. Len(b), b[j].type = "gameAction", j \notin 2 .. Len(b) PROVE FALSE
    OBVIOUS
  <2>1. j = 1
    BY <1>1
  <2>2. QED
    BY <2>1
<1>3. Follow(b, 1, n, end)
  BY <1>1, <1>2 DEF Follow
<1>4. Follow(Tail(b), 1 - 1, n, end)
  BY <1>1, <1>3, FollowShifts
<1>5. 1 - 1 = 0
  OBVIOUS
<1>6. QED
  BY <1>4, <1>5

\* Of the actions that follow, the first is the next one.
LEMMA FollowTakes ==
  ASSUME NEW S, NEW b \in Seq(S), b # <<>>, NEW n \in Nat, NEW end \in Nat,
         Follow(b, 0, n, end), b[1].type = "gameAction", b[1].entry \in Nat
  PROVE  b[1].entry = n + 1 /\ n < end /\ Follow(Tail(b), 0, n + 1, end)
<1>1. Len(b) \in Nat /\ Len(b) >= 1
  BY TailPlaces
<1>2. n < b[1].entry /\ b[1].entry <= end
  BY <1>1 DEF Follow
<1>3. PICK j \in 1 .. Len(b) : b[j].type = "gameAction" /\ b[j].entry = n + 1
  <2>1. n + 1 \in n + 1 .. end
    BY <1>2
  <2>2. \A j \in 0 + 1 .. Len(b) : j \in 1 .. Len(b)
    BY <1>1
  <2>3. QED
    BY <2>1, <2>2 DEF Follow
<1>4. b[1].entry = n + 1
  <2>1. ASSUME 1 < j PROVE FALSE
    <3>1. b[1].entry < b[j].entry
      BY <1>1, <1>3, <2>1 DEF Follow
    <3>2. QED
      BY <1>2, <1>3, <3>1
  <2>2. j = 1
    BY <2>1
  <2>3. QED
    BY <1>3, <2>2
<1>5. Follow(b, 1, n + 1, end)
  <2>1. n + 1 <= end
    BY <1>2
  <2>2. \A k \in 2 .. Len(b) :
          b[k].type = "gameAction" => n + 1 < b[k].entry /\ b[k].entry <= end
    BY <1>1, <1>4 DEF Follow
  <2>3. \A k, l \in 2 .. Len(b) :
          k < l /\ b[k].type = "gameAction" /\ b[l].type = "gameAction" => b[k].entry < b[l].entry
    BY <1>1 DEF Follow
  <2>4. \A e \in n + 2 .. end :
          \E k \in 2 .. Len(b) : b[k].type = "gameAction" /\ b[k].entry = e
    <3> SUFFICES ASSUME NEW e \in n + 2 .. end
                 PROVE  \E k \in 2 .. Len(b) : b[k].type = "gameAction" /\ b[k].entry = e
      OBVIOUS
    <3>1. PICK k \in 1 .. Len(b) : b[k].type = "gameAction" /\ b[k].entry = e
      BY DEF Follow
    <3>2. k # 1
      BY <1>4, <3>1
    <3>3. QED
      BY <3>1, <3>2
  <2>5. QED
    BY <2>1, <2>2, <2>3, <2>4 DEF Follow
<1>6. QED
  BY <1>1, <1>2, <1>4, <1>5, FollowShifts

\* Messages of other kinds may be added.
LEMMA FollowGrows ==
  ASSUME NEW S, NEW b \in Seq(S), NEW c \in Seq(S), NEW i \in 0 .. Len(b), NEW n, NEW end,
         Follow(b, i, n, end), \A k \in 1 .. Len(c) : c[k].type # "gameAction"
  PROVE  Follow(b \o c, i, n, end)
<1>1. /\ Len(b) \in Nat /\ Len(c) \in Nat /\ Len(b \o c) = Len(b) + Len(c)
      /\ \A k \in 1 .. Len(b) : (b \o c)[k] = b[k]
      /\ \A k \in Len(b) + 1 .. Len(b) + Len(c) : (b \o c)[k] = c[k - Len(b)]
  BY ConcatPlaces
<1>2. \A k \in i + 1 .. Len(b \o c) :
        (b \o c)[k].type = "gameAction" => k \in i + 1 .. Len(b) /\ (b \o c)[k] = b[k]
  BY <1>1
<1>3. \A k \in i + 1 .. Len(b) : k \in i + 1 .. Len(b \o c) /\ (b \o c)[k] = b[k]
  BY <1>1
<1>4. QED
  BY <1>2, <1>3 DEF Follow

\* Two more actions of the server.
TwoActions(n) == <<[type |-> "gameAction", entry |-> n + 1], [type |-> "gameAction", entry |-> n + 2]>>

\* They may be added to all that came before.
LEMMA FollowAdvances ==
  ASSUME NEW b \in Seq(ToBot), NEW end \in Nat, NEW i \in 0 .. Len(b), NEW n \in Nat,
         Follow(b, i, n, end)
  PROVE  Follow(b \o TwoActions(end), i, n, end + 2)
<1> DEFINE c == TwoActions(end)
<1>1. /\ c \in Seq(ToBot) /\ Len(c) = 2
      /\ c[1] = [type |-> "gameAction", entry |-> end + 1]
      /\ c[2] = [type |-> "gameAction", entry |-> end + 2]
  BY DEF TwoActions, ToBot
<1> HIDE DEF c
<1>2. /\ Len(b) \in Nat /\ Len(b \o c) = Len(b) + 2
      /\ \A k \in 1 .. Len(b) : (b \o c)[k] = b[k]
      /\ (b \o c)[Len(b) + 1] = c[1] /\ (b \o c)[Len(b) + 2] = c[2]
  <2>1. /\ Len(b) \in Nat /\ Len(b \o c) = Len(b) + Len(c)
        /\ \A k \in 1 .. Len(b) : (b \o c)[k] = b[k]
        /\ \A k \in 1 .. Len(c) : (b \o c)[Len(b) + k] = c[k]
    BY <1>1, ConcatPlaces
  <2>2. QED
    BY <1>1, <2>1
<1>a. (b \o c)[Len(b) + 1].entry = end + 1 /\ (b \o c)[Len(b) + 2].entry = end + 2
  BY <1>1, <1>2
<1>3. \A k \in i + 1 .. Len(b) + 2 : k \in i + 1 .. Len(b) \/ k = Len(b) + 1 \/ k = Len(b) + 2
  BY <1>2
<1>4. \A k \in i + 1 .. Len(b) + 2 :
        (b \o c)[k].type = "gameAction" => n < (b \o c)[k].entry /\ (b \o c)[k].entry <= end + 2
  <2> SUFFICES ASSUME NEW k \in i + 1 .. Len(b) + 2, (b \o c)[k].type = "gameAction"
               PROVE  n < (b \o c)[k].entry /\ (b \o c)[k].entry <= end + 2
    OBVIOUS
  <2>1. CASE k \in i + 1 .. Len(b)
    <3>1. k \in 1 .. Len(b)
      BY <1>2, <2>1
    <3>2. b[k] \in ToBot
      BY <3>1, ElementOfSeq
    <3>3. b[k].entry \in Nat
      BY <1>2, <3>1, <3>2 DEF ToBot
    <3>4. QED
      BY <1>2, <2>1, <3>1, <3>3 DEF Follow
  <2>2. CASE k = Len(b) + 1 \/ k = Len(b) + 2
    BY <1>1, <1>2, <2>2 DEF Follow
  <2>3. QED
    BY <1>3, <2>1, <2>2
<1>5. \A j, k \in i + 1 .. Len(b) + 2 :
        j < k /\ (b \o c)[j].type = "gameAction" /\ (b \o c)[k].type = "gameAction"
          => (b \o c)[j].entry < (b \o c)[k].entry
  <2> SUFFICES ASSUME NEW j \in i + 1 .. Len(b) + 2, NEW k \in i + 1 .. Len(b) + 2, j < k,
                      (b \o c)[j].type = "gameAction", (b \o c)[k].type = "gameAction"
               PROVE  (b \o c)[j].entry < (b \o c)[k].entry
    OBVIOUS
  <2>1. CASE j \in i + 1 .. Len(b)
    <3>1. j \in 1 .. Len(b) /\ b[j] \in ToBot
      BY <1>2, <2>1, ElementOfSeq
    <3>2. b[j].entry \in Nat
      BY <1>2, <3>1 DEF ToBot
    <3>3. b[j].entry <= end
      BY <1>2, <2>1, <3>1 DEF Follow
    <3>4. CASE k \in i + 1 .. Len(b)
      BY <1>2, <2>1, <3>1, <3>4 DEF Follow
    <3>5. CASE k = Len(b) + 1 \/ k = Len(b) + 2
      <4>1. (b \o c)[j] = b[j]
        BY <1>2, <3>1
      <4>2. (b \o c)[k].entry = end + 1 \/ (b \o c)[k].entry = end + 2
        BY <1>a, <3>5
      <4>3. \A x \in Nat : x <= end => x < end + 1 /\ x < end + 2
        OBVIOUS
      <4>4. b[j].entry < end + 1 /\ b[j].entry < end + 2
        BY <3>2, <3>3, <4>3
      <4>5. QED
        BY <4>1, <4>2, <4>4
    <3>6. QED
      BY <1>3, <3>4, <3>5
  <2>2. CASE j = Len(b) + 1
    BY <1>1, <1>2, <1>3, <2>2
  <2>3. j # Len(b) + 2
    BY <1>2
  <2>4. QED
    BY <1>3, <2>1, <2>2, <2>3
<1>6. \A e \in n + 1 .. end + 2 :
        \E k \in i + 1 .. Len(b) + 2 : (b \o c)[k].type = "gameAction" /\ (b \o c)[k].entry = e
  <2> SUFFICES ASSUME NEW e \in n + 1 .. end + 2
               PROVE  \E k \in i + 1 .. Len(b) + 2 : (b \o c)[k].type = "gameAction" /\ (b \o c)[k].entry = e
    OBVIOUS
  <2>1. CASE e \in n + 1 .. end
    <3>1. PICK k \in i + 1 .. Len(b) : b[k].type = "gameAction" /\ b[k].entry = e
      BY <2>1 DEF Follow
    <3>2. QED
      BY <1>2, <3>1
  <2>2. CASE e = end + 1
    <3>1. Len(b) + 1 \in i + 1 .. Len(b) + 2
      BY <1>2
    <3>2. QED
      BY <1>1, <1>2, <2>2, <3>1
  <2>3. CASE e = end + 2
    <3>1. Len(b) + 2 \in i + 1 .. Len(b) + 2
      BY <1>2
    <3>2. QED
      BY <1>1, <1>2, <2>3, <3>1
  <2>4. n \in Nat /\ (e \in n + 1 .. end \/ e = end + 1 \/ e = end + 2)
    OBVIOUS
  <2>5. QED
    BY <2>1, <2>2, <2>3, <2>4
<1>7. n <= end + 2
  BY DEF Follow
<1>8. QED
  BY <1>2, <1>4, <1>5, <1>6, <1>7 DEF Follow, c

-----------------------------------------------------------------------------
(* Settings and games *)

\* Building a game with the settings of a game changes nothing.
LEMMA BuiltTwice ==
  ASSUME NEW s \in Settings
  PROVE  Built(s) \in BuiltSettings
<1>1. Built(s) \in Settings
  BY SessionAssumption DEF Built, Settings, NoLevel
<1>2. Built(Built(s)) = Built(s)
  BY <1>1, SessionAssumption DEF Built, Settings, NoLevel
<1>3. QED
  BY <1>1, <1>2 DEF BuiltSettings

\* A new game has handled nothing.
LEMMA NewGameFields ==
  ASSUME NEW s \in Settings
  PROVE  /\ NewGame(s) \in Game /\ NewGame(s) # NoGame
         /\ NewGame(s).log = <<>> /\ NewGame(s).queued_cmds = <<>>
         /\ ~NewGame(s).noted /\ NewGame(s).in_progress
         /\ NewGame(s).settings = Built(s)
<1>1. <<>> \in Seq(Nat) /\ <<>> \in Seq(NoteCmd)
  BY EmptySeq
<1>2. NewGame(s) \in Game
  BY <1>1, BuiltTwice DEF NewGame, Game
<1>3. /\ NewGame(s).log = <<>> /\ NewGame(s).queued_cmds = <<>>
      /\ ~NewGame(s).noted /\ NewGame(s).in_progress
      /\ NewGame(s).settings = Built(s)
  BY DEF NewGame
<1>4. NoGame.log # <<>>
  BY DEF NoGame
<1>5. QED
  BY <1>2, <1>3, <1>4

\* What handling an action leaves of a game.
LEMMA HandledFields ==
  ASSUME NEW g \in Game, NEW k \in Nat
  PROVE  /\ Handled(g, k) \in Game
         /\ Handled(g, k).log = Append(g.log, k)
         /\ Handled(g, k).queued_cmds = <<>>
         /\ Handled(g, k).settings = g.settings
         /\ Handled(g, k).noted = g.noted
         /\ Handled(g, k).in_progress => g.in_progress
<1>1. <<>> \in Seq(NoteCmd) /\ Append(g.log, k) \in Seq(Nat)
  BY EmptySeq, AppendProperties DEF Game
<1>2. QED
  BY <1>1 DEF Handled, Game

\* The places of the list of the first n entries.
LEMMA EntriesPlaces ==
  ASSUME NEW n \in Nat
  PROVE  /\ Entries(n) \in Seq(Nat) /\ Len(Entries(n)) = n
         /\ \A i \in 1 .. n : Entries(n)[i] = i
         /\ Append(Entries(n), n + 1) = Entries(n + 1)
         /\ Entries(0) = <<>>
<1>1. \A m \in Nat : Entries(m) \in Seq(Nat) /\ Len(Entries(m)) = m
  BY DEF Entries
<1>2. \A m \in Nat : \A i \in 1 .. m : Entries(m)[i] = i
  BY DEF Entries
<1>3. Append(Entries(n), n + 1) = Entries(n + 1)
  <2>1. /\ Append(Entries(n), n + 1) \in Seq(Nat)
        /\ Len(Append(Entries(n), n + 1)) = n + 1
        /\ \A i \in 1 .. n : Append(Entries(n), n + 1)[i] = Entries(n)[i]
        /\ Append(Entries(n), n + 1)[n + 1] = n + 1
    BY <1>1, AppendProperties
  <2>2. \A i \in 1 .. n + 1 : Append(Entries(n), n + 1)[i] = Entries(n + 1)[i]
    BY <1>2, <2>1
  <2>3. QED
    BY <1>1, <2>1, <2>2, SeqEqual
<1>4. Entries(0) = <<>>
  BY <1>1, EmptySeq
<1>5. QED
  BY <1>1, <1>2, <1>3, <1>4

-----------------------------------------------------------------------------
(* The commands sent *)

\* new is old with commands of the types T added.
Adds(old, new, T) ==
  /\ new \in Seq(ToServer)
  /\ Len(old) \in Nat /\ Len(new) \in Nat /\ Len(old) <= Len(new)
  /\ \A i \in 1 .. Len(old) : new[i] = old[i]
  /\ \A i \in Len(old) + 1 .. Len(new) : new[i].type \in T

\* A command is an old one, or one of those added.
LEMMA AddsPlaces ==
  ASSUME NEW old, NEW new, NEW T, Adds(old, new, T)
  PROVE  \A i \in 1 .. Len(new) :
           \/ i \in 1 .. Len(old) /\ new[i] = old[i]
           \/ i > Len(old) /\ new[i].type \in T
BY DEF Adds

\* Nothing is added.
LEMMA AddsNone ==
  ASSUME NEW old \in Seq(ToServer), NEW T
  PROVE  Adds(old, old, T)
BY LenProperties DEF Adds

\* One command is added.
LEMMA AddsOne ==
  ASSUME NEW old \in Seq(ToServer), NEW m \in ToServer, NEW T, m.type \in T
  PROVE  Adds(old, Append(old, m), T) /\ Len(Append(old, m)) = Len(old) + 1
<1>1. /\ Append(old, m) \in Seq(ToServer)
      /\ Len(old) \in Nat /\ Len(Append(old, m)) = Len(old) + 1
      /\ \A i \in 1 .. Len(old) : Append(old, m)[i] = old[i]
      /\ Append(old, m)[Len(old) + 1] = m
  BY AppendPlaces
<1>2. QED
  BY <1>1 DEF Adds

\* The commands that are a type and nothing else.
LEMMA CmdType ==
  ASSUME NEW t \in {"getGameInfo1", "getGameInfo2", "loaded", "tableReattend",
                    "tableUnattend", "tableLeave", "tableJoin"}
  PROVE  Cmd(t) \in ToServer /\ Cmd(t).type = t
BY DEF Cmd, ToServer

-----------------------------------------------------------------------------
(* Steps of the bot *)

\* The first message is taken.
Takes == toBot # <<>> /\ toBot' = Tail(toBot)

\* What the invariant says of the messages when the first one has been taken: the
\* pairs stay together, and what is said of a list is said one place further on.
LEMMA TakesPlaces ==
  ASSUME TypeOK, Takes
  PROVE  /\ toBot' \in Seq(ToBot) /\ Len(toBot) \in Nat /\ Len(toBot) >= 1
         /\ Head(toBot) = toBot[1] /\ toBot[1] \in ToBot
         /\ Len(toBot') = Len(toBot) - 1
         /\ \A i \in 1 .. Len(toBot') : i + 1 \in 1 .. Len(toBot) /\ toBot'[i] = toBot[i + 1]
<1>1. toBot \in Seq(ToBot)
  BY DEF TypeOK
<1>2. QED
  BY <1>1, TailPlaces DEF Takes

\* The pairs stay together.
LEMMA TakesPaired ==
  ASSUME TypeOK, Paired, Takes
  PROVE  /\ Paired'
         /\ toBot[1].type # "gameAction" =>
              ~(toBot' # <<>> /\ toBot'[1].type = "gameAction" /\ toBot'[1].entry % 2 = 1)
<1> USE TakesPlaces
<1>1. \A i \in 2 .. Len(toBot') :
        toBot'[i].type = "gameAction" /\ toBot'[i].entry % 2 = 1 => toBot'[i - 1].type = "gameAction"
  <2> SUFFICES ASSUME NEW i \in 2 .. Len(toBot'),
                      toBot'[i].type = "gameAction", toBot'[i].entry % 2 = 1
               PROVE  toBot'[i - 1].type = "gameAction"
    OBVIOUS
  <2>1. i + 1 \in 2 .. Len(toBot) /\ toBot'[i] = toBot[i + 1]
    OBVIOUS
  <2>2. toBot[i + 1 - 1].type = "gameAction"
    BY <2>1 DEF Paired
  <2>3. i - 1 \in 1 .. Len(toBot') /\ toBot'[i - 1] = toBot[i]
    OBVIOUS
  <2>4. QED
    BY <2>2, <2>3
<1>2. \A i \in 1 .. Len(toBot') :
        toBot'[i].type = "gameActionList" =>
          i < Len(toBot') /\ toBot'[i + 1].type = "noteListPlayer"
  <2> SUFFICES ASSUME NEW i \in 1 .. Len(toBot'), toBot'[i].type = "gameActionList"
               PROVE  i < Len(toBot') /\ toBot'[i + 1].type = "noteListPlayer"
    OBVIOUS
  <2>1. i + 1 \in 1 .. Len(toBot) /\ toBot'[i] = toBot[i + 1]
    OBVIOUS
  <2>2. i + 1 < Len(toBot) /\ toBot[i + 1 + 1].type = "noteListPlayer"
    BY <2>1 DEF Paired
  <2>3. i < Len(toBot') /\ i + 1 \in 1 .. Len(toBot')
    BY <2>2
  <2>4. QED
    BY <2>2, <2>3
<1>3. ASSUME toBot[1].type # "gameAction", toBot' # <<>>,
             toBot'[1].type = "gameAction", toBot'[1].entry % 2 = 1
      PROVE  FALSE
  <2>1. Len(toBot') \in Nat /\ Len(toBot') # 0
    BY <1>3, EmptySeq
  <2>2. 2 \in 2 .. Len(toBot) /\ toBot'[1] = toBot[2]
    BY <2>1
  <2>3. toBot[2 - 1].type = "gameAction"
    BY <1>3, <2>2 DEF Paired
  <2>4. QED
    BY <1>3, <2>3
<1>4. QED
  BY <1>1, <1>2, <1>3 DEF Paired

\* What is said of the lists that are on their way.
ListsFollow(b, end) ==
  \A i \in 1 .. Len(b) :
    b[i].type = "gameActionList" => b[i].length > 0 /\ Follow(b, i, b[i].length, end)

\* It holds when the first message has been taken.
LEMMA TakesLists ==
  ASSUME TypeOK, Takes, ListsFollow(toBot, log)
  PROVE  ListsFollow(toBot', log)
<1> SUFFICES ASSUME NEW i \in 1 .. Len(toBot'), toBot'[i].type = "gameActionList"
             PROVE  toBot'[i].length > 0 /\ Follow(toBot', i, toBot'[i].length, log)
  BY DEF ListsFollow
<1>1. i + 1 \in 1 .. Len(toBot) /\ toBot'[i] = toBot[i + 1]
  BY TakesPlaces
<1>2. toBot[i + 1].length > 0 /\ Follow(toBot, i + 1, toBot[i + 1].length, log)
  BY <1>1 DEF ListsFollow
<1>3. Follow(Tail(toBot), i + 1 - 1, toBot[i + 1].length, log)
  BY <1>1, <1>2, FollowShifts DEF TypeOK, Takes
<1>4. i + 1 - 1 = i
  OBVIOUS
<1>5. QED
  BY <1>1, <1>2, <1>3, <1>4 DEF Takes

\* A step that leaves game, settings and timers alone, and the log and the notes.
Idle ==
  /\ UNCHANGED <<game, settings, restoredLevel, variantsLoaded, timers, log, note, attending,
                 up>>
  /\ overlap' \in BOOLEAN /\ (overlap => overlap')
  /\ stale' \in BOOLEAN /\ (stale => stale')

\* handle_msg of a message that changes nothing of the game.
LEMMA QuietStep ==
  ASSUME IInv, up, Takes, toBot[1].type # "gameAction", Idle, TypeOK', OneAtATime',
         Adds(toServer, toServer', {"getGameInfo1", "tableReattend"})
  PROVE  IInv'
<1> USE TakesPlaces, TakesPaired DEF IInv
<1>1. Paired' /\ OddHead' /\ GameLoaded' /\ LogOdd' /\ Fresh'
  BY DEF OddHead, GameLoaded, Idle, LogOdd, Fresh, Dealt
<1>2. SettingsMatch'
  BY DEF SettingsMatch, InProgress, Idle
<1> DEFINE Old(i) == i \in 1 .. Len(toServer) /\ toServer'[i] = toServer[i]
<1>a. \A i \in 1 .. Len(toServer') :
        toServer'[i].type \in {"note", "action", "tableUnattend", "getGameInfo2"} => Old(i)
  BY AddsPlaces
<1>3. Stays => Stays'
  BY DEF Stays, Adds, Idle
<1>4. Contiguous'
  <2>1. Follow(toBot, 0, Len(game.log), log) => Follow(toBot', 0, Len(game.log), log)
    BY FollowSkips DEF Takes, TypeOK
  <2>2. QED
    BY <1>3, <2>1 DEF Contiguous, Idle, Dealt
<1>5. ListCurrent'
  <2> SUFFICES ASSUME ~overlap', game # NoGame
               PROVE  ListCurrent'
    BY DEF ListCurrent, Idle
  <2>1. ListsFollow(toBot, log) /\ ~overlap
    BY DEF ListCurrent, ListsFollow, Idle
  <2>2. ListsFollow(toBot', log)
    BY <2>1, TakesLists
  <2>3. \A i \in 1 .. Len(toBot') : toBot'[i].type = "gameActionList" => Stays'
    BY <1>3, <2>1 DEF ListCurrent
  <2>4. \A i, j \in 1 .. Len(toServer') :
          toServer'[i].type = "getGameInfo2" /\ toServer'[j].type = "tableUnattend" => j < i
    <3> SUFFICES ASSUME NEW i \in 1 .. Len(toServer'), NEW j \in 1 .. Len(toServer'),
                        toServer'[i].type = "getGameInfo2", toServer'[j].type = "tableUnattend"
                 PROVE  j < i
      OBVIOUS
    <3>1. Old(i) /\ Old(j)
      BY <1>a
    <3>2. QED
      BY <2>1, <3>1 DEF ListCurrent
  <2>5. QED
    BY <2>2, <2>3, <2>4 DEF ListCurrent, ListsFollow, Idle
<1>6. NotesAgree'
  <2> SUFFICES ASSUME ~overlap PROVE NotesAgree'
    BY DEF NotesAgree, Idle
  <2>1. /\ UNCHANGED <<game, note>>
        /\ \A i \in 1 .. Len(toServer') : toServer'[i].type = "note" => Old(i)
    BY <1>a DEF Idle
  <2>2. \A i \in 1 .. Len(toServer') :
          toServer'[i].type = "note" => note' \in {NoNote, toServer'[i].settings}
    <3>1. \A i \in 1 .. Len(toServer) :
            toServer[i].type = "note" => note \in {NoNote, toServer[i].settings}
      BY DEF NotesAgree
    <3> SUFFICES ASSUME NEW i \in 1 .. Len(toServer'), toServer'[i].type = "note"
                 PROVE  note' \in {NoNote, toServer'[i].settings}
      OBVIOUS
    <3>2. i \in 1 .. Len(toServer) /\ toServer'[i] = toServer[i]
      BY <2>1
    <3>3. QED
      BY <2>1, <3>1, <3>2
  <2>3. \A i, j \in 1 .. Len(toServer') :
          toServer'[i].type = "note" /\ toServer'[j].type = "note" =>
            toServer'[i].settings = toServer'[j].settings
    <3>1. \A i, j \in 1 .. Len(toServer) :
            toServer[i].type = "note" /\ toServer[j].type = "note" =>
              toServer[i].settings = toServer[j].settings
      BY DEF NotesAgree
    <3> SUFFICES ASSUME NEW i \in 1 .. Len(toServer'), NEW j \in 1 .. Len(toServer'),
                        toServer'[i].type = "note", toServer'[j].type = "note"
                 PROVE  toServer'[i].settings = toServer'[j].settings
      OBVIOUS
    <3>2. Old(i) /\ Old(j)
      BY <2>1
    <3>3. QED
      BY <3>1, <3>2
  <2>4. game' # NoGame /\ game'.queued_cmds # <<>> =>
          \A i \in 1 .. Len(toServer') :
            toServer'[i].type = "note" => toServer'[i].settings = game'.settings
    BY <2>1 DEF NotesAgree
  <2>5. game' # NoGame /\ game'.queued_cmds # <<>> =>
          /\ note' \in {NoNote, game'.settings}
          /\ \A i \in 1 .. Len(game'.queued_cmds) :
               game'.queued_cmds[i].settings = game'.settings
    BY <2>1 DEF NotesAgree
  <2>6. QED
    BY <2>2, <2>3, <2>4, <2>5 DEF NotesAgree
<1>7. NotesCurrent'
  <2> SUFFICES ASSUME ~overlap, game # NoGame, ~restoredLevel PROVE NotesCurrent'
    BY DEF NotesCurrent, Idle
  <2>1. \A i \in 1 .. Len(toServer') : toServer'[i].type \in {"note", "getGameInfo2"} => Old(i)
    BY <1>a
  <2>2. \A i \in 1 .. Len(toBot') :
          toBot'[i].type = "noteListPlayer" =>
            toBot'[i].note = note /\ \A j \in 1 .. Len(toServer) : toServer[j].type # "note"
    BY DEF NotesCurrent
  <2>3. QED
    BY <2>1, <2>2 DEF NotesCurrent, Idle
<1>8. MovesOurs'
  <2>1. \A i \in 1 .. Len(toServer') : toServer'[i].type = "action" => Old(i)
    BY <1>a
  <2>2. QED
    BY <2>1 DEF MovesOurs, Idle
<1>9. Sent' = Sent
  BY DEF Sent, Adds
<1>10. OneMove' /\ MoveLast'
  <2>1. \A i \in Sent : toServer'[i] = toServer[i]
    BY DEF Sent, Adds
  <2>2. QED
    BY <1>9, <2>1 DEF OneMove, MoveLast, MoveUnderWay, Idle, Dealt
<1>11. TurnsOpen'
  BY DEF TurnsOpen, Idle
<1>12. QED
  BY <1>1, <1>2, <1>4, <1>5, <1>6, <1>7, <1>8, <1>10, <1>11

\* An exception ends the process: what it had sent, or a part of it, is on its way.
LEMMA DieStep ==
  ASSUME IInv, up, NEW cmds \in Seq(ToServer), DieSending(cmds), TypeOK', OneAtATime',
         UNCHANGED <<log, note, attending>>, overlap' \in BOOLEAN, overlap => overlap',
         \A i \in 1 .. Len(cmds) :
           /\ cmds[i].type # "action"
           /\ ~overlap /\ cmds[i].type = "note" =>
                game # NoGame /\ game.queued_cmds # <<>> /\ cmds[i].settings = game.settings
  PROVE  IInv'
<1> USE DEF IInv
<1>1. /\ up' = FALSE /\ toBot' = <<>>
      /\ UNCHANGED <<settings, game, tableID, gameStarted, restoredLevel, inits,
                     variantsLoaded, timers>>
  BY DEF DieSending
<1>2. PICK n \in 0 .. Len(toServer \o cmds) : toServer' = SubSeq(toServer \o cmds, 1, n)
  BY DEF DieSending
<1>3. \A i \in 1 .. Len(toServer') :
        \/ i \in 1 .. Len(toServer) /\ toServer'[i] = toServer[i]
        \/ \E j \in 1 .. Len(cmds) : toServer'[i] = cmds[j]
  <2>1. /\ toServer \o cmds \in Seq(ToServer)
        /\ Len(toServer) \in Nat /\ Len(cmds) \in Nat
        /\ Len(toServer \o cmds) = Len(toServer) + Len(cmds)
        /\ \A i \in 1 .. Len(toServer) : (toServer \o cmds)[i] = toServer[i]
        /\ \A i \in Len(toServer) + 1 .. Len(toServer) + Len(cmds) :
             (toServer \o cmds)[i] = cmds[i - Len(toServer)]
    BY ConcatPlaces DEF TypeOK
  <2>2. Len(toServer') = n /\ \A i \in 1 .. n : toServer'[i] = (toServer \o cmds)[i]
    BY <1>2, <2>1, SubSeqProperties, ElementOfSeq
  <2>3. ASSUME NEW i \in 1 .. Len(toServer'), i > Len(toServer)
        PROVE  \E j \in 1 .. Len(cmds) : toServer'[i] = cmds[j]
    <3>1. i - Len(toServer) \in 1 .. Len(cmds) /\ toServer'[i] = cmds[i - Len(toServer)]
      BY <2>1, <2>2, <2>3
    <3>2. QED
      BY <3>1
  <2>4. ASSUME NEW i \in 1 .. Len(toServer'), ~(i > Len(toServer))
        PROVE  i \in 1 .. Len(toServer) /\ toServer'[i] = toServer[i]
    BY <2>1, <2>2, <2>4
  <2>5. QED
    BY <2>3, <2>4
<1>4. Paired'
  <2>1. Len(toBot') = 0
    BY <1>1, EmptySeq
  <2>2. QED
    BY <2>1 DEF Paired
<1>5. LogOdd' /\ GameLoaded' /\ OddHead' /\ Fresh'
  BY <1>1 DEF LogOdd, GameLoaded, OddHead, Fresh
<1>6. SettingsMatch'
  BY <1>1 DEF SettingsMatch, InProgress
<1>7. Contiguous' /\ ListCurrent' /\ NotesCurrent'
  BY <1>1 DEF Contiguous, ListCurrent, NotesCurrent
<1>8. NotesAgree'
  <2> SUFFICES ASSUME ~overlap PROVE NotesAgree'
    BY DEF NotesAgree
  <2>1. \A i \in 1 .. Len(toServer') :
          toServer'[i].type = "note" =>
            \/ i \in 1 .. Len(toServer) /\ toServer'[i] = toServer[i]
            \/ game # NoGame /\ game.queued_cmds # <<>> /\ toServer'[i].settings = game.settings
    BY <1>3
  <2>2. \A i \in 1 .. Len(toServer') :
          toServer'[i].type = "note" => note \in {NoNote, toServer'[i].settings}
    BY <2>1 DEF NotesAgree
  <2>3. \A i, j \in 1 .. Len(toServer') :
          toServer'[i].type = "note" /\ toServer'[j].type = "note" =>
            toServer'[i].settings = toServer'[j].settings
    BY <2>1 DEF NotesAgree
  <2>4. game # NoGame /\ game.queued_cmds # <<>> =>
          /\ note \in {NoNote, game.settings}
          /\ \A i \in 1 .. Len(game.queued_cmds) : game.queued_cmds[i].settings = game.settings
          /\ \A i \in 1 .. Len(toServer') :
               toServer'[i].type = "note" => toServer'[i].settings = game.settings
    BY <2>1 DEF NotesAgree
  <2>5. QED
    BY <1>1, <2>2, <2>3, <2>4 DEF NotesAgree
<1>9. MovesOurs'
  <2>1. \A i \in 1 .. Len(toServer') :
          toServer'[i].type = "action" => i \in 1 .. Len(toServer) /\ toServer'[i] = toServer[i]
    BY <1>3
  <2>2. QED
    BY <1>1, <2>1 DEF MovesOurs
<1>10. OneMove' /\ MoveLast' /\ TurnsOpen'
  BY <1>1 DEF OneMove, MoveLast, TurnsOpen
<1>11. QED
  BY <1>4, <1>5, <1>6, <1>7, <1>8, <1>9, <1>10

\* The game is one its settings are restored for, or the game that was there; a load is
\* asked for.  This is init after its await.
LEMMA ResumeStep ==
  ASSUME IInv, up, TypeOK', OneAtATime',
         \/ Takes /\ toBot[1].type # "gameAction"
         \/ toBot' = toBot /\ ~variantsLoaded,
         game' = NewGame(settings), restoredLevel' = FALSE, variantsLoaded' = TRUE,
         Adds(toServer, toServer', {"getGameInfo2"}), Len(toServer') > Len(toServer),
         UNCHANGED <<up, settings, timers, log, note, attending>>,
         overlap' \in BOOLEAN, overlap => overlap', stale' \in BOOLEAN,
         stale \/ MoveUnderWay => stale'
  PROVE  IInv'
<1> USE DEF IInv
<1> DEFINE Old(i) == i \in 1 .. Len(toServer) /\ toServer'[i] = toServer[i]
<1>1. /\ game' # NoGame /\ game'.log = <<>> /\ game'.queued_cmds = <<>>
      /\ ~game'.noted /\ game'.in_progress /\ game'.settings = Built(settings)
  BY NewGameFields DEF TypeOK
<1>2. \A i \in 1 .. Len(toServer') :
        toServer'[i].type \in {"note", "action", "tableUnattend"} => Old(i)
  BY AddsPlaces
<1>3. Len(toServer) + 1 \in Asked'
  BY DEF Asked, Adds
<1>4. ~overlap' => /\ \A i \in 1 .. Len(toBot') : toBot'[i].type # "noteListPlayer"
                   /\ \A i \in 1 .. Len(toServer') :
                        toServer'[i].type = "getGameInfo2" => i = Len(toServer) + 1
  BY <1>3 DEF OneAtATime, OneLoad, Asked, Answered
<1>5. Paired' /\ OddHead'
  <2>1. CASE Takes /\ toBot[1].type # "gameAction"
    BY <2>1, TakesPaired DEF OddHead
  <2>2. CASE toBot' = toBot /\ ~variantsLoaded
    BY <2>2 DEF OddHead, Paired
  <2>3. QED
    BY <2>1, <2>2
<1>6. ~overlap' => \A i \in 1 .. Len(toBot') : toBot'[i].type # "gameActionList"
  <2>1. \A i \in 1 .. Len(toBot') :
          toBot'[i].type = "gameActionList" => i + 1 \in 1 .. Len(toBot')
    BY <1>5, LenProperties DEF Paired, TypeOK
  <2>2. QED
    BY <1>4, <1>5, <2>1 DEF Paired
<1>7. LogOdd' /\ GameLoaded' /\ Fresh' /\ SettingsMatch'
  BY <1>1 DEF LogOdd, GameLoaded, Fresh, SettingsMatch, InProgress
<1>8. Contiguous'
  <2>1. game'.log = Entries(Len(game'.log)) /\ Len(game'.log) <= log'
    <3>1. Len(game'.log) = 0
      BY <1>1, EmptySeq
    <3>2. Entries(0) = <<>>
      BY EntriesPlaces
    <3>3. QED
      BY <1>1, <3>1, <3>2 DEF TypeOK
  <2>2. QED
    BY <1>1, <2>1 DEF Contiguous, Dealt
<1>9. ListCurrent'
  BY <1>2, <1>4, <1>6 DEF ListCurrent
<1>10. NotesAgree'
  <2> SUFFICES ASSUME ~overlap PROVE NotesAgree'
    BY DEF NotesAgree
  <2>1. QED
    BY <1>1, <1>2 DEF NotesAgree
<1>11. NotesCurrent'
  BY <1>2, <1>4 DEF NotesCurrent
<1>12. MovesOurs'
  BY <1>2 DEF MovesOurs
<1>13. OneMove' /\ MoveLast'
  <2> SUFFICES ASSUME ~stale' PROVE OneMove' /\ MoveLast'
    BY DEF OneMove, MoveLast
  <2>1. timers = <<>> /\ Sent = {} /\ timers' = <<>>
    BY DEF MoveUnderWay
  <2>2. Sent' = {}
    BY <1>2, <2>1 DEF Sent
  <2>3. Len(timers') = 0
    BY <2>1, EmptySeq
  <2>4. QED
    BY <2>1, <2>2, <2>3 DEF OneMove, MoveLast, MoveUnderWay
<1>14. TurnsOpen'
  BY <1>1, <1>6 DEF TurnsOpen
<1>15. QED
  BY <1>5, <1>7, <1>8, <1>9, <1>10, <1>11, <1>12, <1>13, <1>14

\* NoteListPlayer of a game whose settings are to be restored.
LEMMA NoteStep ==
  ASSUME IInv, up, Takes, toBot[1].type = "noteListPlayer", game # NoGame, ~restoredLevel,
         NoteListPlayer(toBot[1]), TypeOK', OneAtATime', settings' \in Settings,
         UNCHANGED <<log, note, attending>>,
         overlap' \in BOOLEAN, overlap => overlap', stale' \in BOOLEAN, stale => stale'
  PROVE  IInv'
<1> USE DEF IInv
<1> DEFINE Old(i) == i \in 1 .. Len(toServer) /\ toServer'[i] = toServer[i]
           m == toBot[1]
           restored == IF m.note # NoNote /\ m.note # settings THEN m.note ELSE settings
           fresh == IF restored # settings THEN NewGame(restored) ELSE game
           noted == [fresh EXCEPT !.noted = TRUE,
                                  !.queued_cmds =
                                    Append(@, [type |-> "note", settings |-> fresh.settings])]
<1>1. /\ settings' = restored
      /\ game' = IF ~fresh.noted /\ fresh.in_progress THEN noted ELSE fresh
      /\ restoredLevel' = TRUE
      /\ toServer' = Append(toServer, Cmd("getGameInfo2"))
      /\ UNCHANGED <<up, tableID, gameStarted, inits, variantsLoaded, timers>>
  BY DEF NoteListPlayer
<1>2. /\ game \in Game /\ game.log = <<>> /\ game.queued_cmds = <<>> /\ ~game.noted
      /\ game.in_progress /\ game.settings = Built(settings)
  BY DEF TypeOK, Fresh, SettingsMatch, InProgress
<1>3. restored \in Settings
  BY <1>1
<1> HIDE DEF restored
<1>4. /\ fresh \in Game /\ fresh.log = <<>> /\ fresh.queued_cmds = <<>> /\ ~fresh.noted
      /\ fresh.in_progress /\ fresh.settings = Built(restored)
  BY <1>2, <1>3, NewGameFields
<1> HIDE DEF fresh
<1>5. game' = noted
  BY <1>1, <1>4
<1>6. /\ game'.log = <<>> /\ game'.settings = Built(restored) /\ game'.in_progress
      /\ game'.queued_cmds = Append(<<>>, [type |-> "note", settings |-> Built(restored)])
  BY <1>4, <1>5 DEF Game
<1>7. game' # NoGame
  BY <1>6 DEF NoGame
<1>8. Len(game'.queued_cmds) = 1 /\ game'.queued_cmds[1].settings = Built(restored)
  BY <1>6
<1>9. Adds(toServer, toServer', {"getGameInfo2"}) /\ Len(toServer') = Len(toServer) + 1
  BY <1>1, CmdType, AddsOne DEF TypeOK
<1>10. \A i \in 1 .. Len(toServer') :
         toServer'[i].type \in {"note", "action", "tableUnattend"} => Old(i)
  BY <1>9, AddsPlaces
<1>11. \A i \in 1 .. Len(toServer') : Old(i) \/ i = Len(toServer) + 1
  BY <1>9 DEF Adds
<1>12. LogOdd' /\ Paired' /\ GameLoaded' /\ OddHead' /\ Fresh' /\ SettingsMatch'
  BY <1>1, <1>6, TakesPaired
     DEF LogOdd, GameLoaded, OddHead, Fresh, SettingsMatch, InProgress
<1>13. Contiguous'
  <2>1. Len(game'.log) = 0 /\ Entries(0) = <<>>
    BY <1>6, EmptySeq, EntriesPlaces
  <2>2. game'.log = Entries(Len(game'.log)) /\ Len(game'.log) <= log'
    BY <1>6, <2>1 DEF TypeOK
  <2>3. QED
    BY <1>6, <2>2 DEF Contiguous, Dealt
<1>14. ListCurrent'
  <2> SUFFICES ASSUME ~overlap' PROVE ListCurrent'
    BY DEF ListCurrent
  <2>1. ListsFollow(toBot, log)
    BY DEF ListCurrent, ListsFollow
  <2>2. ListsFollow(toBot', log)
    BY <2>1, TakesLists
  <2>3. \A i \in 1 .. Len(toBot') : toBot'[i].type = "gameActionList" => Stays'
    <3>1. \A i \in 1 .. Len(toBot') : toBot'[i].type = "gameActionList" => Stays
      BY TakesPlaces DEF ListCurrent
    <3>2. QED
      BY <1>10, <3>1 DEF Stays
  <2>4. \A i, j \in 1 .. Len(toServer') :
          toServer'[i].type = "getGameInfo2" /\ toServer'[j].type = "tableUnattend" => j < i
    <3> SUFFICES ASSUME NEW i \in 1 .. Len(toServer'), NEW j \in 1 .. Len(toServer'),
                        toServer'[i].type = "getGameInfo2", toServer'[j].type = "tableUnattend"
                 PROVE  j < i
      OBVIOUS
    <3>1. Old(j)
      BY <1>10
    <3>2. CASE Old(i)
      BY <3>1, <3>2 DEF ListCurrent
    <3>3. CASE i = Len(toServer) + 1
      BY <3>1, <3>3
    <3>4. QED
      BY <1>11, <3>2, <3>3
  <2>5. QED
    BY <2>2, <2>3, <2>4 DEF ListCurrent, ListsFollow
<1>15. NotesAgree'
  <2> SUFFICES ASSUME ~overlap PROVE NotesAgree'
    BY DEF NotesAgree
  <2>1. 1 \in 1 .. Len(toBot)
    BY TakesPlaces
  <2>2. m.note = note /\ \A j \in 1 .. Len(toServer) : toServer[j].type # "note"
    BY <2>1 DEF NotesCurrent
  <2>3. \A j \in 1 .. Len(toServer') : toServer'[j].type # "note"
    BY <1>10, <2>2
  <2>4. note \in {NoNote, Built(restored)}
    <3>1. CASE note = NoNote
      BY <3>1
    <3>2. CASE note # NoNote
      <4>1. restored = note
        BY <2>2, <3>2 DEF restored
      <4>2. Built(note) = note
        BY <3>2 DEF TypeOK, BuiltSettings
      <4>3. QED
        BY <4>1, <4>2
    <3>3. QED
      BY <3>1, <3>2
  <2>5. \A i \in 1 .. Len(game'.queued_cmds) : game'.queued_cmds[i].settings = game'.settings
    BY <1>6, <1>8
  <2>6. QED
    BY <1>6, <2>3, <2>4, <2>5 DEF NotesAgree
<1>16. NotesCurrent'
  BY <1>1 DEF NotesCurrent
<1>17. MovesOurs'
  BY <1>1, <1>10 DEF MovesOurs
<1>18. OneMove' /\ MoveLast'
  <2> SUFFICES ASSUME ~stale, ~overlap PROVE OneMove' /\ MoveLast'
    BY DEF OneMove, MoveLast
  <2>1. timers = <<>> /\ Sent = {}
    BY <1>2 DEF MoveLast, MoveUnderWay, Dealt
  <2>2. Sent' = {}
    BY <1>10, <2>1 DEF Sent
  <2>3. timers' = <<>> /\ Len(timers') = 0
    BY <1>1, <2>1, EmptySeq
  <2>4. QED
    BY <2>2, <2>3 DEF OneMove, MoveLast, MoveUnderWay
<1>19. TurnsOpen'
  <2> SUFFICES ASSUME ~stale, ~overlap PROVE TurnsOpen'
    BY DEF TurnsOpen
  <2>1. \A i \in 1 .. Len(toBot) :
          toBot[i].type = "gameActionList" => \A k \in toBot[i].length .. log - 1 : ~OurTurn(k)
    BY <1>2 DEF TurnsOpen
  <2>2. \A i \in 1 .. Len(toBot') :
          toBot'[i].type = "gameActionList" => \A k \in toBot'[i].length .. log - 1 : ~OurTurn(k)
    BY <2>1, TakesPlaces
  <2>3. QED
    BY <1>6, <2>2 DEF TurnsOpen
<1>20. QED
  BY <1>12, <1>13, <1>14, <1>15, <1>16, <1>17, <1>18, <1>19

\* A game that handles an action, or the last one of a list: g is the game before it.
LEMMA HandledStep ==
  ASSUME IInv, up, Takes, TypeOK', OneAtATime', game # NoGame, restoredLevel,
         NEW n \in Nat, NEW g \in Game, NEW cmds \in Seq(ToServer),
         game' = Handled(g, n), g.settings = game.settings, g.in_progress => game.in_progress,
         toServer' = toServer \o cmds,
         timers' = IF Performs(g, n) THEN Append(timers, n) ELSE timers,
         UNCHANGED <<up, settings, restoredLevel, variantsLoaded, log, note, attending>>,
         overlap' \in BOOLEAN, overlap => overlap', stale' \in BOOLEAN, stale => stale',
         \A i \in 1 .. Len(cmds) :
           \/ cmds[i].type = "loaded"
           \/ cmds[i].type = "note" /\ game.queued_cmds # <<>>
              /\ (~overlap => cmds[i].settings = game.settings),
         ~overlap => /\ n > 0 /\ g.log = Entries(n - 1)
                     /\ Stays /\ Follow(toBot', 0, n, log),
         ~overlap /\ ~stale => ~MoveUnderWay /\ \A k \in n .. log - 1 : ~OurTurn(k)
  PROVE  IInv'
<1> USE DEF IInv
<1> DEFINE Old(i) == i \in 1 .. Len(toServer) /\ toServer'[i] = toServer[i]
<1>1. /\ game' \in Game /\ game'.log = Append(g.log, n) /\ game'.queued_cmds = <<>>
      /\ game'.settings = game.settings /\ (game'.in_progress => game.in_progress)
  BY HandledFields
<1>a. game' # NoGame
  BY DEF Handled, NoGame, Game
<1>2. game'.log # <<>>
  <2>1. g.log \in Seq(Nat)
    BY DEF Game
  <2>2. Append(g.log, n) # <<>>
    BY <2>1, AppendProperties
  <2>3. QED
    BY <1>1, <2>2
<1>3. \A i \in 1 .. Len(toServer') :
        \/ Old(i)
        \/ \E j \in 1 .. Len(cmds) : toServer'[i] = cmds[j]
  <2>1. /\ Len(toServer) \in Nat /\ Len(cmds) \in Nat
        /\ Len(toServer') = Len(toServer) + Len(cmds)
        /\ \A i \in 1 .. Len(toServer) : toServer'[i] = toServer[i]
        /\ \A i \in Len(toServer) + 1 .. Len(toServer) + Len(cmds) :
             toServer'[i] = cmds[i - Len(toServer)]
    BY ConcatPlaces DEF TypeOK
  <2> SUFFICES ASSUME NEW i \in 1 .. Len(toServer'), ~(i \in 1 .. Len(toServer))
               PROVE  \E j \in 1 .. Len(cmds) : toServer'[i] = cmds[j]
    BY <2>1
  <2>2. i - Len(toServer) \in 1 .. Len(cmds) /\ toServer'[i] = cmds[i - Len(toServer)]
    BY <2>1
  <2>3. QED
    BY <2>2
<1>4. \A i \in 1 .. Len(toServer') :
        toServer'[i].type \in {"action", "tableUnattend", "getGameInfo2"} => Old(i)
  BY <1>3
<1>5. \A i \in 1 .. Len(toServer') :
        toServer'[i].type = "note" =>
          \/ Old(i)
          \/ game.queued_cmds # <<>> /\ (~overlap => toServer'[i].settings = game.settings)
  BY <1>3
<1>6. LogOdd' /\ GameLoaded' /\ Fresh'
  BY DEF LogOdd, GameLoaded, Fresh
<1>7. Paired' /\ OddHead'
  BY <1>2, TakesPaired DEF OddHead, GameLoaded
<1>8. SettingsMatch'
  BY <1>1 DEF SettingsMatch, InProgress
<1>9. Stays => Stays'
  BY <1>4 DEF Stays
<1>10. ASSUME ~overlap PROVE game'.log = Entries(n) /\ Len(game'.log) = n /\ n <= log
  <2>1. n - 1 \in Nat /\ n - 1 + 1 = n
    BY <1>10
  <2>2. game'.log = Entries(n) /\ Len(Entries(n)) = n
    BY <1>1, <1>10, <2>1, EntriesPlaces
  <2>3. QED
    BY <1>10, <2>2 DEF Follow
<1>11. Contiguous'
  <2> SUFFICES ASSUME ~overlap' PROVE Contiguous'
    BY DEF Contiguous
  <2>1. ~overlap
    OBVIOUS
  <2>2. game'.log = Entries(Len(game'.log)) /\ Len(game'.log) <= log'
    BY <1>10, <2>1
  <2>3. Stays' /\ Follow(toBot', 0, Len(game'.log), log')
    BY <1>9, <1>10, <2>1
  <2>4. QED
    BY <2>2, <2>3 DEF Contiguous
<1>12. ListCurrent'
  <2> SUFFICES ASSUME ~overlap' PROVE ListCurrent'
    BY DEF ListCurrent
  <2>1. ListsFollow(toBot, log)
    BY DEF ListCurrent, ListsFollow
  <2>2. ListsFollow(toBot', log)
    BY <2>1, TakesLists
  <2>3. \A i, j \in 1 .. Len(toServer') :
          toServer'[i].type = "getGameInfo2" /\ toServer'[j].type = "tableUnattend" => j < i
    <3> SUFFICES ASSUME NEW i \in 1 .. Len(toServer'), NEW j \in 1 .. Len(toServer'),
                        toServer'[i].type = "getGameInfo2", toServer'[j].type = "tableUnattend"
                 PROVE  j < i
      OBVIOUS
    <3>1. Old(i) /\ Old(j)
      BY <1>4
    <3>2. QED
      BY <3>1 DEF ListCurrent
  <2>4. QED
    BY <1>9, <2>2, <2>3 DEF ListCurrent, ListsFollow
<1>13. NotesAgree'
  <2> SUFFICES ASSUME ~overlap PROVE NotesAgree'
    BY DEF NotesAgree
  <2>1. \A i \in 1 .. Len(toServer') :
          toServer'[i].type = "note" =>
            \/ i \in 1 .. Len(toServer) /\ toServer'[i] = toServer[i]
            \/ game.queued_cmds # <<>> /\ toServer'[i].settings = game.settings
    BY <1>5
  <2>2. \A i \in 1 .. Len(toServer') :
          toServer'[i].type = "note" => note \in {NoNote, toServer'[i].settings}
    BY <2>1 DEF NotesAgree
  <2>3. \A i, j \in 1 .. Len(toServer') :
          toServer'[i].type = "note" /\ toServer'[j].type = "note" =>
            toServer'[i].settings = toServer'[j].settings
    BY <2>1 DEF NotesAgree
  <2>4. QED
    BY <1>1, <2>2, <2>3 DEF NotesAgree
<1>14. NotesCurrent'
  BY DEF NotesCurrent
<1>15. MovesOurs'
  <2>1. \A i \in 1 .. Len(timers') : OurTurn(timers'[i])
    <3>1. CASE Performs(g, n)
      <4>1. /\ Len(timers) \in Nat /\ Len(timers') = Len(timers) + 1
            /\ \A i \in 1 .. Len(timers) : timers'[i] = timers[i]
            /\ timers'[Len(timers) + 1] = n
        BY <3>1, AppendPlaces DEF TypeOK
      <4>2. OurTurn(n)
        BY <3>1 DEF Performs
      <4>3. \A i \in 1 .. Len(timers') : i \in 1 .. Len(timers) \/ i = Len(timers) + 1
        BY <4>1
      <4>4. QED
        BY <4>1, <4>2, <4>3 DEF MovesOurs
    <3>2. QED
      BY <3>1 DEF MovesOurs
  <2>2. QED
    BY <1>4, <2>1 DEF MovesOurs
<1>16. TurnsOpen'
  BY <1>2, <1>10 DEF TurnsOpen
<1>17. OneMove' /\ MoveLast'
  <2> SUFFICES ASSUME ~stale, ~overlap PROVE OneMove' /\ MoveLast'
    BY DEF OneMove, MoveLast
  <2>1. timers = <<>> /\ Sent = {}
    BY DEF MoveUnderWay
  <2>2. Sent' = {}
    BY <1>4, <2>1 DEF Sent
  <2>3. CASE Performs(g, n)
    <3>1. timers' = Append(<<>>, n)
      BY <2>1, <2>3
    <3>2. Len(timers') = 1 /\ timers'[1] = n
      BY <3>1, OneIsAppended
    <3>3. n = log
      <4>1. n \in 1 .. log /\ ~(n < log) /\ log \in Nat
        BY <1>10, <2>3 DEF Performs, TypeOK
      <4>2. QED
        BY <4>1
    <3>4. MoveLast'
      <4>1. game'.log # <<>> /\ Len(game'.log) = log'
        BY <1>2, <1>10, <3>3
      <4>2. QED
        BY <1>a, <4>1 DEF MoveLast, Dealt
    <3>5. OneMove'
      <4>1. \A i \in 1 .. Len(timers') : timers'[i] = log'
        BY <3>2, <3>3
      <4>2. QED
        BY <2>2, <3>2, <4>1 DEF OneMove
    <3>6. QED
      BY <3>4, <3>5
  <2>4. CASE ~Performs(g, n)
    <3>1. timers' = <<>> /\ Len(timers') = 0
      BY <2>1, <2>4, EmptySeq
    <3>2. QED
      BY <2>2, <3>1 DEF OneMove, MoveLast, MoveUnderWay
  <2>5. QED
    BY <2>3, <2>4
<1>18. QED
  BY <1>6, <1>7, <1>8, <1>11, <1>12, <1>13, <1>14, <1>15, <1>16, <1>17

\* What is queued are notes, and the commands of a list are those and "loaded".
LEMMA QueuedType ==
  ASSUME NEW g \in Game
  PROVE  /\ g.queued_cmds \in Seq(NoteCmd) /\ g.queued_cmds \in Seq(ToServer)
         /\ \A i \in 1 .. Len(g.queued_cmds) : g.queued_cmds[i].type = "note"
<1>1. g.queued_cmds \in Seq(NoteCmd)
  BY DEF Game
<1>2. \A i \in 1 .. Len(g.queued_cmds) : g.queued_cmds[i] \in NoteCmd
  BY <1>1, ElementOfSeq
<1>3. \A i \in 1 .. Len(g.queued_cmds) : g.queued_cmds[i] \in ToServer
  BY <1>2 DEF ToServer
<1>4. g.queued_cmds \in Seq(ToServer)
  BY <1>1, <1>3, SeqDef
<1>5. \A i \in 1 .. Len(g.queued_cmds) : g.queued_cmds[i].type = "note"
  BY <1>2 DEF NoteCmd
<1>6. QED
  BY <1>1, <1>4, <1>5

\* They are the notes of the settings the game is played with.
LEMMA QueuedNotes ==
  ASSUME NotesAgree, game \in Game, game # NoGame
  PROVE  \A i \in 1 .. Len(game.queued_cmds) :
           /\ game.queued_cmds[i].type = "note"
           /\ game.queued_cmds # <<>>
           /\ ~overlap => game.queued_cmds[i].settings = game.settings
<1> SUFFICES ASSUME NEW i \in 1 .. Len(game.queued_cmds)
             PROVE  /\ game.queued_cmds[i].type = "note"
                    /\ game.queued_cmds # <<>>
                    /\ ~overlap => game.queued_cmds[i].settings = game.settings
  OBVIOUS
<1>1. game.queued_cmds[i].type = "note"
  BY QueuedType
<1>2. game.queued_cmds # <<>>
  BY QueuedType, EmptySeq
<1>3. QED
  BY <1>1, <1>2 DEF NotesAgree

\* What a list sends: the queue, and "loaded".
LEMMA LoadedAdded ==
  ASSUME NEW g \in Game
  PROVE  LET cmds == g.queued_cmds \o <<Cmd("loaded")>>
         IN  /\ cmds \in Seq(ToServer)
             /\ \A i \in 1 .. Len(cmds) :
                  \/ i \in 1 .. Len(g.queued_cmds) /\ cmds[i] = g.queued_cmds[i]
                  \/ cmds[i].type = "loaded"
<1> DEFINE c == <<Cmd("loaded")>>
           cmds == g.queued_cmds \o c
<1>1. c \in Seq(ToServer) /\ Len(c) = 1 /\ c[1].type = "loaded"
  BY CmdType
<1> HIDE DEF c
<1>2. /\ cmds \in Seq(ToServer)
      /\ Len(g.queued_cmds) \in Nat /\ Len(cmds) = Len(g.queued_cmds) + Len(c)
      /\ \A i \in 1 .. Len(g.queued_cmds) : cmds[i] = g.queued_cmds[i]
      /\ \A i \in 1 .. Len(c) : cmds[Len(g.queued_cmds) + i] = c[i]
  BY <1>1, QueuedType, ConcatPlaces
<1> HIDE DEF cmds
<1>3. /\ \A i \in 1 .. Len(cmds) : i \in 1 .. Len(g.queued_cmds) \/ i = Len(g.queued_cmds) + 1
      /\ cmds[Len(g.queued_cmds) + 1].type = "loaded"
  BY <1>1, <1>2
<1>4. QED
  BY <1>2, <1>3 DEF cmds, c

\* GameAction of a game that can handle it.
LEMMA ActionStep ==
  ASSUME IInv, up, Takes, toBot[1].type = "gameAction", game # NoGame,
         ~Throws(game, toBot[1].entry), GameAction(toBot[1]), TypeOK', OneAtATime',
         UNCHANGED <<log, note, attending>>,
         overlap' \in BOOLEAN, overlap => overlap', stale' \in BOOLEAN, stale => stale'
  PROVE  IInv'
<1> USE DEF IInv
<1> DEFINE n == toBot[1].entry
<1>1. /\ game' = Handled(game, n) /\ toServer' = toServer \o game.queued_cmds
      /\ timers' = IF Performs(game, n) THEN Append(timers, n) ELSE timers
      /\ UNCHANGED <<up, settings, restoredLevel, variantsLoaded>>
  BY DEF GameAction, HandleAction
<1>2. toBot \in Seq(ToBot) /\ toBot # <<>> /\ toBot[1] \in ToBot
  BY TakesPlaces DEF TypeOK, Takes
<1>3. n \in Nat /\ game \in Game
  BY <1>2 DEF ToBot, TypeOK
<1> HIDE DEF n
<1>4. game.queued_cmds \in Seq(NoteCmd) /\ game.log \in Seq(Nat)
  BY <1>3 DEF Game
<1>5. game.log # <<>>
  <2>1. CASE n % 2 = 1
    BY <1>2, <2>1 DEF OddHead, n
  <2>2. CASE n % 2 # 1
    <3>1. \E i \in 1 .. Len(game.log) : game.log[i] = 1
      BY <1>3, <2>2 DEF Throws, n
    <3>2. QED
      BY <1>4, <3>1, EmptySeq
  <2>3. QED
    BY <2>1, <2>2
<1>6. restoredLevel
  BY <1>5 DEF Fresh
<1>7. game.queued_cmds \in Seq(ToServer)
  BY <1>3, QueuedType
<1>8. \A i \in 1 .. Len(game.queued_cmds) :
        /\ game.queued_cmds[i].type = "note"
        /\ game.queued_cmds # <<>>
        /\ ~overlap => game.queued_cmds[i].settings = game.settings
  BY <1>3, QueuedNotes
<1>9. ASSUME ~overlap
      PROVE  /\ n = Len(game.log) + 1 /\ n - 1 = Len(game.log) /\ n > 0 /\ n <= log
             /\ game.log = Entries(n - 1) /\ Stays /\ Follow(toBot', 0, n, log)
  <2>1. /\ game.log = Entries(Len(game.log))
        /\ Stays /\ Follow(toBot, 0, Len(game.log), log)
    BY <1>5, <1>9 DEF Contiguous, Dealt
  <2>2. Len(game.log) \in Nat /\ log \in Nat
    BY <1>4, LenProperties DEF TypeOK
  <2>3. /\ n = Len(game.log) + 1 /\ Len(game.log) < log
        /\ Follow(Tail(toBot), 0, Len(game.log) + 1, log)
    BY <1>2, <1>3, <2>1, <2>2, FollowTakes DEF n
  <2>4. QED
    BY <2>1, <2>2, <2>3 DEF Takes
<1>10. ASSUME ~overlap, ~stale
       PROVE  ~MoveUnderWay /\ \A k \in n .. log - 1 : ~OurTurn(k)
  <2>1. ~MoveUnderWay
    BY <1>4, <1>9, <1>10, LenProperties DEF MoveLast
  <2>2. \A k \in Len(game.log) + 1 .. log - 1 : ~OurTurn(k)
    BY <1>5, <1>10 DEF TurnsOpen
  <2>3. QED
    BY <1>9, <1>10, <2>1, <2>2
<1>11. QED
  BY <1>1, <1>3, <1>6, <1>7, <1>8, <1>9, <1>10, HandledStep

\* What the last action of a list is handled by.
LEMMA ListStep ==
  ASSUME IInv, up, Takes, toBot[1].type = "gameActionList", game # NoGame, restoredLevel,
         ~Throws(game, 1), GameActionList(toBot[1]), TypeOK', OneAtATime',
         UNCHANGED <<log, note, attending>>,
         overlap' \in BOOLEAN, overlap => overlap', stale' \in BOOLEAN, stale => stale'
  PROVE  IInv'
<1> USE DEF IInv
<1> DEFINE n == toBot[1].length
           g == [game EXCEPT !.log = @ \o Entries(n - 1)]
           cmds == game.queued_cmds \o <<Cmd("loaded")>>
<1>1. /\ game' = Handled(g, n) /\ toServer' = toServer \o cmds
      /\ timers' = IF Performs(g, n) THEN Append(timers, n) ELSE timers
      /\ UNCHANGED <<up, settings, restoredLevel, variantsLoaded>>
  BY DEF GameActionList, HandleList
<1>2. toBot \in Seq(ToBot) /\ toBot # <<>> /\ toBot[1] \in ToBot
  BY TakesPlaces DEF TypeOK, Takes
<1>3. n \in Nat /\ game \in Game
  BY <1>2 DEF ToBot, TypeOK
<1>4. game.queued_cmds \in Seq(NoteCmd) /\ game.log \in Seq(Nat)
  BY <1>3 DEF Game
<1> HIDE DEF n
<1>5. Entries(n - 1) \in Seq(Nat)
  BY <1>3 DEF Entries
<1>6. /\ g \in Game /\ g.log = game.log \o Entries(n - 1)
      /\ g.settings = game.settings /\ g.in_progress = game.in_progress
  <2>1. game.log \o Entries(n - 1) \in Seq(Nat)
    BY <1>4, <1>5, ConcatProperties
  <2>2. QED
    BY <1>3, <2>1 DEF Game
<1> HIDE DEF g
<1>7. /\ cmds \in Seq(ToServer)
      /\ \A i \in 1 .. Len(cmds) :
           \/ i \in 1 .. Len(game.queued_cmds) /\ cmds[i] = game.queued_cmds[i]
           \/ cmds[i].type = "loaded"
  BY <1>3, LoadedAdded
<1> HIDE DEF cmds
<1>8. \A i \in 1 .. Len(cmds) :
        \/ cmds[i].type = "loaded"
        \/ cmds[i].type = "note" /\ game.queued_cmds # <<>>
           /\ (~overlap => cmds[i].settings = game.settings)
  BY <1>3, <1>7, QueuedNotes
<1>9. ASSUME ~overlap
      PROVE  game.log = <<>> /\ n > 0 /\ g.log = Entries(n - 1)
             /\ Stays /\ Follow(toBot', 0, n, log)
  <2>1. game.log = Entries(Len(game.log)) /\ Len(game.log) \in Nat
    BY <1>4, <1>9, LenProperties DEF Contiguous
  <2>2. game.log = <<>>
    <3> SUFFICES ASSUME game.log # <<>> PROVE FALSE
      OBVIOUS
    <3>1. Len(game.log) >= 1
      BY <1>4, <2>1, EmptySeq
    <3>2. 1 \in 1 .. Len(game.log)
      BY <2>1, <3>1
    <3>3. game.log[1] = 1
      BY <2>1, <3>2, EntriesPlaces
    <3>4. QED
      BY <3>2, <3>3 DEF Throws
  <2>3. Stays /\ n > 0 /\ Follow(toBot, 1, n, log)
    BY <1>9, TakesPlaces DEF ListCurrent, n
  <2>4. Follow(Tail(toBot), 1 - 1, n, log)
    BY <1>2, <2>3, FollowShifts, LenProperties, TakesPlaces
  <2>5. <<>> \o Entries(n - 1) = Entries(n - 1)
    BY <1>5, ConcatEmptySeq
  <2>6. 1 - 1 = 0
    OBVIOUS
  <2>7. QED
    BY <1>6, <2>2, <2>3, <2>4, <2>5, <2>6 DEF Takes
<1>10. ASSUME ~overlap, ~stale
       PROVE  ~MoveUnderWay /\ \A k \in n .. log - 1 : ~OurTurn(k)
  <2>1. ~MoveUnderWay
    BY <1>9, <1>10 DEF MoveLast, Dealt
  <2>2. QED
    BY <1>9, <1>10, <2>1, TakesPlaces DEF TurnsOpen, n
<1>11. QED
  BY <1>1, <1>3, <1>6, <1>7, <1>8, <1>9, <1>10, HandledStep

-----------------------------------------------------------------------------
(* Type correctness *)

\* The types of the process and of the channels.
ProcOK ==
  /\ up \in BOOLEAN /\ settings \in Settings /\ (game = NoGame \/ game \in Game)
  /\ tableID \in BOOLEAN /\ gameStarted \in BOOLEAN /\ restoredLevel \in BOOLEAN
  /\ inits \in Nat /\ variantsLoaded \in BOOLEAN
  /\ timers \in Seq(Nat) /\ toBot \in Seq(ToBot) /\ toServer \in Seq(ToServer)

\* A list of as many commands of a type.
LEMMA CmdsType ==
  ASSUME NEW n \in Nat
  PROVE  /\ [i \in 1 .. n |-> Cmd("getGameInfo2")] \in Seq(ToServer)
         /\ Len([i \in 1 .. n |-> Cmd("getGameInfo2")]) = n
BY CmdType

\* The death of the process.
LEMMA DieTypes ==
  ASSUME ProcOK, NEW cmds \in Seq(ToServer), DieSending(cmds)
  PROVE  ProcOK'
<1>1. toServer \o cmds \in Seq(ToServer)
  BY ConcatProperties DEF ProcOK
<1>2. PICK n \in 0 .. Len(toServer \o cmds) : toServer' = SubSeq(toServer \o cmds, 1, n)
  BY DEF DieSending
<1>3. n \in Nat /\ \A i \in 1 .. n : i \in 1 .. Len(toServer \o cmds)
  BY <1>1, LenProperties
<1>4. \A i \in 1 .. n : (toServer \o cmds)[i] \in ToServer
  BY <1>1, <1>3, ElementOfSeq
<1>5. SubSeq(toServer \o cmds, 1, n) \in Seq(ToServer)
  BY <1>1, <1>3, <1>4, SubSeqProperties
<1>6. <<>> \in Seq(ToBot)
  BY EmptySeq
<1>7. QED
  BY <1>2, <1>5, <1>6 DEF DieSending, ProcOK

\* The handlers of actions.
LEMMA ActionTypes ==
  ASSUME ProcOK, toBot # <<>>, NEW m \in ToBot,
         \/ m.type = "gameAction" /\ GameAction(m)
         \/ m.type = "gameActionList" /\ GameActionList(m)
  PROVE  ProcOK'
<1>1. Tail(toBot) \in Seq(ToBot) /\ <<>> \in Seq(ToServer)
  BY TailPlaces, EmptySeq DEF ProcOK
<1>2. CASE m.type = "gameAction"
  <2>1. CASE Die
    BY <1>1, <2>1, DieTypes DEF Die
  <2>2. CASE game # NoGame /\ ~Throws(game, m.entry)
    <3>1. m.entry \in Nat /\ game \in Game
      BY <1>2, <2>2 DEF ToBot, ProcOK
    <3>2. /\ game' = Handled(game, m.entry) /\ toServer' = toServer \o game.queued_cmds
          /\ timers' = IF Performs(game, m.entry) THEN Append(timers, m.entry) ELSE timers
          /\ toBot' = Tail(toBot)
          /\ UNCHANGED <<up, settings, tableID, gameStarted, restoredLevel, inits, variantsLoaded>>
      BY <1>2, <2>2 DEF GameAction, HandleAction
    <3>3. game' \in Game
      BY <3>1, <3>2, HandledFields
    <3>4. toServer' \in Seq(ToServer)
      BY <3>1, <3>2, QueuedType, ConcatProperties DEF ProcOK
    <3>5. timers' \in Seq(Nat)
      BY <3>1, <3>2, AppendProperties DEF ProcOK
    <3>6. QED
      BY <1>1, <3>2, <3>3, <3>4, <3>5 DEF ProcOK
  <2>3. QED
    BY <1>2, <2>1, <2>2 DEF GameAction
<1>3. CASE m.type = "gameActionList"
  <2> DEFINE cmds == game.queued_cmds \o <<Cmd("loaded")>>
  <2>1. CASE ~restoredLevel
    BY <1>1, <1>3, <2>1 DEF GameActionList, ProcOK, procVars
  <2>2. CASE restoredLevel /\ game = NoGame
    <3>1. Die
      BY <1>3, <2>2 DEF GameActionList
    <3>2. QED
      BY <1>1, <3>1, DieTypes DEF Die
  <2>3. CASE restoredLevel /\ game # NoGame
    <3> DEFINE g == [game EXCEPT !.log = @ \o Entries(m.length - 1)]
    <3>1. m.length \in Nat /\ game \in Game
      BY <1>3, <2>3 DEF ToBot, ProcOK
    <3>2. <<Cmd("loaded")>> \in Seq(ToServer)
      BY CmdType
    <3>3. cmds \in Seq(ToServer)
      BY <3>1, <3>2, QueuedType, ConcatProperties
    <3>4. HandleList(m.length)
      BY <1>3, <2>3 DEF GameActionList
    <3>5. CASE Throws(game, 1)
      BY <3>3, <3>4, <3>5, DieTypes DEF HandleList
    <3>6. CASE ~Throws(game, 1)
      <4>1. /\ game' = Handled(g, m.length) /\ toServer' = toServer \o cmds
            /\ timers' = IF Performs(g, m.length) THEN Append(timers, m.length) ELSE timers
            /\ toBot' = Tail(toBot)
            /\ UNCHANGED <<up, settings, tableID, gameStarted, restoredLevel, inits, variantsLoaded>>
        BY <3>4, <3>6 DEF HandleList
      <4>2. g \in Game
        <5>1. Entries(m.length - 1) \in Seq(Nat) /\ game.log \in Seq(Nat)
          BY <3>1 DEF Entries, Game
        <5>2. game.log \o Entries(m.length - 1) \in Seq(Nat)
          BY <5>1, ConcatProperties
        <5>3. QED
          BY <3>1, <5>2 DEF Game
      <4> HIDE DEF cmds, g
      <4>3. game' \in Game
        BY <3>1, <4>1, <4>2, HandledFields
      <4>4. toServer' \in Seq(ToServer)
        BY <3>3, <4>1, ConcatProperties DEF ProcOK
      <4>5. timers' \in Seq(Nat)
        BY <3>1, <4>1, AppendProperties DEF ProcOK
      <4>6. QED
        BY <1>1, <4>1, <4>3, <4>4, <4>5 DEF ProcOK
    <3>7. QED
      BY <3>5, <3>6
  <2>4. QED
    BY <2>1, <2>2, <2>3 DEF ProcOK
<1>4. QED
  BY <1>2, <1>3

\* The game that init builds.
LEMMA ResumeTypes ==
  ASSUME ProcOK, NEW n \in Nat, ResumeInits(n)
  PROVE  game' \in Game /\ restoredLevel' \in BOOLEAN /\ toServer' \in Seq(ToServer)
<1>1. game' \in Game
  BY NewGameFields DEF ResumeInits, ProcOK
<1>2. toServer' \in Seq(ToServer)
  BY CmdsType, ConcatProperties DEF ResumeInits, ProcOK
<1>3. QED
  BY <1>1, <1>2 DEF ResumeInits

\* The handler of the notes.
LEMMA NoteTypes ==
  ASSUME ProcOK, toBot # <<>>, NEW m \in ToBot, m.type = "noteListPlayer", NoteListPlayer(m)
  PROVE  ProcOK'
<1>1. Tail(toBot) \in Seq(ToBot) /\ <<>> \in Seq(ToServer)
  BY TailPlaces, EmptySeq DEF ProcOK
<1>2. CASE restoredLevel
  BY <1>1, <1>2 DEF NoteListPlayer, ProcOK, procVars
<1>3. CASE ~restoredLevel /\ game = NoGame
  <2>1. Die
    BY <1>3 DEF NoteListPlayer
  <2>2. QED
    BY <1>1, <2>1, DieTypes DEF Die
<1>4. CASE ~restoredLevel /\ game # NoGame
  <2> DEFINE restored == IF m.note # NoNote /\ m.note # settings THEN m.note ELSE settings
             fresh == IF restored # settings THEN NewGame(restored) ELSE game
             cmd == [type |-> "note", settings |-> fresh.settings]
             noted == [fresh EXCEPT !.noted = TRUE, !.queued_cmds = Append(@, cmd)]
  <2>1. /\ settings' = restored
        /\ game' = IF ~fresh.noted /\ fresh.in_progress THEN noted ELSE fresh
        /\ restoredLevel' = TRUE
        /\ toServer' = Append(toServer, Cmd("getGameInfo2"))
        /\ toBot' = Tail(toBot)
        /\ UNCHANGED <<up, tableID, gameStarted, inits, variantsLoaded, timers>>
    BY <1>4 DEF NoteListPlayer
  <2>2. restored \in Settings
    BY DEF ProcOK, ToBot, BuiltSettings
  <2> HIDE DEF restored
  <2>3. fresh \in Game
    BY <1>4, <2>2, NewGameFields DEF ProcOK
  <2> HIDE DEF fresh
  <2>4. noted \in Game
    <3>1. cmd \in NoteCmd
      BY <2>3 DEF NoteCmd, Game
    <3>2. Append(fresh.queued_cmds, cmd) \in Seq(NoteCmd)
      BY <2>3, <3>1, QueuedType, AppendProperties
    <3>3. QED
      BY <2>3, <3>2 DEF Game
  <2>5. toServer' \in Seq(ToServer)
    BY <2>1, CmdType, AppendProperties DEF ProcOK
  <2> HIDE DEF noted
  <2>6. QED
    BY <1>1, <2>1, <2>2, <2>3, <2>4, <2>5 DEF ProcOK
<1>5. QED
  BY <1>2, <1>3, <1>4 DEF ProcOK

\* The other handlers of messages.
LEMMA OtherTypes ==
  ASSUME ProcOK, toBot # <<>>, NEW m,
         InitMsg \/ Joined \/ Left \/ TableStart \/ TableList(m)
  PROVE  ProcOK'
<1>1. Tail(toBot) \in Seq(ToBot)
  BY TailPlaces DEF ProcOK
<1>2. CASE InitMsg
  <2>1. CASE variantsLoaded
    <3>1. ResumeInits(1) /\ UNCHANGED inits
      BY <1>2, <2>1 DEF InitMsg
    <3>2. game' \in Game /\ restoredLevel' \in BOOLEAN /\ toServer' \in Seq(ToServer)
      BY <3>1, ResumeTypes
    <3>3. QED
      BY <1>1, <1>2, <3>1, <3>2 DEF InitMsg, ProcOK
  <2>2. CASE ~variantsLoaded
    BY <1>1, <1>2, <2>2 DEF InitMsg, ProcOK
  <2>3. QED
    BY <2>1, <2>2
<1>3. CASE Joined \/ Left
  BY <1>1, <1>3 DEF Joined, Left, ProcOK
<1>4. CASE TableStart
  <2>1. Append(toServer, Cmd("getGameInfo1")) \in Seq(ToServer)
    BY CmdType, AppendProperties DEF ProcOK
  <2>2. QED
    BY <1>1, <1>4, <2>1 DEF TableStart, ProcOK
<1>5. CASE TableList(m)
  <2>1. Append(toServer, Cmd("tableReattend")) \in Seq(ToServer)
    BY CmdType, AppendProperties DEF ProcOK
  <2>2. QED
    BY <1>1, <1>5, <2>1 DEF TableList, ProcOK, procVars
<1>6. QED
  BY <1>2, <1>3, <1>4, <1>5

\* handle_msg
LEMMA MessageTypes ==
  ASSUME TypeOK, HandleMsg
  PROVE  TypeOK'
<1> DEFINE m == Head(toBot)
<1>1. ProcOK /\ toBot # <<>>
  BY DEF TypeOK, ProcOK, HandleMsg
<1>2. m \in ToBot
  BY <1>1, TailPlaces DEF ProcOK
<1>3. ProcOK'
  <2>1. \/ m.type = "gameAction"     /\ GameAction(m)
        \/ m.type = "gameActionList" /\ GameActionList(m)
        \/ m.type = "noteListPlayer" /\ NoteListPlayer(m)
        \/ InitMsg \/ Joined \/ Left \/ TableStart \/ TableList(m)
    BY DEF HandleMsg
  <2>2. QED
    BY <1>1, <1>2, <2>1, ActionTypes, NoteTypes, OtherTypes
<1>4. stale' \in BOOLEAN /\ overlap' \in BOOLEAN
  BY DEF HandleMsg, Watch
<1>5. UNCHANGED <<log, note, seated, attending, crashes, chats, accepted, dismissed>>
  BY DEF HandleMsg, serverVars
<1>6. QED
  BY <1>3, <1>4, <1>5 DEF TypeOK, ProcOK

\* The end of the download keeps the types.
LEMMA LoadTypes ==
  ASSUME TypeOK, LoadVariants
  PROVE  TypeOK'
<1>1. game' = NoGame \/ game' \in Game
  BY ResumeTypes DEF LoadVariants, TypeOK, ProcOK
<1>2. restoredLevel' \in BOOLEAN /\ toServer' \in Seq(ToServer)
  BY ResumeTypes DEF LoadVariants, TypeOK, ProcOK
<1>3. stale' \in BOOLEAN /\ overlap' \in BOOLEAN
  BY DEF LoadVariants, Watch
<1>4. QED
  BY <1>1, <1>2, <1>3 DEF LoadVariants, serverVars, TypeOK

-----------------------------------------------------------------------------
(* The steps of the process *)

\* What the suspended init handlers ask for.
LEMMA ResumeAdds ==
  ASSUME TypeOK, NEW n \in Nat, ResumeInits(n)
  PROVE  /\ Adds(toServer, toServer', {"getGameInfo2"})
         /\ Len(toServer') = Len(toServer) + n
         /\ game' = NewGame(settings) /\ game' # NoGame /\ game'.log = <<>>
         /\ restoredLevel' = FALSE
<1> DEFINE cmds == [i \in 1 .. n |-> Cmd("getGameInfo2")]
<1>1. /\ cmds \in Seq(ToServer) /\ Len(cmds) = n
      /\ \A i \in 1 .. n : cmds[i].type = "getGameInfo2"
  BY CmdsType, CmdType
<1>2. toServer' = toServer \o cmds
  BY DEF ResumeInits
<1> HIDE DEF cmds
<1>3. /\ toServer' \in Seq(ToServer)
      /\ Len(toServer) \in Nat /\ Len(toServer') = Len(toServer) + n
      /\ \A i \in 1 .. Len(toServer) : toServer'[i] = toServer[i]
      /\ \A i \in Len(toServer) + 1 .. Len(toServer) + n : toServer'[i] = cmds[i - Len(toServer)]
  BY <1>1, <1>2, ConcatPlaces DEF TypeOK
<1>4. \A i \in Len(toServer) + 1 .. Len(toServer) + n : i - Len(toServer) \in 1 .. n
  BY <1>3
<1>5. Adds(toServer, toServer', {"getGameInfo2"})
  BY <1>1, <1>3, <1>4 DEF Adds
<1>6. QED
  BY <1>3, <1>5, NewGameFields DEF ResumeInits, TypeOK

\* The process dies with nothing more to send.
LEMMA DiesStep ==
  ASSUME IInv, up, Die, TypeOK', OneAtATime', UNCHANGED <<log, note, attending>>,
         overlap' \in BOOLEAN, overlap => overlap'
  PROVE  IInv'
<1>1. <<>> \in Seq(ToServer) /\ Len(<<>>) = 0
  BY EmptySeq
<1>2. DieSending(<<>>)
  BY DEF Die
<1>3. \A i \in 1 .. Len(<<>>) :
        /\ <<>>[i].type # "action"
        /\ ~overlap /\ <<>>[i].type = "note" =>
             game # NoGame /\ game.queued_cmds # <<>> /\ <<>>[i].settings = game.settings
  BY <1>1
<1>4. QED
  BY <1>1, <1>2, <1>3, DieStep

\* handle_msg
LEMMA MessageStep ==
  ASSUME IInv, HandleMsg, TypeOK'
  PROVE  IInv'
<1> DEFINE m == toBot[1]
<1>1. TypeOK
  BY DEF IInv
<1>2. /\ up /\ toBot # <<>> /\ toBot \in Seq(ToBot) /\ Head(toBot) = m /\ m \in ToBot
  BY <1>1, TailPlaces DEF HandleMsg, TypeOK
<1>3. /\ stale' = (stale \/ (MoveUnderWay /\ game' # NoGame /\ game'.log = <<>>))
      /\ OneAtATime'
      /\ overlap' \in BOOLEAN /\ (overlap => overlap') /\ stale' \in BOOLEAN /\ (stale => stale')
  BY DEF HandleMsg, Watch, OneAtATime
<1>4. UNCHANGED <<log, note, seated, attending>>
  BY DEF HandleMsg, serverVars
<1>5. ASSUME Die PROVE IInv'
  BY <1>2, <1>3, <1>4, <1>5, DiesStep
<1>6. ASSUME toBot' = Tail(toBot), m.type # "gameAction",
             UNCHANGED <<game, settings, restoredLevel, variantsLoaded, timers, up>>,
             Adds(toServer, toServer', {"getGameInfo1", "tableReattend"})
      PROVE  IInv'
  BY <1>2, <1>3, <1>4, <1>6, QuietStep DEF Takes, Idle
<1>7. Adds(toServer, toServer, {"getGameInfo1", "tableReattend"})
  BY <1>1, AddsNone DEF TypeOK
<1>8. ASSUME m.type = "gameAction", GameAction(m) PROVE IInv'
  <2>1. CASE game = NoGame \/ Throws(game, m.entry)
    BY <1>5, <1>8, <2>1 DEF GameAction
  <2>2. CASE ~(game = NoGame \/ Throws(game, m.entry))
    <3>1. Takes
      BY <1>2, <1>8, <2>2 DEF GameAction, Takes
    <3>2. QED
      BY <1>2, <1>3, <1>4, <1>8, <2>2, <3>1, ActionStep
  <2>3. QED
    BY <2>1, <2>2
<1>9. ASSUME m.type = "gameActionList", GameActionList(m) PROVE IInv'
  <2>1. CASE ~restoredLevel
    BY <1>6, <1>7, <1>9, <2>1 DEF GameActionList, procVars
  <2>2. CASE restoredLevel /\ game = NoGame
    <3>1. Die
      BY <1>9, <2>2 DEF GameActionList
    <3>2. QED
      BY <1>5, <3>1
  <2>3. CASE restoredLevel /\ game # NoGame
    <3>1. HandleList(m.length)
      BY <1>9, <2>3 DEF GameActionList
    <3>2. CASE Throws(game, 1)
      <4> DEFINE cmds == game.queued_cmds \o <<Cmd("loaded")>>
      <4>1. DieSending(cmds)
        BY <3>1, <3>2 DEF HandleList
      <4>2. game \in Game
        BY <1>1, <2>3 DEF TypeOK
      <4>3. /\ cmds \in Seq(ToServer)
            /\ \A i \in 1 .. Len(cmds) :
                 \/ i \in 1 .. Len(game.queued_cmds) /\ cmds[i] = game.queued_cmds[i]
                 \/ cmds[i].type = "loaded"
        BY <4>2, LoadedAdded
      <4> HIDE DEF cmds
      <4>4. \A i \in 1 .. Len(cmds) :
              /\ cmds[i].type # "action"
              /\ ~overlap /\ cmds[i].type = "note" =>
                   game # NoGame /\ game.queued_cmds # <<>> /\ cmds[i].settings = game.settings
        BY <2>3, <4>2, <4>3, QueuedNotes DEF IInv
      <4>5. QED
        BY <1>2, <1>3, <1>4, <4>1, <4>3, <4>4, DieStep
    <3>3. CASE ~Throws(game, 1)
      <4>1. Takes
        BY <1>2, <3>1, <3>3 DEF HandleList, Takes
      <4>2. QED
        BY <1>2, <1>3, <1>4, <1>9, <2>3, <3>3, <4>1, ListStep
    <3>4. QED
      BY <3>2, <3>3
  <2>4. QED
    BY <1>1, <2>1, <2>2, <2>3 DEF TypeOK
<1>10. ASSUME m.type = "noteListPlayer", NoteListPlayer(m) PROVE IInv'
  <2>1. CASE restoredLevel
    BY <1>6, <1>7, <1>10, <2>1 DEF NoteListPlayer, procVars
  <2>2. CASE ~restoredLevel /\ game = NoGame
    <3>1. Die
      BY <1>10, <2>2 DEF NoteListPlayer
    <3>2. QED
      BY <1>5, <3>1
  <2>3. CASE ~restoredLevel /\ game # NoGame
    <3>1. Takes
      BY <1>2, <1>10, <2>3 DEF NoteListPlayer, Takes
    <3>2. QED
      BY <1>2, <1>3, <1>4, <1>10, <2>3, <3>1, NoteStep DEF TypeOK
  <2>4. QED
    BY <1>1, <2>1, <2>2, <2>3 DEF TypeOK
<1>11. ASSUME m.type = "init", InitMsg PROVE IInv'
  <2>1. CASE variantsLoaded
    <3>1. ResumeInits(1) /\ UNCHANGED inits /\ toBot' = Tail(toBot)
          /\ UNCHANGED <<up, settings, gameStarted, variantsLoaded, timers>>
      BY <1>11, <2>1 DEF InitMsg
    <3>2. /\ Adds(toServer, toServer', {"getGameInfo2"}) /\ Len(toServer') = Len(toServer) + 1
          /\ game' = NewGame(settings) /\ game' # NoGame /\ game'.log = <<>>
          /\ restoredLevel' = FALSE
      BY <1>1, <3>1, ResumeAdds
    <3>3. Len(toServer') > Len(toServer)
      BY <3>2 DEF Adds
    <3>4. Takes /\ m.type # "gameAction" /\ variantsLoaded' = TRUE
      BY <1>1, <1>2, <1>11, <2>1, <3>1 DEF Takes, TypeOK
    <3>5. stale \/ MoveUnderWay => stale'
      BY <1>3, <3>2
    <3>6. QED
      BY <1>2, <1>3, <1>4, <3>1, <3>2, <3>3, <3>4, <3>5, ResumeStep
  <2>2. CASE ~variantsLoaded
    BY <1>6, <1>7, <1>11, <2>2 DEF InitMsg
  <2>3. QED
    BY <2>1, <2>2
<1>12. ASSUME m.type \in {"joined", "left"}, Joined \/ Left PROVE IInv'
  BY <1>6, <1>7, <1>12 DEF Joined, Left
<1>13. ASSUME m.type = "tableStart", TableStart PROVE IInv'
  <2>1. Adds(toServer, toServer', {"getGameInfo1", "tableReattend"})
    BY <1>1, <1>13, CmdType, AddsOne DEF TableStart, TypeOK
  <2>2. QED
    BY <1>6, <1>13, <2>1 DEF TableStart
<1>14. ASSUME m.type = "tableList", TableList(m) PROVE IInv'
  <2>1. Adds(toServer, toServer', {"getGameInfo1", "tableReattend"})
    BY <1>1, <1>7, <1>14, CmdType, AddsOne DEF TableList, TypeOK
  <2>2. QED
    BY <1>6, <1>14, <2>1 DEF TableList, procVars
<1>15. \/ m.type = "gameAction"     /\ GameAction(m)
       \/ m.type = "gameActionList" /\ GameActionList(m)
       \/ m.type = "noteListPlayer" /\ NoteListPlayer(m)
       \/ m.type = "init"           /\ InitMsg
       \/ m.type = "joined"         /\ Joined
       \/ m.type = "left"           /\ Left
       \/ m.type = "tableStart"     /\ TableStart
       \/ m.type = "tableList"      /\ TableList(m)
  BY <1>2 DEF HandleMsg
<1>16. QED
  BY <1>8, <1>9, <1>10, <1>11, <1>12, <1>13, <1>14, <1>15

\* The end of the download: the init handlers resume.
LEMMA LoadStep ==
  ASSUME IInv, LoadVariants, TypeOK'
  PROVE  IInv'
<1>1. TypeOK
  BY DEF IInv
<1>2. /\ up /\ ~variantsLoaded /\ variantsLoaded' = TRUE
      /\ UNCHANGED <<up, settings, timers, toBot, log, note, seated, attending>>
  BY DEF LoadVariants, serverVars
<1>3. /\ stale' = (stale \/ (MoveUnderWay /\ game' # NoGame /\ game'.log = <<>>))
      /\ OneAtATime'
      /\ overlap' \in BOOLEAN /\ (overlap => overlap') /\ stale' \in BOOLEAN /\ (stale => stale')
  BY DEF LoadVariants, Watch, OneAtATime
<1>4. CASE inits > 0
  <2>1. ResumeInits(inits) /\ inits \in Nat
    BY <1>1, <1>4 DEF LoadVariants, TypeOK
  <2>2. /\ Adds(toServer, toServer', {"getGameInfo2"}) /\ Len(toServer') = Len(toServer) + inits
        /\ game' = NewGame(settings) /\ game' # NoGame /\ game'.log = <<>>
        /\ restoredLevel' = FALSE
    BY <1>1, <2>1, ResumeAdds
  <2>3. Len(toServer') > Len(toServer)
    BY <1>4, <2>1, <2>2 DEF Adds
  <2>4. stale \/ MoveUnderWay => stale'
    BY <1>3, <2>2
  <2>5. QED
    BY <1>2, <1>3, <2>2, <2>3, <2>4, ResumeStep
<1>5. CASE ~(inits > 0)
  <2>1. UNCHANGED <<game, restoredLevel, toServer>>
    BY <1>5 DEF LoadVariants
  <2> USE DEF IInv
  <2>2. LogOdd' /\ Paired' /\ GameLoaded' /\ OddHead' /\ Fresh' /\ SettingsMatch'
    BY <1>2, <2>1 DEF LogOdd, Paired, GameLoaded, OddHead, Fresh, SettingsMatch, InProgress
  <2>3. Contiguous' /\ ListCurrent' /\ NotesAgree' /\ NotesCurrent'
    BY <1>2, <1>3, <2>1
       DEF Contiguous, Dealt, Stays, ListCurrent, NotesAgree, NotesCurrent
  <2>4. MovesOurs' /\ OneMove' /\ MoveLast' /\ TurnsOpen'
    BY <1>2, <1>3, <2>1
       DEF MovesOurs, OneMove, Sent, MoveLast, MoveUnderWay, Dealt, TurnsOpen
  <2>5. QED
    BY <1>3, <2>2, <2>3, <2>4
<1>6. QED
  BY <1>4, <1>5

\* The setTimeout callback sends a well-formed command.
LEMMA TimerTypes ==
  ASSUME TypeOK, TimerFires
  PROVE  TypeOK'
<1> DEFINE m == [type |-> "action", turn |-> Head(timers), table |-> tableID]
<1>1. timers \in Seq(Nat) /\ timers # <<>>
  BY DEF TimerFires, TypeOK
<1>2. Head(timers) \in Nat /\ Tail(timers) \in Seq(Nat)
  BY <1>1, TailPlaces
<1>3. m \in ToServer
  BY <1>2 DEF ToServer, TypeOK
<1>4. Append(toServer, m) \in Seq(ToServer)
  BY <1>3, AppendProperties DEF TypeOK
<1>5. QED
  BY <1>2, <1>4 DEF TimerFires, TypeOK, serverVars, historyVars

\* The setTimeout callback: the move changes from a timer to a command.
LEMMA TimerStep ==
  ASSUME IInv, TimerFires, TypeOK'
  PROVE  IInv'
<1> USE DEF IInv
<1> DEFINE m == [type |-> "action", turn |-> Head(timers), table |-> tableID]
<1>1. timers \in Seq(Nat) /\ timers # <<>>
  BY DEF TimerFires, TypeOK
<1>2. /\ Head(timers) = timers[1] /\ timers[1] \in Nat
      /\ Len(timers) \in Nat /\ Len(timers) >= 1 /\ Len(timers') = Len(timers) - 1
      /\ \A i \in 1 .. Len(timers') : i + 1 \in 1 .. Len(timers) /\ timers'[i] = timers[i + 1]
  BY <1>1, TailPlaces DEF TimerFires
<1>3. /\ up /\ UNCHANGED <<up, settings, game, restoredLevel, variantsLoaded, toBot, log, note,
                           attending, stale, overlap>>
      /\ toServer' = Append(toServer, m)
  BY DEF TimerFires, serverVars, historyVars
<1>4. m \in ToServer /\ m.type = "action" /\ m.turn = timers[1]
  BY <1>2 DEF ToServer, TypeOK
<1> HIDE DEF m
<1>5. /\ Len(toServer) \in Nat /\ Len(toServer') = Len(toServer) + 1
      /\ \A i \in 1 .. Len(toServer) : toServer'[i] = toServer[i]
      /\ toServer'[Len(toServer) + 1] = m
  BY <1>3, <1>4, AppendPlaces DEF TypeOK
<1>6. \A i \in 1 .. Len(toServer') :
        \/ i \in 1 .. Len(toServer) /\ toServer'[i] = toServer[i]
        \/ i = Len(toServer) + 1 /\ toServer'[i] = m
  BY <1>5
<1>7. \A i \in 1 .. Len(toServer') :
        toServer'[i].type # "action" => i \in 1 .. Len(toServer) /\ toServer'[i] = toServer[i]
  <2> SUFFICES ASSUME NEW i \in 1 .. Len(toServer'), toServer'[i].type # "action"
               PROVE  i \in 1 .. Len(toServer) /\ toServer'[i] = toServer[i]
    OBVIOUS
  <2>1. toServer'[i] # m
    BY <1>4
  <2>2. QED
    BY <1>6, <2>1
<1>8. OneAtATime'
  <2>1. Asked' \subseteq Asked /\ Answered' = Answered
    BY <1>3, <1>7 DEF Asked, Answered
  <2>2. QED
    BY <1>3, <2>1 DEF OneAtATime, OneLoad
<1>9. LogOdd' /\ Paired' /\ GameLoaded' /\ OddHead' /\ Fresh' /\ SettingsMatch'
  BY <1>3 DEF LogOdd, Paired, GameLoaded, OddHead, Fresh, SettingsMatch, InProgress
<1>10. Stays => Stays'
  BY <1>3, <1>4, <1>6 DEF Stays
<1>11. Contiguous'
  BY <1>3, <1>10 DEF Contiguous, Dealt
<1>12. ListCurrent'
  <2>1. \A i \in 1 .. Len(toServer') :
          toServer'[i].type \in {"getGameInfo2", "tableUnattend"} =>
            i \in 1 .. Len(toServer) /\ toServer'[i] = toServer[i]
    BY <1>7
  <2>2. QED
    BY <1>3, <1>10, <2>1 DEF ListCurrent
<1>13. NotesAgree'
  <2>1. \A i \in 1 .. Len(toServer') :
          toServer'[i].type = "note" => i \in 1 .. Len(toServer) /\ toServer'[i] = toServer[i]
    BY <1>7
  <2>2. QED
    BY <1>3, <2>1 DEF NotesAgree
<1>14. NotesCurrent'
  <2>1. \A i \in 1 .. Len(toServer') :
          toServer'[i].type \in {"getGameInfo2", "note"} =>
            i \in 1 .. Len(toServer) /\ toServer'[i] = toServer[i]
    BY <1>7
  <2>2. QED
    BY <1>3, <2>1 DEF NotesCurrent
<1>15. MovesOurs'
  <2>1. \A i \in 1 .. Len(timers') : OurTurn(timers'[i])
    BY <1>2 DEF MovesOurs
  <2>2. OurTurn(m.turn)
    BY <1>2, <1>4 DEF MovesOurs
  <2>3. QED
    BY <1>6, <2>1, <2>2 DEF MovesOurs
<1>16. MoveLast' /\ TurnsOpen'
  <2>1. MoveUnderWay
    BY <1>1 DEF MoveUnderWay
  <2>2. QED
    BY <1>3, <2>1 DEF MoveLast, Dealt, TurnsOpen
<1>17. OneMove'
  <2> SUFFICES ASSUME ~stale, ~overlap PROVE OneMove'
    BY <1>3 DEF OneMove
  <2>1. Len(timers) <= 1 /\ timers[1] = log /\ Sent = {}
    BY <1>1, <1>2, <1>3 DEF OneMove
  <2>2. Len(timers') = 0 /\ timers' = <<>>
    <3>1. timers' \in Seq(Nat) /\ Len(timers') = 0
      BY <1>2, <2>1 DEF TypeOK
    <3>2. QED
      BY <3>1, EmptySeq
  <2>3. \A i \in Sent' : i = Len(toServer) + 1 /\ toServer'[i] = m
    BY <1>6, <2>1 DEF Sent
  <2>4. QED
    BY <1>3, <1>4, <2>1, <2>2, <2>3 DEF OneMove
<1>18. QED
  BY <1>8, <1>9, <1>11, <1>12, <1>13, <1>14, <1>15, <1>16, <1>17

-----------------------------------------------------------------------------
(* Chat commands *)

\* handle_chat keeps the types.
LEMMA ChatTypes ==
  ASSUME TypeOK, HandleChat
  PROVE  TypeOK'
<1>1. chats' \in Nat /\ UNCHANGED <<toBot, log, note, seated, attending, crashes>>
  BY DEF HandleChat, serverVars, TypeOK
<1>2. ASSUME NEW s \in Settings, AssignSettings(s) PROVE TypeOK'
  <2>1. Built(s) \in Settings
    BY BuiltTwice DEF BuiltSettings
  <2>2. QED
    BY <1>1, <1>2, <2>1 DEF AssignSettings, TypeOK
<1>3. CASE RejectSettings
  <2>1. settings' \in Settings
    <3>1. NoLevel \in NoLevel .. MaxHLevel /\ "HGroup" \in Conventions
      BY SessionAssumption DEF NoLevel
    <3>2. [convention |-> "HGroup", level |-> NoLevel] \in Settings
      BY <3>1 DEF Settings
    <3>3. [settings EXCEPT !.level = NoLevel] \in Settings
      BY <3>1 DEF Settings, TypeOK
    <3>4. QED
      BY <1>3, <3>2, <3>3 DEF RejectSettings
  <2>2. QED
    BY <1>1, <1>3, <2>1 DEF RejectSettings, TypeOK
<1>4. CASE LeaveRoom
  <2>1. toServer' \in Seq(ToServer)
    <3>1. Cmd(IF gameStarted THEN "tableUnattend" ELSE "tableLeave") \in ToServer
      BY CmdType
    <3>2. QED
      BY <1>4, <3>1, AppendProperties DEF LeaveRoom, TypeOK
  <2>2. stale' \in BOOLEAN
    BY <1>4 DEF LeaveRoom
  <2>3. QED
    BY <1>1, <1>4, <2>1, <2>2 DEF LeaveRoom, TypeOK
<1>5. CASE Rejoin
  <2>1. toServer' \in Seq(ToServer)
    BY <1>5, CmdType, AppendProperties DEF Rejoin, TypeOK
  <2>2. QED
    BY <1>1, <1>5, <2>1 DEF Rejoin, procVars, TypeOK
<1>6. CASE Join
  <2>1. toServer' \in Seq(ToServer)
    BY <1>6, CmdType, AppendProperties DEF Join, TypeOK
  <2>2. QED
    BY <1>1, <1>6, <2>1 DEF Join, procVars, TypeOK
<1>7. QED
  BY <1>2, <1>3, <1>4, <1>5, <1>6 DEF HandleChat

\* A command about the table is added and nothing else happens.
LEMMA SendStep ==
  ASSUME IInv, TypeOK', Adds(toServer, toServer', {"tableReattend", "tableJoin"}),
         UNCHANGED <<up, settings, game, restoredLevel, variantsLoaded, timers, toBot, log, note,
                     attending, stale, overlap>>
  PROVE  IInv'
<1> USE DEF IInv
<1> DEFINE Old(i) == i \in 1 .. Len(toServer) /\ toServer'[i] = toServer[i]
<1>1. \A i \in 1 .. Len(toServer') :
        toServer'[i].type \in {"note", "action", "tableUnattend", "getGameInfo2"} => Old(i)
  BY AddsPlaces
<1>2. OneAtATime'
  <2>1. Asked' \subseteq Asked /\ Answered' = Answered
    BY <1>1 DEF Asked, Answered
  <2>2. QED
    BY <2>1 DEF OneAtATime, OneLoad
<1>3. LogOdd' /\ Paired' /\ GameLoaded' /\ OddHead' /\ Fresh' /\ SettingsMatch'
  BY DEF LogOdd, Paired, GameLoaded, OddHead, Fresh, SettingsMatch, InProgress
<1>4. Stays => Stays'
  BY <1>1 DEF Stays
<1>5. Contiguous'
  BY <1>4 DEF Contiguous, Dealt
<1>6. ListCurrent'
  <2>1. \A i \in 1 .. Len(toServer') :
          toServer'[i].type \in {"getGameInfo2", "tableUnattend"} => Old(i)
    BY <1>1
  <2>2. QED
    BY <1>4, <2>1 DEF ListCurrent
<1>7. NotesAgree'
  <2>1. \A i \in 1 .. Len(toServer') : toServer'[i].type = "note" => Old(i)
    BY <1>1
  <2>2. QED
    BY <2>1 DEF NotesAgree
<1>8. NotesCurrent'
  <2>1. \A i \in 1 .. Len(toServer') : toServer'[i].type \in {"getGameInfo2", "note"} => Old(i)
    BY <1>1
  <2>2. QED
    BY <2>1 DEF NotesCurrent
<1>9. \A i \in 1 .. Len(toServer') : toServer'[i].type = "action" => Old(i)
  BY <1>1
<1>10. MovesOurs'
  BY <1>9 DEF MovesOurs
<1>11. Sent' \subseteq Sent /\ \A i \in Sent' : toServer'[i] = toServer[i]
  BY <1>9 DEF Sent
<1>12. OneMove' /\ MoveLast' /\ TurnsOpen'
  BY <1>11 DEF OneMove, MoveLast, MoveUnderWay, Dealt, TurnsOpen
<1>13. QED
  BY <1>2, <1>3, <1>5, <1>6, <1>7, <1>8, <1>10, <1>12

\* leaveRoom: the game is gone; a move under way makes the rest stale.
LEMMA LeaveStep ==
  ASSUME IInv, TypeOK', LeaveRoom, UNCHANGED <<toBot, serverVars>>
  PROVE  IInv'
<1> USE DEF IInv
<1> DEFINE Old(i) == i \in 1 .. Len(toServer) /\ toServer'[i] = toServer[i]
<1>1. /\ game' = NoGame /\ stale' = (stale \/ MoveUnderWay)
      /\ UNCHANGED <<up, settings, restoredLevel, variantsLoaded, timers, overlap, toBot, log,
                     note, attending>>
  BY DEF LeaveRoom, serverVars
<1>2. Adds(toServer, toServer', {"tableUnattend", "tableLeave"})
  <2>1. Cmd(IF gameStarted THEN "tableUnattend" ELSE "tableLeave") \in ToServer
        /\ Cmd(IF gameStarted THEN "tableUnattend" ELSE "tableLeave").type
             \in {"tableUnattend", "tableLeave"}
    BY CmdType
  <2>2. QED
    BY <2>1, AddsOne DEF LeaveRoom, TypeOK
<1>3. \A i \in 1 .. Len(toServer') :
        toServer'[i].type \in {"note", "action", "getGameInfo2"} => Old(i)
  BY <1>2, AddsPlaces
<1>4. OneAtATime'
  <2>1. Asked' \subseteq Asked /\ Answered' = Answered
    BY <1>1, <1>3 DEF Asked, Answered
  <2>2. QED
    BY <1>1, <2>1 DEF OneAtATime, OneLoad
<1>5. LogOdd' /\ Paired' /\ GameLoaded' /\ OddHead' /\ Fresh' /\ SettingsMatch'
  BY <1>1 DEF LogOdd, Paired, GameLoaded, OddHead, Fresh, SettingsMatch, InProgress
<1>6. Contiguous' /\ ListCurrent' /\ NotesCurrent' /\ TurnsOpen'
  BY <1>1 DEF Contiguous, Dealt, ListCurrent, NotesCurrent, TurnsOpen
<1>7. NotesAgree'
  <2>1. \A i \in 1 .. Len(toServer') : toServer'[i].type = "note" => Old(i)
    BY <1>3
  <2>2. QED
    BY <1>1, <2>1 DEF NotesAgree
<1>8. \A i \in 1 .. Len(toServer') : toServer'[i].type = "action" => Old(i)
  BY <1>3
<1>9. MovesOurs'
  BY <1>1, <1>8 DEF MovesOurs
<1>10. OneMove' /\ MoveLast'
  <2> SUFFICES ASSUME ~stale' PROVE OneMove' /\ MoveLast'
    BY DEF OneMove, MoveLast
  <2>1. timers' = <<>> /\ Sent = {}
    BY <1>1 DEF MoveUnderWay
  <2>2. Sent' = {}
    BY <1>8, <2>1 DEF Sent
  <2>3. Len(timers') = 0
    BY <2>1, EmptySeq
  <2>4. QED
    BY <2>1, <2>2, <2>3 DEF OneMove, MoveLast, MoveUnderWay
<1>11. QED
  BY <1>4, <1>5, <1>6, <1>7, <1>9, <1>10

\* handle_chat
LEMMA ChatStep ==
  ASSUME IInv, HandleChat, TypeOK'
  PROVE  IInv'
<1>1. UNCHANGED <<toBot, serverVars>> /\ TypeOK
  BY DEF HandleChat, IInv
<1>2. ASSUME UNCHANGED <<up, game, restoredLevel, variantsLoaded, timers, toServer, stale, overlap>>,
             ~InProgress
      PROVE  IInv'
  <2> USE DEF IInv
  <2>1. UNCHANGED <<log, note, seated, attending, toBot>>
    BY <1>1 DEF serverVars
  <2>2. LogOdd' /\ Paired' /\ GameLoaded' /\ OddHead' /\ Fresh' /\ SettingsMatch' /\ OneAtATime'
    BY <1>2, <2>1 DEF LogOdd, Paired, GameLoaded, OddHead, Fresh, SettingsMatch, InProgress,
                      OneAtATime, OneLoad, Asked, Answered
  <2>3. Contiguous' /\ ListCurrent' /\ NotesAgree' /\ NotesCurrent'
    BY <1>2, <2>1 DEF Contiguous, Dealt, Stays, ListCurrent, NotesAgree, NotesCurrent
  <2>4. MovesOurs' /\ OneMove' /\ MoveLast' /\ TurnsOpen'
    BY <1>2, <2>1 DEF MovesOurs, OneMove, Sent, MoveLast, MoveUnderWay, Dealt, TurnsOpen
  <2>5. QED
    BY <2>2, <2>3, <2>4
<1>3. ASSUME NEW s \in Settings, AssignSettings(s) PROVE IInv'
  BY <1>2, <1>3 DEF AssignSettings
<1>4. CASE RejectSettings
  BY <1>2, <1>4 DEF RejectSettings
<1>5. CASE LeaveRoom
  BY <1>1, <1>5, LeaveStep
<1>6. ASSUME Adds(toServer, toServer', {"tableReattend", "tableJoin"}),
             UNCHANGED <<procVars, stale, overlap>>
      PROVE  IInv'
  BY <1>1, <1>6, SendStep DEF serverVars, procVars
<1>7. CASE Rejoin
  <2>1. Adds(toServer, toServer', {"tableReattend", "tableJoin"})
    BY <1>1, <1>7, CmdType, AddsOne DEF Rejoin, TypeOK
  <2>2. QED
    BY <1>6, <1>7, <2>1 DEF Rejoin
<1>8. CASE Join
  <2>1. Adds(toServer, toServer', {"tableReattend", "tableJoin"})
    BY <1>1, <1>8, CmdType, AddsOne DEF Join, TypeOK
  <2>2. QED
    BY <1>6, <1>8, <2>1 DEF Join
<1>9. QED
  BY <1>3, <1>4, <1>5, <1>7, <1>8 DEF HandleChat

-----------------------------------------------------------------------------
(* Crash and restart *)

\* A crash keeps the types.
LEMMA CrashTypes ==
  ASSUME TypeOK, Crash
  PROVE  TypeOK'
<1>1. ProcOK /\ <<>> \in Seq(ToServer)
  BY EmptySeq DEF TypeOK, ProcOK
<1>2. ProcOK'
  BY <1>1, DieTypes DEF Crash, Die
<1>3. QED
  BY <1>2 DEF Crash, serverVars, TypeOK, ProcOK

\* The process is killed: what is on its way to the server may or may not get there.
LEMMA CrashStep ==
  ASSUME IInv, Crash, TypeOK'
  PROVE  IInv'
<1>1. /\ up /\ Die /\ toBot' = <<>>
      /\ UNCHANGED <<log, note, seated, attending, stale, overlap>>
  BY DEF Crash, Die, DieSending, serverVars
<1>2. toServer \in Seq(ToServer) /\ overlap \in BOOLEAN
  BY DEF IInv, TypeOK
<1>3. PICK n \in 0 .. Len(toServer \o <<>>) : toServer' = SubSeq(toServer \o <<>>, 1, n)
  BY <1>1 DEF Die, DieSending
<1>4. toServer \o <<>> = toServer
  BY <1>2, ConcatEmptySeq
<1>5. n \in 0 .. Len(toServer) /\ toServer' = SubSeq(toServer, 1, n)
  BY <1>3, <1>4
<1>6. Len(toServer') = n /\ \A i \in 1 .. n : i \in 1 .. Len(toServer) /\ toServer'[i] = toServer[i]
  BY <1>2, <1>5, SubSeqProperties, LenProperties, ElementOfSeq
<1>7. OneAtATime'
  <2>1. Asked' \subseteq Asked
    BY <1>6 DEF Asked
  <2>2. Answered' = {}
    <3>1. Len(toBot') = 0
      BY <1>1, EmptySeq
    <3>2. QED
      BY <3>1 DEF Answered
  <2>3. QED
    BY <1>1, <2>1, <2>2 DEF IInv, OneAtATime, OneLoad
<1>8. QED
  BY <1>1, <1>2, <1>7, DiesStep

\* A new process knows of no game.
LEMMA RestartStep ==
  ASSUME IInv, Restart
  PROVE  IInv'
<1> USE DEF IInv
<1>1. Boot \in Settings
  BY SessionAssumption DEF Boot, Settings, NoLevel
<1>2. /\ up' = TRUE /\ settings' = Boot /\ game' = NoGame
      /\ tableID' = FALSE /\ gameStarted' = FALSE /\ restoredLevel' = FALSE
      /\ inits' = 0 /\ variantsLoaded' = FALSE /\ timers' = <<>>
      /\ attending' = FALSE /\ seated' \in BOOLEAN
      /\ toServer' = <<>> /\ accepted' = Boot
      /\ stale' = FALSE /\ overlap' = FALSE /\ dismissed' = FALSE
      /\ UNCHANGED <<log, note, crashes, chats>>
      /\ toServer = <<>>
  BY DEF Restart, TypeOK
<1> DEFINE m == [type |-> "tableList", seated |-> seated']
<1>3. toBot' = <<m>> /\ m \in ToBot
  BY <1>2 DEF Restart, ToBot
<1> HIDE DEF m
<1>4. toBot' \in Seq(ToBot) /\ Len(toBot') = 1 /\ toBot'[1] = m
  BY <1>3
<1>5. m.type = "tableList"
  BY DEF m
<1>6. Len(toServer') = 0 /\ Len(timers') = 0 /\ timers' \in Seq(Nat) /\ toServer' \in Seq(ToServer)
  BY <1>2, EmptySeq
<1>7. TypeOK'
  BY <1>1, <1>2, <1>4, <1>6 DEF TypeOK
<1>8. \A i \in 1 .. Len(toBot') : toBot'[i].type = "tableList"
  BY <1>4, <1>5
<1>9. LogOdd' /\ Paired' /\ GameLoaded' /\ OddHead' /\ Fresh' /\ SettingsMatch' /\ OneAtATime'
  <2>1. Asked' = {} /\ Answered' = {}
    BY <1>6, <1>8 DEF Asked, Answered
  <2>2. QED
    BY <1>2, <1>4, <1>5, <1>8, <2>1
       DEF LogOdd, Paired, GameLoaded, OddHead, Fresh, SettingsMatch, InProgress, OneAtATime, OneLoad
<1>10. Contiguous' /\ ListCurrent' /\ NotesAgree' /\ NotesCurrent' /\ TurnsOpen'
  BY <1>2, <1>6 DEF Contiguous, Dealt, ListCurrent, NotesAgree, NotesCurrent, TurnsOpen
<1>11. MovesOurs' /\ OneMove' /\ MoveLast'
  <2>1. Sent' = {}
    BY <1>6 DEF Sent
  <2>2. QED
    BY <1>2, <1>6, <2>1 DEF MovesOurs, OneMove, MoveLast, MoveUnderWay
<1>12. QED
  BY <1>7, <1>9, <1>10, <1>11

-----------------------------------------------------------------------------
(* The server *)

\* What the server sends keeps the types, the pairs and what opens the messages.
LEMMA EmitsPaired ==
  ASSUME TypeOK, Paired, NEW c \in Seq(ToBot), Emit(c),
         1 <= Len(c) /\ c[1].type = "gameAction" => c[1].entry % 2 # 1,
         \A i \in 2 .. Len(c) :
           c[i].type = "gameAction" /\ c[i].entry % 2 = 1 => c[i - 1].type = "gameAction",
         \A i \in 1 .. Len(c) :
           c[i].type = "gameActionList" => i < Len(c) /\ c[i + 1].type = "noteListPlayer"
  PROVE  /\ toBot' \in Seq(ToBot)
         /\ Len(toBot) \in Nat /\ Len(c) \in Nat /\ Len(toBot') = Len(toBot) + Len(c)
         /\ \A i \in 1 .. Len(toBot) : toBot'[i] = toBot[i]
         /\ \A i \in Len(toBot) + 1 .. Len(toBot') :
              i - Len(toBot) \in 1 .. Len(c) /\ toBot'[i] = c[i - Len(toBot)]
         /\ Paired'
         /\ OddHead /\ UNCHANGED <<up, game, variantsLoaded>> => OddHead'
<1>1. /\ toBot' \in Seq(ToBot)
      /\ Len(toBot) \in Nat /\ Len(c) \in Nat /\ Len(toBot') = Len(toBot) + Len(c)
      /\ \A i \in 1 .. Len(toBot) : toBot'[i] = toBot[i]
      /\ \A i \in Len(toBot) + 1 .. Len(toBot) + Len(c) : toBot'[i] = c[i - Len(toBot)]
  BY ConcatPlaces DEF Emit, TypeOK
<1>2. \A i \in Len(toBot) + 1 .. Len(toBot') :
        i - Len(toBot) \in 1 .. Len(c) /\ toBot'[i] = c[i - Len(toBot)]
  BY <1>1
<1>3. ASSUME NEW i \in 2 .. Len(toBot'), toBot'[i].type = "gameAction", toBot'[i].entry % 2 = 1
      PROVE  toBot'[i - 1].type = "gameAction"
  <2>1. CASE i \in 1 .. Len(toBot)
    <3>1. i \in 2 .. Len(toBot) /\ i - 1 \in 1 .. Len(toBot)
      BY <2>1
    <3>2. QED
      BY <1>1, <1>3, <2>1, <3>1 DEF Paired
  <2>2. CASE i = Len(toBot) + 1
    BY <1>1, <1>2, <1>3, <2>2
  <2>3. CASE i > Len(toBot) + 1
    <3>1. /\ i - Len(toBot) \in 2 .. Len(c) /\ toBot'[i] = c[i - Len(toBot)]
          /\ i - 1 \in Len(toBot) + 1 .. Len(toBot')
          /\ i - 1 - Len(toBot) = i - Len(toBot) - 1
      BY <1>1, <1>2, <2>3
    <3>2. toBot'[i - 1] = c[i - Len(toBot) - 1]
      BY <1>2, <3>1
    <3>3. QED
      BY <1>3, <3>1, <3>2
  <2>4. QED
    BY <1>1, <2>1, <2>2, <2>3
<1>4. ASSUME NEW i \in 1 .. Len(toBot'), toBot'[i].type = "gameActionList"
      PROVE  i < Len(toBot') /\ toBot'[i + 1].type = "noteListPlayer"
  <2>1. CASE i \in 1 .. Len(toBot)
    <3>1. i < Len(toBot) /\ toBot[i + 1].type = "noteListPlayer"
      BY <1>1, <1>4, <2>1 DEF Paired
    <3>2. i + 1 \in 1 .. Len(toBot)
      BY <1>1, <3>1
    <3>3. QED
      BY <1>1, <3>1, <3>2
  <2>2. CASE i > Len(toBot)
    <3>a. i \in Len(toBot) + 1 .. Len(toBot')
      BY <1>1, <2>2
    <3>1. i - Len(toBot) \in 1 .. Len(c) /\ toBot'[i] = c[i - Len(toBot)]
      BY <1>2, <3>a
    <3>2. i - Len(toBot) < Len(c) /\ c[i - Len(toBot) + 1].type = "noteListPlayer"
      BY <1>4, <3>1
    <3>3. /\ i + 1 \in Len(toBot) + 1 .. Len(toBot')
          /\ i + 1 - Len(toBot) = i - Len(toBot) + 1
      BY <1>1, <2>2, <3>2
    <3>4. toBot'[i + 1] = c[i - Len(toBot) + 1]
      BY <1>2, <3>3
    <3>5. QED
      BY <1>1, <3>2, <3>3, <3>4
  <2>3. QED
    BY <1>1, <2>1, <2>2
<1>5. ASSUME OddHead, UNCHANGED <<up, game, variantsLoaded>> PROVE OddHead'
  <2>1. CASE toBot # <<>>
    <3>1. 1 \in 1 .. Len(toBot)
      BY <1>1, <2>1, EmptySeq DEF TypeOK
    <3>2. QED
      BY <1>1, <1>5, <2>1, <3>1 DEF OddHead
  <2>2. CASE toBot = <<>>
    <3>1. Len(toBot) = 0
      BY <2>2, EmptySeq
    <3>2. toBot' # <<>> => 1 \in Len(toBot) + 1 .. Len(toBot')
      BY <1>1, <3>1, EmptySeq
    <3>3. 1 - Len(toBot) = 1
      BY <3>1
    <3>4. toBot' # <<>> => 1 <= Len(c) /\ toBot'[1] = c[1]
      BY <1>1, <1>2, <3>1, <3>2, <3>3
    <3>5. QED
      BY <3>4 DEF OddHead
  <2>3. QED
    BY <2>1, <2>2
<1>6. QED
  BY <1>1, <1>2, <1>3, <1>4, <1>5 DEF Paired

\* The messages that change nothing of what is said of the others.
QuietTypes == {"init", "joined", "left", "tableStart"}

\* At most one of them is sent.
LEMMA EmitsQuiet ==
  ASSUME TypeOK, Paired, NEW t \in QuietTypes, Emit(<<Cmd(t)>>)
  PROVE  /\ toBot' \in Seq(ToBot)
         /\ Len(toBot) \in Nat /\ Len(toBot') = Len(toBot) + 1
         /\ \A i \in 1 .. Len(toBot') :
              toBot'[i].type \notin QuietTypes => i \in 1 .. Len(toBot) /\ toBot'[i] = toBot[i]
         /\ Paired'
         /\ OddHead /\ UNCHANGED <<up, game, variantsLoaded>> => OddHead'
         /\ \A i \in 0 .. Len(toBot) : \A n, end :
              Follow(toBot, i, n, end) => Follow(toBot', i, n, end)
<1> DEFINE c == <<Cmd(t)>>
<1>1. c \in Seq(ToBot) /\ Len(c) = 1 /\ c[1].type = t
  BY DEF Cmd, ToBot, QuietTypes
<1>2. Emit(c)
  OBVIOUS
<1> HIDE DEF c
<1>3. \A i \in 1 .. Len(c) : c[i].type \in QuietTypes /\ c[i].type \notin {"gameAction", "gameActionList"}
  BY <1>1 DEF QuietTypes
<1>4. /\ toBot' \in Seq(ToBot)
      /\ Len(toBot) \in Nat /\ Len(c) \in Nat /\ Len(toBot') = Len(toBot) + Len(c)
      /\ \A i \in 1 .. Len(toBot) : toBot'[i] = toBot[i]
      /\ \A i \in Len(toBot) + 1 .. Len(toBot') :
           i - Len(toBot) \in 1 .. Len(c) /\ toBot'[i] = c[i - Len(toBot)]
      /\ Paired'
      /\ OddHead /\ UNCHANGED <<up, game, variantsLoaded>> => OddHead'
  <2>1. 1 <= Len(c) /\ c[1].type = "gameAction" => c[1].entry % 2 # 1
    BY <1>1, <1>3
  <2>2. \A i \in 2 .. Len(c) :
          c[i].type = "gameAction" /\ c[i].entry % 2 = 1 => c[i - 1].type = "gameAction"
    BY <1>1
  <2>3. \A i \in 1 .. Len(c) :
          c[i].type = "gameActionList" => i < Len(c) /\ c[i + 1].type = "noteListPlayer"
    BY <1>3
  <2>4. QED
    BY <1>1, <1>2, <2>1, <2>2, <2>3, EmitsPaired
<1>5. \A i \in 1 .. Len(toBot') :
        toBot'[i].type \notin QuietTypes => i \in 1 .. Len(toBot) /\ toBot'[i] = toBot[i]
  BY <1>3, <1>4
<1>6. ASSUME NEW i \in 0 .. Len(toBot), NEW n, NEW end, Follow(toBot, i, n, end)
      PROVE  Follow(toBot', i, n, end)
  <2>1. \A k \in 1 .. Len(c) : c[k].type # "gameAction"
    BY <1>3
  <2>2. QED
    BY <1>1, <1>2, <1>6, <2>1, FollowGrows DEF Emit, TypeOK
<1>7. QED
  BY <1>1, <1>4, <1>5, <1>6

\* The server takes a command.
Pops == toServer # <<>> /\ toServer' = Tail(toServer)

\* What remains is one place further on.
LEMMA PopsPlaces ==
  ASSUME TypeOK, Pops
  PROVE  /\ toServer' \in Seq(ToServer) /\ Head(toServer) = toServer[1] /\ toServer[1] \in ToServer
         /\ Len(toServer) \in Nat /\ 1 \in 1 .. Len(toServer) /\ Len(toServer') = Len(toServer) - 1
         /\ \A i \in 1 .. Len(toServer') :
              i + 1 \in 1 .. Len(toServer) /\ i + 1 > 1 /\ toServer'[i] = toServer[i + 1]
<1>1. toServer \in Seq(ToServer)
  BY DEF TypeOK
<1>2. QED
  BY <1>1, TailPlaces DEF Pops

\* The moves under way are the same ones, but for the one that is taken.
LEMMA PopsMoves ==
  ASSUME TypeOK, MovesOurs, Pops, UNCHANGED timers
  PROVE  /\ MovesOurs'
         /\ \A i \in Sent' : i + 1 \in Sent /\ toServer'[i] = toServer[i + 1]
         /\ MoveUnderWay' => MoveUnderWay
<1>1. \A i \in Sent' : i + 1 \in Sent /\ toServer'[i] = toServer[i + 1]
  BY PopsPlaces DEF Sent
<1>2. MovesOurs'
  BY PopsPlaces DEF MovesOurs
<1>3. QED
  BY <1>1, <1>2 DEF MoveUnderWay

\* What is said of the commands, and what follows when one is taken.
LEMMA PopsNotes ==
  ASSUME IInv, Pops, UNCHANGED <<game, overlap, note>>
  PROVE  NotesAgree'
<1> USE DEF IInv
<1> SUFFICES ASSUME ~overlap PROVE NotesAgree'
  BY DEF NotesAgree
<1>1. \A i \in 1 .. Len(toServer') :
        toServer'[i].type = "note" => note \in {NoNote, toServer'[i].settings}
  BY PopsPlaces DEF NotesAgree
<1>2. \A i, j \in 1 .. Len(toServer') :
        toServer'[i].type = "note" /\ toServer'[j].type = "note" =>
          toServer'[i].settings = toServer'[j].settings
  BY PopsPlaces DEF NotesAgree
<1>3. game # NoGame /\ game.queued_cmds # <<>> =>
        \A i \in 1 .. Len(toServer') :
          toServer'[i].type = "note" => toServer'[i].settings = game.settings
  BY PopsPlaces DEF NotesAgree
<1>4. QED
  BY <1>1, <1>2, <1>3 DEF NotesAgree

\* The order of two kinds of commands stays.
LEMMA PopsOrder ==
  ASSUME TypeOK, Pops, NEW s, NEW t,
         \A i, j \in 1 .. Len(toServer) : toServer[i].type = s /\ toServer[j].type = t => j < i
  PROVE  \A i, j \in 1 .. Len(toServer') : toServer'[i].type = s /\ toServer'[j].type = t => j < i
<1> SUFFICES ASSUME NEW i \in 1 .. Len(toServer'), NEW j \in 1 .. Len(toServer'),
                    toServer'[i].type = s, toServer'[j].type = t
             PROVE  j < i
  OBVIOUS
<1>1. /\ i + 1 \in 1 .. Len(toServer) /\ toServer'[i] = toServer[i + 1]
      /\ j + 1 \in 1 .. Len(toServer) /\ toServer'[j] = toServer[j + 1]
  BY PopsPlaces
<1>2. j + 1 < i + 1
  BY <1>1
<1>3. QED
  BY <1>2

\* The moves when one command is taken and the log stays.
LEMMA PopsOneMove ==
  ASSUME IInv, Pops, UNCHANGED <<up, game, timers, log, stale, overlap>>
  PROVE  MovesOurs' /\ OneMove' /\ MoveLast'
<1> USE DEF IInv
<1>1. /\ MovesOurs' /\ (MoveUnderWay' => MoveUnderWay)
      /\ \A i \in Sent' : i + 1 \in Sent /\ toServer'[i] = toServer[i + 1]
  BY PopsMoves
<1>2. MoveLast'
  BY <1>1 DEF MoveLast, Dealt
<1>3. OneMove'
  <2> SUFFICES ASSUME up, ~stale, ~overlap PROVE OneMove'
    BY DEF OneMove
  <2>1. ASSUME NEW i \in Sent', NEW j \in Sent'
        PROVE  i = j /\ toServer'[i].turn = log'
    <3>1. i + 1 \in Sent /\ j + 1 \in Sent /\ toServer'[i] = toServer[i + 1]
      BY <1>1
    <3>2. i + 1 = j + 1 /\ toServer[i + 1].turn = log
      BY <3>1 DEF OneMove
    <3>3. i \in Int /\ j \in Int
      BY PopsPlaces DEF Sent
    <3>4. QED
      BY <3>1, <3>2, <3>3
  <2>2. Sent = {} => Sent' = {}
    BY <1>1
  <2>3. QED
    BY <2>1, <2>2 DEF OneMove
<1>4. QED
  BY <1>1, <1>2, <1>3

\* A command taken that changes nothing, or attending at most, and is answered quietly.
LEMMA QuietServe ==
  ASSUME IInv, TypeOK', Pops,
         UNCHANGED <<procVars, historyVars, log, note>>,
         \/ UNCHANGED toBot
         \/ \E t \in QuietTypes : Emit(<<Cmd(t)>>),
         \/ attending' = attending
         \/ attending' = TRUE /\ log > 0
         \/ attending' = FALSE /\ toServer[1].type = "tableUnattend"
  PROVE  IInv'
<1> USE DEF IInv
<1>0. UNCHANGED <<up, settings, game, restoredLevel, variantsLoaded, timers, stale, overlap>>
  BY DEF procVars, historyVars
<1>1. /\ Len(toBot) \in Nat /\ Len(toBot) <= Len(toBot')
      /\ \A i \in 1 .. Len(toBot') :
           toBot'[i].type \notin QuietTypes => i \in 1 .. Len(toBot) /\ toBot'[i] = toBot[i]
      /\ Paired' /\ OddHead'
      /\ \A i \in 0 .. Len(toBot) : \A n, end :
           Follow(toBot, i, n, end) => Follow(toBot', i, n, end)
  <2>1. CASE UNCHANGED toBot
    <3>1. Paired' /\ OddHead'
      BY <1>0, <2>1 DEF Paired, OddHead
    <3>2. Len(toBot) \in Nat
      BY LenProperties DEF TypeOK
    <3>3. QED
      BY <2>1, <3>1, <3>2
  <2>2. CASE \E t \in QuietTypes : Emit(<<Cmd(t)>>)
    <3>1. PICK t \in QuietTypes : Emit(<<Cmd(t)>>)
      BY <2>2
    <3>2. QED
      BY <1>0, <3>1, EmitsQuiet
  <2>3. QED
    BY <2>1, <2>2
<1>2. \A i \in 1 .. Len(toBot') :
        toBot'[i].type \in {"gameActionList", "noteListPlayer"} =>
          i \in 1 .. Len(toBot) /\ toBot'[i] = toBot[i]
  BY <1>1 DEF QuietTypes
<1>3. LogOdd' /\ GameLoaded' /\ Fresh' /\ SettingsMatch'
  BY <1>0 DEF LogOdd, GameLoaded, Fresh, SettingsMatch, InProgress
<1>4. Stays => Stays'
  <2>1. Stays => toServer[1].type # "tableUnattend"
    BY PopsPlaces DEF Stays
  <2>2. QED
    BY <2>1, PopsPlaces DEF Stays
<1>5. OneAtATime'
  <2> SUFFICES ASSUME ~overlap PROVE OneLoad'
    BY <1>0 DEF OneAtATime
  <2>1. \A i \in Asked' : i \in Nat /\ i + 1 \in Asked
    BY PopsPlaces DEF Asked
  <2>2. Answered' \subseteq Answered
    BY <1>2 DEF Answered
  <2>3. ASSUME NEW i \in Asked', NEW j \in Asked' PROVE i = j
    <3>1. i + 1 = j + 1 /\ i \in Nat /\ j \in Nat
      BY <2>1 DEF OneAtATime, OneLoad
    <3>2. QED
      BY <3>1
  <2>4. QED
    BY <2>1, <2>2, <2>3 DEF OneAtATime, OneLoad
<1>6. Contiguous'
  <2>1. 0 \in 0 .. Len(toBot)
    BY <1>1
  <2>2. QED
    BY <1>0, <1>1, <1>4, <2>1 DEF Contiguous, Dealt
<1>7. ListCurrent'
  <2> SUFFICES ASSUME up, ~overlap, game # NoGame PROVE ListCurrent'
    BY <1>0 DEF ListCurrent
  <2>1. ASSUME NEW i \in 1 .. Len(toBot'), toBot'[i].type = "gameActionList"
        PROVE  Stays' /\ toBot'[i].length > 0 /\ Follow(toBot', i, toBot'[i].length, log')
    <3>1. i \in 1 .. Len(toBot) /\ toBot'[i] = toBot[i]
      BY <1>2, <2>1
    <3>2. Stays /\ toBot[i].length > 0 /\ Follow(toBot, i, toBot[i].length, log)
      BY <2>1, <3>1 DEF ListCurrent
    <3>3. i \in 0 .. Len(toBot)
      BY <3>1
    <3>4. QED
      BY <1>1, <1>4, <3>1, <3>2, <3>3
  <2>2. \A i, j \in 1 .. Len(toServer') :
          toServer'[i].type = "getGameInfo2" /\ toServer'[j].type = "tableUnattend" => j < i
    BY PopsOrder DEF ListCurrent
  <2>3. QED
    BY <2>1, <2>2 DEF ListCurrent
<1>8. NotesAgree'
  BY <1>0, PopsNotes
<1>9. NotesCurrent'
  <2> SUFFICES ASSUME up, ~overlap, game # NoGame, ~restoredLevel PROVE NotesCurrent'
    BY <1>0 DEF NotesCurrent
  <2>1. ASSUME NEW i \in 1 .. Len(toBot'), toBot'[i].type = "noteListPlayer"
        PROVE  /\ toBot'[i].note = note'
               /\ \A j \in 1 .. Len(toServer') : toServer'[j].type # "note"
    <3>1. i \in 1 .. Len(toBot) /\ toBot'[i] = toBot[i]
      BY <1>2, <2>1
    <3>2. toBot[i].note = note /\ \A j \in 1 .. Len(toServer) : toServer[j].type # "note"
      BY <2>1, <3>1 DEF NotesCurrent
    <3>3. QED
      BY <3>1, <3>2, PopsPlaces
  <2>2. \A i, j \in 1 .. Len(toServer') :
          toServer'[i].type = "getGameInfo2" /\ toServer'[j].type = "note" => j < i
    BY PopsOrder DEF NotesCurrent
  <2>3. QED
    BY <2>1, <2>2 DEF NotesCurrent
<1>10. MovesOurs' /\ OneMove' /\ MoveLast'
  BY <1>0, PopsOneMove
<1>11. TurnsOpen'
  BY <1>0, <1>2 DEF TurnsOpen
<1>12. QED
  BY <1>1, <1>3, <1>5, <1>6, <1>7, <1>8, <1>9, <1>10, <1>11

\* The server writes a note down.
LEMMA NoteServe ==
  ASSUME IInv, TypeOK', Pops, toServer[1].type = "note", note' = toServer[1].settings,
         UNCHANGED <<procVars, historyVars, toBot, log, attending>>
  PROVE  IInv'
<1> USE DEF IInv
<1>0. UNCHANGED <<up, settings, game, restoredLevel, variantsLoaded, timers, stale, overlap>>
  BY DEF procVars, historyVars
<1>1. LogOdd' /\ Paired' /\ GameLoaded' /\ OddHead' /\ Fresh' /\ SettingsMatch'
  BY <1>0 DEF LogOdd, Paired, GameLoaded, OddHead, Fresh, SettingsMatch, InProgress
<1>2. Stays => Stays'
  BY PopsPlaces DEF Stays
<1>3. OneAtATime'
  <2> SUFFICES ASSUME ~overlap PROVE OneLoad'
    BY <1>0 DEF OneAtATime
  <2>1. \A i \in Asked' : i \in Nat /\ i + 1 \in Asked
    BY PopsPlaces DEF Asked
  <2>2. Answered' = Answered
    BY DEF Answered
  <2>3. ASSUME NEW i \in Asked', NEW j \in Asked' PROVE i = j
    <3>1. i + 1 = j + 1 /\ i \in Nat /\ j \in Nat
      BY <2>1 DEF OneAtATime, OneLoad
    <3>2. QED
      BY <3>1
  <2>4. QED
    BY <2>1, <2>2, <2>3 DEF OneAtATime, OneLoad
<1>4. Contiguous'
  BY <1>0, <1>2 DEF Contiguous, Dealt
<1>5. ListCurrent'
  <2> SUFFICES ASSUME up, ~overlap, game # NoGame PROVE ListCurrent'
    BY <1>0 DEF ListCurrent
  <2>1. \A i, j \in 1 .. Len(toServer') :
          toServer'[i].type = "getGameInfo2" /\ toServer'[j].type = "tableUnattend" => j < i
    BY PopsOrder DEF ListCurrent
  <2>2. QED
    BY <1>0, <1>2, <2>1 DEF ListCurrent
<1>6. NotesAgree'
  <2> SUFFICES ASSUME ~overlap PROVE NotesAgree'
    BY <1>0 DEF NotesAgree
  <2>1. 1 \in 1 .. Len(toServer)
    BY PopsPlaces
  <2>2. \A i \in 1 .. Len(toServer') : toServer'[i].type = "note" => toServer'[i].settings = note'
    <3> SUFFICES ASSUME NEW i \in 1 .. Len(toServer'), toServer'[i].type = "note"
                 PROVE  toServer'[i].settings = note'
      OBVIOUS
    <3>1. i + 1 \in 1 .. Len(toServer) /\ toServer'[i] = toServer[i + 1]
      BY PopsPlaces
    <3>2. QED
      BY <2>1, <3>1 DEF NotesAgree
  <2>3. game # NoGame /\ game.queued_cmds # <<>> => game.settings = note'
    BY <2>1 DEF NotesAgree
  <2>4. game # NoGame /\ game.queued_cmds # <<>> =>
          \A i \in 1 .. Len(game.queued_cmds) : game.queued_cmds[i].settings = game.settings
    BY DEF NotesAgree
  <2>5. QED
    BY <1>0, <2>2, <2>3, <2>4 DEF NotesAgree
<1>7. NotesCurrent'
  <2> SUFFICES ASSUME up, ~overlap, game # NoGame, ~restoredLevel PROVE NotesCurrent'
    BY <1>0 DEF NotesCurrent
  <2>1. \A i \in 1 .. Len(toBot) : toBot[i].type # "noteListPlayer"
    BY PopsPlaces DEF NotesCurrent
  <2>2. \A i, j \in 1 .. Len(toServer') :
          toServer'[i].type = "getGameInfo2" /\ toServer'[j].type = "note" => j < i
    BY PopsOrder DEF NotesCurrent
  <2>3. QED
    BY <2>1, <2>2 DEF NotesCurrent
<1>8. MovesOurs' /\ OneMove' /\ MoveLast'
  BY <1>0, PopsOneMove
<1>9. TurnsOpen'
  BY <1>0 DEF TurnsOpen
<1>10. QED
  BY <1>1, <1>3, <1>4, <1>5, <1>6, <1>7, <1>8, <1>9

\* The answer of the server to a request for the game.
Load == <<[type |-> "gameActionList", length |-> log], [type |-> "noteListPlayer", note |-> note]>>

\* The notes it answers with are those it has, and none is on its way to it.
LEMMA LoadServe ==
  ASSUME IInv, TypeOK', Pops, toServer[1].type = "getGameInfo2", attending, Emit(Load),
         UNCHANGED <<procVars, historyVars, log, note, attending>>
  PROVE  IInv'
<1> USE DEF IInv
<1>0. UNCHANGED <<up, settings, game, restoredLevel, variantsLoaded, timers, stale, overlap>>
  BY DEF procVars, historyVars
<1>1. /\ Load \in Seq(ToBot) /\ Len(Load) = 2
      /\ Load[1] = [type |-> "gameActionList", length |-> log]
      /\ Load[2] = [type |-> "noteListPlayer", note |-> note]
  BY DEF Load, ToBot, TypeOK
<1>2. Load[1].type = "gameActionList" /\ Load[2].type = "noteListPlayer"
      /\ Load[1].length = log /\ Load[2].note = note
  BY <1>1
<1>3. /\ Len(toBot) \in Nat /\ Len(toBot') = Len(toBot) + 2
      /\ \A i \in 1 .. Len(toBot) : toBot'[i] = toBot[i]
      /\ toBot'[Len(toBot) + 1] = Load[1] /\ toBot'[Len(toBot) + 2] = Load[2]
      /\ Paired' /\ OddHead'
  <2>1. /\ Len(toBot) \in Nat /\ Len(toBot') = Len(toBot) + Len(Load)
        /\ \A i \in 1 .. Len(toBot) : toBot'[i] = toBot[i]
        /\ \A i \in Len(toBot) + 1 .. Len(toBot') :
             i - Len(toBot) \in 1 .. Len(Load) /\ toBot'[i] = Load[i - Len(toBot)]
        /\ Paired'
        /\ OddHead /\ UNCHANGED <<up, game, variantsLoaded>> => OddHead'
    <3>1. \A i \in 1 .. Len(Load) : i = 1 \/ i = 2
      BY <1>1
    <3>2. 1 <= Len(Load) /\ Load[1].type = "gameAction" => Load[1].entry % 2 # 1
      BY <1>2
    <3>3. \A i \in 2 .. Len(Load) :
            Load[i].type = "gameAction" /\ Load[i].entry % 2 = 1 => Load[i - 1].type = "gameAction"
      BY <1>1, <1>2
    <3>4. \A i \in 1 .. Len(Load) :
            Load[i].type = "gameActionList" => i < Len(Load) /\ Load[i + 1].type = "noteListPlayer"
      BY <1>1, <1>2, <3>1
    <3>5. QED
      BY <1>1, <3>2, <3>3, <3>4, EmitsPaired
  <2>2. /\ Len(toBot) + 1 \in Len(toBot) + 1 .. Len(toBot') /\ Len(toBot) + 1 - Len(toBot) = 1
        /\ Len(toBot) + 2 \in Len(toBot) + 1 .. Len(toBot') /\ Len(toBot) + 2 - Len(toBot) = 2
    BY <1>1, <2>1
  <2>3. toBot'[Len(toBot) + 1] = Load[1] /\ toBot'[Len(toBot) + 2] = Load[2]
    <3>1. /\ toBot'[Len(toBot) + 1] = Load[Len(toBot) + 1 - Len(toBot)]
          /\ toBot'[Len(toBot) + 2] = Load[Len(toBot) + 2 - Len(toBot)]
      BY <2>1, <2>2
    <3>2. QED
      BY <2>2, <3>1
  <2>4. QED
    BY <1>0, <1>1, <2>1, <2>3
<1>4. \A i \in 1 .. Len(toBot') :
        \/ i \in 1 .. Len(toBot) /\ toBot'[i] = toBot[i]
        \/ i = Len(toBot) + 1 /\ toBot'[i] = Load[1]
        \/ i = Len(toBot) + 2 /\ toBot'[i] = Load[2]
  BY <1>3
<1>5. LogOdd' /\ GameLoaded' /\ Fresh' /\ SettingsMatch' /\ log > 0
  BY <1>0 DEF LogOdd, GameLoaded, Fresh, SettingsMatch, InProgress
<1>6. Stays => Stays'
  BY PopsPlaces DEF Stays
<1>7. ASSUME NEW i \in 0 .. Len(toBot), NEW n, Follow(toBot, i, n, log)
      PROVE  Follow(toBot', i, n, log)
  <2>1. \A k \in 1 .. Len(Load) : Load[k].type # "gameAction"
    <3>1. \A k \in 1 .. Len(Load) : k = 1 \/ k = 2
      BY <1>1
    <3>2. QED
      BY <1>2, <3>1
  <2>2. QED
    BY <1>1, <1>7, <2>1, FollowGrows DEF Emit, TypeOK
<1>8. OneAtATime'
  <2> SUFFICES ASSUME ~overlap PROVE OneLoad'
    BY <1>0 DEF OneAtATime
  <2>1. 1 \in Asked
    BY PopsPlaces DEF Asked
  <2>2. Answered = {} /\ \A i \in Asked : i = 1
    BY <2>1 DEF OneAtATime, OneLoad
  <2>3. Asked' = {}
    <3>1. \A i \in Asked' : i + 1 \in Asked /\ i + 1 > 1
      BY PopsPlaces DEF Asked
    <3>2. QED
      BY <2>2, <3>1
  <2>4. \A i \in Answered' : i = Len(toBot) + 2
    BY <1>2, <1>4, <2>2 DEF Answered
  <2>5. QED
    BY <2>3, <2>4 DEF OneLoad
<1>9. Contiguous'
  <2>1. 0 \in 0 .. Len(toBot)
    BY <1>3
  <2>2. QED
    BY <1>0, <1>6, <1>7, <2>1 DEF Contiguous, Dealt
<1>10. ListCurrent'
  <2> SUFFICES ASSUME up, ~overlap, game # NoGame PROVE ListCurrent'
    BY <1>0 DEF ListCurrent
  <2>1. Stays
    <3>1. \A j \in 1 .. Len(toServer) : toServer[j].type = "tableUnattend" => j < 1
      BY PopsPlaces DEF ListCurrent
    <3>2. QED
      BY <3>1 DEF Stays
  <2>2. ASSUME NEW i \in 1 .. Len(toBot'), toBot'[i].type = "gameActionList"
        PROVE  Stays' /\ toBot'[i].length > 0 /\ Follow(toBot', i, toBot'[i].length, log')
    <3>1. CASE i \in 1 .. Len(toBot) /\ toBot'[i] = toBot[i]
      <4>1. toBot[i].length > 0 /\ Follow(toBot, i, toBot[i].length, log)
        BY <2>2, <3>1 DEF ListCurrent
      <4>2. i \in 0 .. Len(toBot)
        BY <3>1
      <4>3. QED
        BY <1>6, <1>7, <2>1, <3>1, <4>1, <4>2
    <3>2. CASE i = Len(toBot) + 1 /\ toBot'[i] = Load[1]
      <4>1. \A j \in i + 1 .. Len(toBot') : toBot'[j].type # "gameAction"
        <5>1. \A j \in i + 1 .. Len(toBot') : j = Len(toBot) + 2
          BY <1>3, <3>2
        <5>2. QED
          BY <1>2, <1>3, <5>1
      <4>2. \A e \in log + 1 .. log : FALSE
        BY DEF TypeOK
      <4>3. log <= log
        BY DEF TypeOK
      <4>4. Follow(toBot', i, log, log)
        BY <4>1, <4>2, <4>3 DEF Follow
      <4>5. QED
        BY <1>2, <1>5, <1>6, <2>1, <3>2, <4>4
    <3>3. CASE i = Len(toBot) + 2 /\ toBot'[i] = Load[2]
      BY <1>2, <2>2, <3>3
    <3>4. QED
      BY <1>4, <3>1, <3>2, <3>3
  <2>3. \A i, j \in 1 .. Len(toServer') :
          toServer'[i].type = "getGameInfo2" /\ toServer'[j].type = "tableUnattend" => j < i
    BY PopsOrder DEF ListCurrent
  <2>4. QED
    BY <2>2, <2>3 DEF ListCurrent
<1>11. NotesAgree'
  BY <1>0, PopsNotes
<1>12. NotesCurrent'
  <2> SUFFICES ASSUME up, ~overlap, game # NoGame, ~restoredLevel PROVE NotesCurrent'
    BY <1>0 DEF NotesCurrent
  <2>1. \A j \in 1 .. Len(toServer) : toServer[j].type # "note"
    <3>1. \A j \in 1 .. Len(toServer) : toServer[j].type = "note" => j < 1
      BY PopsPlaces DEF NotesCurrent
    <3>2. QED
      BY <3>1
  <2>2. \A j \in 1 .. Len(toServer') : toServer'[j].type # "note"
    BY <2>1, PopsPlaces
  <2>3. \A i \in 1 .. Len(toBot') : toBot'[i].type = "noteListPlayer" => toBot'[i].note = note
    BY <1>2, <1>4 DEF NotesCurrent
  <2>4. QED
    BY <2>2, <2>3 DEF NotesCurrent
<1>13. MovesOurs' /\ OneMove' /\ MoveLast'
  BY <1>0, PopsOneMove
<1>14. TurnsOpen'
  <2> SUFFICES ASSUME up, ~stale, ~overlap, game # NoGame PROVE TurnsOpen'
    BY <1>0 DEF TurnsOpen
  <2>1. CASE game.log # <<>>
    BY <1>0, <2>1 DEF TurnsOpen
  <2>2. CASE game.log = <<>>
    <3>1. \A i \in 1 .. Len(toBot') :
            toBot'[i].type = "gameActionList" => \A k \in toBot'[i].length .. log - 1 : ~OurTurn(k)
      <4> SUFFICES ASSUME NEW i \in 1 .. Len(toBot'), toBot'[i].type = "gameActionList",
                          NEW k \in toBot'[i].length .. log - 1
                   PROVE  ~OurTurn(k)
        OBVIOUS
      <4>1. CASE i \in 1 .. Len(toBot) /\ toBot'[i] = toBot[i]
        BY <2>2, <4>1 DEF TurnsOpen
      <4>2. CASE toBot'[i] = Load[1]
        BY <1>2, <4>2 DEF TypeOK
      <4>3. CASE toBot'[i] = Load[2]
        BY <1>2, <4>3
      <4>4. QED
        BY <1>4, <4>1, <4>2, <4>3
    <3>2. QED
      BY <1>0, <2>2, <3>1 DEF TurnsOpen
  <2>3. QED
    BY <2>1, <2>2
<1>15. QED
  BY <1>3, <1>5, <1>8, <1>9, <1>10, <1>11, <1>12, <1>13, <1>14

\* The table plays on: a turn of another player, or the move of the bot that is taken.
LEMMA AdvanceStep ==
  ASSUME IInv, TypeOK', Advance, log % 2 = 1,
         UNCHANGED <<procVars, historyVars, note, attending>>,
         \/ toServer' = toServer /\ ~OurTurn(log)
         \/ Pops /\ toServer[1].type = "action" /\ OurTurn(log)
  PROVE  IInv'
<1> USE DEF IInv
<1>0. UNCHANGED <<up, settings, game, restoredLevel, variantsLoaded, timers, stale, overlap>>
  BY DEF procVars, historyVars
<1> DEFINE c == IF attending THEN TwoActions(log) ELSE <<>>
<1>1. /\ log \in Nat /\ log' = log + 2 /\ Emit(c) /\ c \in Seq(ToBot)
      /\ (log + 1) % 2 = 0 /\ (log + 2) % 2 = 1
  <2>1. TwoActions(log) \in Seq(ToBot) /\ <<>> \in Seq(ToBot) /\ log \in Nat
    BY EmptySeq DEF TwoActions, ToBot, TypeOK
  <2>2. log' = log + 2 /\ Emit(c)
    BY DEF Advance, TwoActions
  <2>3. QED
    BY <2>1, <2>2
<1>2. /\ attending => /\ Len(c) = 2
                      /\ c[1] = [type |-> "gameAction", entry |-> log + 1]
                      /\ c[2] = [type |-> "gameAction", entry |-> log + 2]
      /\ ~attending => Len(c) = 0
  BY EmptySeq DEF TwoActions
<1> HIDE DEF c
<1>3. \A i \in 1 .. Len(c) : attending /\ (i = 1 \/ i = 2) /\ c[i].type = "gameAction"
  <2>1. CASE attending
    <3>1. \A i \in 1 .. Len(c) : i = 1 \/ i = 2
      <4>1. Len(c) = 2
        BY <1>2, <2>1
      <4>2. QED
        BY <4>1
    <3>2. QED
      BY <1>2, <2>1, <3>1
  <2>2. CASE ~attending
    BY <1>2, <2>2
  <2>3. QED
    BY <2>1, <2>2
<1>4. /\ Len(toBot) \in Nat /\ Len(c) \in Nat /\ Len(toBot') = Len(toBot) + Len(c)
      /\ \A i \in 1 .. Len(toBot) : toBot'[i] = toBot[i]
      /\ \A i \in Len(toBot) + 1 .. Len(toBot') :
           i - Len(toBot) \in 1 .. Len(c) /\ toBot'[i] = c[i - Len(toBot)]
      /\ Paired' /\ OddHead'
  <2>1. 1 <= Len(c) /\ c[1].type = "gameAction" => c[1].entry % 2 # 1
    BY <1>1, <1>2
  <2>2. \A i \in 2 .. Len(c) :
          c[i].type = "gameAction" /\ c[i].entry % 2 = 1 => c[i - 1].type = "gameAction"
    BY <1>2, <1>3
  <2>3. \A i \in 1 .. Len(c) :
          c[i].type = "gameActionList" => i < Len(c) /\ c[i + 1].type = "noteListPlayer"
    BY <1>3
  <2>4. QED
    BY <1>0, <1>1, <2>1, <2>2, <2>3, EmitsPaired
<1>5. \A i \in 1 .. Len(toBot') :
        toBot'[i].type # "gameAction" => i \in 1 .. Len(toBot) /\ toBot'[i] = toBot[i]
  BY <1>3, <1>4
<1>6. ASSUME NEW i \in 0 .. Len(toBot), NEW n \in Nat, attending, Follow(toBot, i, n, log)
      PROVE  Follow(toBot', i, n, log')
  BY <1>1, <1>6, FollowAdvances DEF Emit, c, TypeOK
<1>7. \A i \in 1 .. Len(toServer') :
        toServer'[i].type # "action" =>
          \E j \in 1 .. Len(toServer) : toServer'[i] = toServer[j]
  <2>1. CASE toServer' = toServer
    BY <2>1
  <2>2. CASE Pops
    BY <2>2, PopsPlaces
  <2>3. QED
    BY <2>1, <2>2
<1>8. \A s, t : (\A i, j \in 1 .. Len(toServer) : toServer[i].type = s /\ toServer[j].type = t => j < i)
              => \A i, j \in 1 .. Len(toServer') : toServer'[i].type = s /\ toServer'[j].type = t => j < i
  <2>1. CASE toServer' = toServer
    BY <2>1
  <2>2. CASE Pops
    BY <2>2, PopsOrder
  <2>3. QED
    BY <2>1, <2>2
<1>9. LogOdd' /\ GameLoaded' /\ Fresh' /\ SettingsMatch'
  BY <1>0, <1>1 DEF LogOdd, GameLoaded, Fresh, SettingsMatch, InProgress
<1>10. Stays => Stays'
  <2>1. CASE toServer' = toServer
    BY <2>1 DEF Stays
  <2>2. CASE Pops
    BY <2>2, PopsPlaces DEF Stays
  <2>3. QED
    BY <2>1, <2>2
<1>11. OneAtATime'
  <2> SUFFICES ASSUME ~overlap PROVE OneLoad'
    BY <1>0 DEF OneAtATime
  <2>1. Answered' \subseteq Answered
    BY <1>5 DEF Answered
  <2>2. CASE toServer' = toServer
    <3>1. Asked' = Asked
      BY <2>2 DEF Asked
    <3>2. QED
      BY <2>1, <3>1 DEF OneAtATime, OneLoad
  <2>3. CASE Pops
    <3>1. \A i \in Asked' : i \in Nat /\ i + 1 \in Asked
      BY <2>3, PopsPlaces DEF Asked
    <3>2. ASSUME NEW i \in Asked', NEW j \in Asked' PROVE i = j
      <4>1. i + 1 = j + 1 /\ i \in Nat /\ j \in Nat
        BY <3>1 DEF OneAtATime, OneLoad
      <4>2. QED
        BY <4>1
    <3>3. QED
      BY <2>1, <3>1, <3>2 DEF OneAtATime, OneLoad
  <2>4. QED
    BY <2>2, <2>3
<1>12. Contiguous'
  <2> SUFFICES ASSUME ~overlap, game # NoGame PROVE Contiguous'
    BY <1>0 DEF Contiguous, Dealt
  <2>1. Len(game.log) \in Nat
    BY LenProperties DEF TypeOK, Game
  <2>2. game.log = Entries(Len(game.log)) /\ Len(game.log) <= log'
    BY <1>1, <2>1 DEF Contiguous
  <2>3. ASSUME up, Dealt PROVE Stays' /\ Follow(toBot', 0, Len(game.log), log')
    <3>1. Stays /\ Follow(toBot, 0, Len(game.log), log)
      BY <2>3 DEF Contiguous
    <3>2. 0 \in 0 .. Len(toBot)
      BY <1>4
    <3>3. attending
      BY <3>1 DEF Stays
    <3>4. QED
      BY <1>6, <1>10, <2>1, <3>1, <3>2, <3>3
  <2>4. QED
    BY <1>0, <2>2, <2>3 DEF Contiguous, Dealt
<1>13. ListCurrent'
  <2> SUFFICES ASSUME up, ~overlap, game # NoGame PROVE ListCurrent'
    BY <1>0 DEF ListCurrent
  <2>1. ASSUME NEW i \in 1 .. Len(toBot'), toBot'[i].type = "gameActionList"
        PROVE  Stays' /\ toBot'[i].length > 0 /\ Follow(toBot', i, toBot'[i].length, log')
    <3>1. i \in 1 .. Len(toBot) /\ toBot'[i] = toBot[i]
      BY <1>5, <2>1
    <3>2. Stays /\ toBot[i].length > 0 /\ Follow(toBot, i, toBot[i].length, log)
      BY <2>1, <3>1 DEF ListCurrent
    <3>3. i \in 0 .. Len(toBot) /\ attending
      BY <3>1, <3>2 DEF Stays
    <3>4. toBot[i].length \in Nat
      <4>1. toBot[i] \in ToBot
        BY <3>1, ElementOfSeq DEF TypeOK
      <4>2. QED
        BY <2>1, <3>1, <4>1 DEF ToBot
    <3>5. QED
      BY <1>6, <1>10, <3>1, <3>2, <3>3, <3>4
  <2>2. \A i, j \in 1 .. Len(toServer') :
          toServer'[i].type = "getGameInfo2" /\ toServer'[j].type = "tableUnattend" => j < i
    BY <1>8 DEF ListCurrent
  <2>3. QED
    BY <2>1, <2>2 DEF ListCurrent
<1>14. NotesAgree'
  <2>1. CASE toServer' = toServer
    BY <1>0, <2>1 DEF NotesAgree
  <2>2. CASE Pops
    BY <1>0, <2>2, PopsNotes
  <2>3. QED
    BY <2>1, <2>2
<1>15. NotesCurrent'
  <2> SUFFICES ASSUME up, ~overlap, game # NoGame, ~restoredLevel PROVE NotesCurrent'
    BY <1>0 DEF NotesCurrent
  <2>1. \A i \in 1 .. Len(toBot') :
          toBot'[i].type = "noteListPlayer" =>
            /\ toBot'[i].note = note'
            /\ \A j \in 1 .. Len(toServer') : toServer'[j].type # "note"
    <3> SUFFICES ASSUME NEW i \in 1 .. Len(toBot'), toBot'[i].type = "noteListPlayer"
                 PROVE  /\ toBot'[i].note = note'
                        /\ \A j \in 1 .. Len(toServer') : toServer'[j].type # "note"
      OBVIOUS
    <3>1. i \in 1 .. Len(toBot) /\ toBot'[i] = toBot[i]
      BY <1>5
    <3>2. toBot[i].note = note /\ \A j \in 1 .. Len(toServer) : toServer[j].type # "note"
      BY <3>1 DEF NotesCurrent
    <3>3. QED
      BY <1>7, <3>1, <3>2
  <2>2. \A i, j \in 1 .. Len(toServer') :
          toServer'[i].type = "getGameInfo2" /\ toServer'[j].type = "note" => j < i
    BY <1>8 DEF NotesCurrent
  <2>3. QED
    BY <2>1, <2>2 DEF NotesCurrent
<1>16. MovesOurs'
  <2>1. CASE toServer' = toServer
    BY <1>0, <2>1 DEF MovesOurs
  <2>2. CASE Pops
    BY <1>0, <2>2, PopsMoves
  <2>3. QED
    BY <2>1, <2>2
<1>17. ASSUME up, ~stale, ~overlap
       PROVE  /\ OurTurn(log) => Dealt /\ Len(game.log) = log
              /\ timers = <<>> /\ Sent' = {}
  <2>1. CASE toServer' = toServer /\ ~OurTurn(log)
    <3>1. \A i \in 1 .. Len(timers) : FALSE
      BY <1>17, <2>1 DEF OneMove, MovesOurs
    <3>2. timers = <<>>
      <4>1. timers \in Seq(Nat) /\ Len(timers) \in Nat
        BY LenProperties DEF TypeOK
      <4>2. Len(timers) = 0
        BY <3>1, <4>1
      <4>3. QED
        BY <4>1, <4>2, EmptySeq
    <3>3. Sent = {}
      BY <1>17, <2>1 DEF OneMove, MovesOurs, Sent
    <3>4. QED
      BY <2>1, <3>2, <3>3 DEF Sent
  <2>2. CASE Pops /\ toServer[1].type = "action" /\ OurTurn(log)
    <3>1. 1 \in Sent
      BY <2>2, PopsPlaces DEF Sent
    <3>2. Dealt /\ Len(game.log) = log
      BY <1>17, <3>1 DEF MoveLast, MoveUnderWay
    <3>3. timers = <<>> /\ \A i \in Sent : i = 1
      BY <1>17, <3>1 DEF OneMove
    <3>4. Sent' = {}
      <4> SUFFICES ASSUME NEW i \in Sent' PROVE FALSE
        OBVIOUS
      <4>1. i + 1 \in Sent /\ i + 1 > 1
        BY <2>2, PopsPlaces DEF Sent
      <4>2. QED
        BY <3>3, <4>1
    <3>5. QED
      BY <3>2, <3>3, <3>4
  <2>3. QED
    BY <2>1, <2>2
<1>18. OneMove' /\ MoveLast'
  <2> SUFFICES ASSUME up, ~stale, ~overlap PROVE OneMove' /\ MoveLast'
    BY <1>0 DEF OneMove, MoveLast
  <2>1. timers' = <<>> /\ Sent' = {} /\ Len(timers') = 0
    BY <1>0, <1>17, EmptySeq
  <2>2. QED
    BY <2>1 DEF OneMove, MoveLast, MoveUnderWay
<1>19. TurnsOpen'
  <2> SUFFICES ASSUME up, ~stale, ~overlap, game # NoGame PROVE TurnsOpen'
    BY <1>0 DEF TurnsOpen
  <2>1. ~OurTurn(log + 1)
    BY <1>1 DEF OurTurn
  <2>2. log' - 1 = log + 1
    BY <1>1
  <2>3. CASE game.log # <<>>
    <3>1. \A k \in Len(game.log) + 1 .. log + 1 : ~OurTurn(k)
      <4> SUFFICES ASSUME NEW k \in Len(game.log) + 1 .. log + 1 PROVE ~OurTurn(k)
        OBVIOUS
      <4>1. Len(game.log) \in Nat
        BY LenProperties DEF TypeOK, Game
      <4>2. k \in Len(game.log) + 1 .. log - 1 \/ k = log \/ k = log + 1
        BY <1>1, <4>1
      <4>3. CASE k \in Len(game.log) + 1 .. log - 1
        BY <2>3, <4>3 DEF TurnsOpen
      <4>4. CASE k = log
        BY <1>17, <4>1, <4>4
      <4>5. QED
        BY <2>1, <4>2, <4>3, <4>4
    <3>2. QED
      BY <1>0, <2>2, <2>3, <3>1 DEF TurnsOpen
  <2>4. CASE game.log = <<>>
    <3>1. \A i \in 1 .. Len(toBot') :
            toBot'[i].type = "gameActionList" => \A k \in toBot'[i].length .. log + 1 : ~OurTurn(k)
      <4> SUFFICES ASSUME NEW i \in 1 .. Len(toBot'), toBot'[i].type = "gameActionList",
                          NEW k \in toBot'[i].length .. log + 1
                   PROVE  ~OurTurn(k)
        OBVIOUS
      <4>1. i \in 1 .. Len(toBot) /\ toBot'[i] = toBot[i]
        BY <1>5
      <4>2. toBot[i].length \in Nat
        <5>1. toBot[i] \in ToBot
          BY <4>1, ElementOfSeq DEF TypeOK
        <5>2. QED
          BY <4>1, <5>1 DEF ToBot
      <4>3. k \in toBot[i].length .. log - 1 \/ k = log \/ k = log + 1
        BY <1>1, <4>1, <4>2
      <4>4. CASE k \in toBot[i].length .. log - 1
        BY <2>4, <4>1, <4>4 DEF TurnsOpen
      <4>5. CASE k = log
        BY <1>17, <2>4, <4>5 DEF Dealt
      <4>6. QED
        BY <2>1, <4>3, <4>4, <4>5
    <3>2. QED
      BY <1>0, <2>2, <2>4, <3>1 DEF TurnsOpen
  <2>5. QED
    BY <2>3, <2>4
<1>20. QED
  BY <1>4, <1>9, <1>11, <1>12, <1>13, <1>14, <1>15, <1>16, <1>18, <1>19

\* The game starts: no game of the bot is dealt yet, and no list on its way to one.
LEMMA StartStep ==
  ASSUME IInv, TypeOK', SrvStart
  PROVE  IInv'
<1> USE DEF IInv
<1>0. /\ log = 0 /\ log' = 1 /\ attending' = TRUE /\ Emit(<<Cmd("tableStart")>>)
      /\ UNCHANGED <<up, settings, game, restoredLevel, variantsLoaded, timers, stale, overlap,
                     toServer, note>>
  BY DEF SrvStart, Present, procVars, historyVars
<1>1. /\ Len(toBot) \in Nat /\ Len(toBot') = Len(toBot) + 1
      /\ \A i \in 1 .. Len(toBot') :
           toBot'[i].type \notin QuietTypes => i \in 1 .. Len(toBot) /\ toBot'[i] = toBot[i]
      /\ Paired' /\ OddHead'
  BY <1>0, EmitsQuiet DEF QuietTypes
<1>2. \A i \in 1 .. Len(toBot') :
        toBot'[i].type \in {"gameActionList", "noteListPlayer"} =>
          i \in 1 .. Len(toBot) /\ toBot'[i] = toBot[i]
  BY <1>1 DEF QuietTypes
<1>3. ASSUME ~overlap, game # NoGame
      PROVE  game.log = <<>> /\ Len(game.log) = 0
  <2>1. game.log \in Seq(Nat) /\ Len(game.log) \in Nat
    BY <1>3, LenProperties DEF TypeOK, Game
  <2>2. Len(game.log) = 0
    BY <1>0, <1>3, <2>1 DEF Contiguous
  <2>3. QED
    BY <2>1, <2>2, EmptySeq
<1>4. ASSUME up, ~overlap, game # NoGame, NEW i \in 1 .. Len(toBot')
      PROVE  toBot'[i].type # "gameActionList"
  <2> SUFFICES ASSUME toBot'[i].type = "gameActionList" PROVE FALSE
    OBVIOUS
  <2>1. i \in 1 .. Len(toBot) /\ toBot'[i] = toBot[i]
    BY <1>2
  <2>2. toBot[i].length > 0 /\ toBot[i].length <= 0
    BY <1>0, <1>4, <2>1 DEF ListCurrent, Follow
  <2>3. toBot[i].length \in Nat
    <3>1. toBot[i] \in ToBot
      BY <2>1, ElementOfSeq DEF TypeOK
    <3>2. QED
      BY <2>1, <3>1 DEF ToBot
  <2>4. QED
    BY <2>2, <2>3
<1>5. LogOdd' /\ GameLoaded' /\ Fresh' /\ SettingsMatch'
  BY <1>0 DEF LogOdd, GameLoaded, Fresh, SettingsMatch, InProgress
<1>6. OneAtATime'
  <2>1. Asked' = Asked /\ Answered' \subseteq Answered
    BY <1>0, <1>2 DEF Asked, Answered
  <2>2. QED
    BY <1>0, <2>1 DEF OneAtATime, OneLoad
<1>7. Contiguous'
  <2> SUFFICES ASSUME ~overlap, game # NoGame PROVE Contiguous'
    BY <1>0 DEF Contiguous, Dealt
  <2>1. game.log = Entries(Len(game.log)) /\ Len(game.log) <= log' /\ ~Dealt
    BY <1>0, <1>3 DEF Contiguous, Dealt
  <2>2. QED
    BY <1>0, <2>1 DEF Contiguous, Dealt
<1>8. ListCurrent'
  <2> SUFFICES ASSUME up, ~overlap, game # NoGame PROVE ListCurrent'
    BY <1>0 DEF ListCurrent
  <2>1. \A i, j \in 1 .. Len(toServer') :
          toServer'[i].type = "getGameInfo2" /\ toServer'[j].type = "tableUnattend" => j < i
    BY <1>0 DEF ListCurrent
  <2>2. QED
    BY <1>4, <2>1 DEF ListCurrent
<1>9. NotesAgree'
  BY <1>0 DEF NotesAgree
<1>10. NotesCurrent'
  BY <1>0, <1>2 DEF NotesCurrent
<1>11. MovesOurs'
  BY <1>0 DEF MovesOurs
<1>12. OneMove' /\ MoveLast'
  <2> SUFFICES ASSUME up, ~stale, ~overlap PROVE OneMove' /\ MoveLast'
    BY <1>0 DEF OneMove, MoveLast
  <2>1. ~MoveUnderWay
    <3> SUFFICES ASSUME MoveUnderWay PROVE FALSE
      OBVIOUS
    <3>1. Dealt
      BY DEF MoveLast
    <3>2. QED
      BY <1>3, <3>1 DEF Dealt
  <2>2. timers' = <<>> /\ Sent' = {} /\ Len(timers') = 0
    BY <1>0, <2>1, EmptySeq DEF MoveUnderWay, Sent
  <2>3. QED
    BY <2>2 DEF OneMove, MoveLast, MoveUnderWay
<1>13. TurnsOpen'
  <2> SUFFICES ASSUME up, ~stale, ~overlap, game # NoGame PROVE TurnsOpen'
    BY <1>0 DEF TurnsOpen
  <2>1. game'.log = <<>>
    BY <1>0, <1>3
  <2>2. QED
    BY <1>4, <2>1 DEF TurnsOpen
<1>14. QED
  BY <1>1, <1>5, <1>6, <1>7, <1>8, <1>9, <1>10, <1>11, <1>12, <1>13

\* What the server sends.
LEMMA EmitTypes ==
  ASSUME TypeOK
  PROVE  /\ \A t \in QuietTypes : Emit(<<Cmd(t)>>) => toBot' \in Seq(ToBot)
         /\ Emit(Load) => toBot' \in Seq(ToBot)
         /\ Advance => toBot' \in Seq(ToBot) /\ log' \in Nat /\ log' = log + 2
<1>1. /\ \A t \in QuietTypes : <<Cmd(t)>> \in Seq(ToBot)
      /\ Load \in Seq(ToBot)
      /\ TwoActions(log) \in Seq(ToBot) /\ <<>> \in Seq(ToBot)
  BY EmptySeq DEF QuietTypes, Cmd, Load, TwoActions, ToBot, TypeOK
<1>2. ASSUME NEW c \in Seq(ToBot), Emit(c) PROVE toBot' \in Seq(ToBot)
  BY <1>2, ConcatProperties DEF Emit, TypeOK
<1>3. Advance => Emit(IF attending THEN TwoActions(log) ELSE <<>>) /\ log' = log + 2 /\ log' \in Nat
  BY DEF Advance, TwoActions, TypeOK
<1>4. QED
  BY <1>1, <1>2, <1>3

\* The server keeps the types.
LEMMA ServerTypes ==
  ASSUME TypeOK, SrvStart \/ SrvMove \/ SrvReceive
  PROVE  TypeOK'
<1>1. CASE SrvStart
  <2>1. toBot' \in Seq(ToBot)
    BY <1>1, EmitTypes DEF SrvStart, Present, QuietTypes
  <2>2. QED
    BY <1>1, <2>1 DEF SrvStart, Present, procVars, historyVars, TypeOK
<1>2. CASE SrvMove
  BY <1>2, EmitTypes DEF SrvMove, procVars, historyVars, TypeOK
<1>3. CASE SrvReceive
  <2> DEFINE m == Head(toServer)
  <2>1. m \in ToServer /\ toServer' \in Seq(ToServer)
    BY <1>3, PopsPlaces DEF SrvReceive, Pops
  <2>2. UNCHANGED <<procVars, historyVars>>
    BY <1>3 DEF SrvReceive
  <2>3. CASE Refused(m) /\ UNCHANGED <<toBot, serverVars>>
    BY <2>1, <2>2, <2>3 DEF serverVars, procVars, historyVars, TypeOK
  <2>4. CASE SrvHandles(m)
    <3>1. toBot' \in Seq(ToBot) /\ log' \in Nat
      BY <2>4, EmitTypes DEF SrvHandles, Present, QuietTypes, Load, serverVars, TypeOK
    <3>2. seated' \in BOOLEAN /\ attending' \in BOOLEAN
      BY <2>4 DEF SrvHandles, Present, serverVars, TypeOK
    <3>3. note' \in BuiltSettings \cup {NoNote}
      <4>1. CASE m.type = "note" /\ note' = m.settings
        BY <2>1, <4>1 DEF ToServer, NoteCmd
      <4>2. CASE note' = note
        BY <4>2 DEF TypeOK
      <4>3. QED
        BY <2>4, <4>1, <4>2 DEF SrvHandles, serverVars
    <3>4. QED
      BY <2>1, <2>2, <3>1, <3>2, <3>3 DEF procVars, historyVars, TypeOK
  <2>5. QED
    BY <1>3, <2>3, <2>4 DEF SrvReceive
<1>4. QED
  BY <1>1, <1>2, <1>3

\* The server takes a command: what it does with it, or nothing.
LEMMA ReceiveStep ==
  ASSUME IInv, TypeOK', SrvReceive
  PROVE  IInv'
<1> DEFINE m == toServer[1]
<1>1. /\ TypeOK /\ Pops /\ UNCHANGED <<procVars, historyVars>>
      /\ Head(toServer) = m
  BY PopsPlaces DEF SrvReceive, Pops, IInv
<1>2. CASE UNCHANGED <<toBot, serverVars>>
  BY <1>1, <1>2, QuietServe DEF serverVars
<1>3. CASE m.type = "getGameInfo1" /\ Emit(<<Cmd("init")>>) /\ UNCHANGED serverVars
  BY <1>1, <1>3, QuietServe DEF serverVars, QuietTypes
<1>4. CASE m.type = "getGameInfo2" /\ attending /\ Emit(Load) /\ UNCHANGED serverVars
  BY <1>1, <1>4, LoadServe DEF serverVars
<1>5. CASE /\ m.type = "note" /\ note' = m.settings
           /\ UNCHANGED <<toBot, log, seated, attending>>
  BY <1>1, <1>5, NoteServe
<1>6. CASE /\ m.type = "action" /\ OurTurn(log) /\ Advance
           /\ UNCHANGED <<note, seated, attending>>
  <2>1. log % 2 = 1
    BY <1>6 DEF OurTurn
  <2>2. QED
    BY <1>1, <1>6, <2>1, AdvanceStep
<1>7. CASE m.type = "tableReattend" /\ log > 0 /\ Present /\ UNCHANGED <<log, note, seated>>
  BY <1>1, <1>7, QuietServe DEF Present, QuietTypes
<1>8. CASE /\ m.type = "tableUnattend" /\ attending' = FALSE /\ Emit(<<Cmd("left")>>)
           /\ UNCHANGED <<log, note, seated>>
  BY <1>1, <1>8, QuietServe DEF QuietTypes
<1>9. CASE /\ Emit(<<Cmd("left")>>) \/ Emit(<<Cmd("joined")>>)
           /\ UNCHANGED <<log, note, attending>>
  BY <1>1, <1>9, QuietServe DEF QuietTypes
<1>10. SrvHandles(m) \/ UNCHANGED <<toBot, serverVars>>
  BY <1>1 DEF SrvReceive
<1>11. QED
  BY <1>2, <1>3, <1>4, <1>5, <1>6, <1>7, <1>8, <1>9, <1>10 DEF SrvHandles, Load

-----------------------------------------------------------------------------
(* The theorems *)

\* The bot starts with no game, nothing under way and nothing noted.
LEMMA InitHolds == Init => IInv
<1> SUFFICES ASSUME Init PROVE IInv
  OBVIOUS
<1>1. Boot \in Settings
  BY SessionAssumption DEF Boot, Settings, NoLevel
<1>2. /\ timers \in Seq(Nat) /\ toBot \in Seq(ToBot) /\ toServer \in Seq(ToServer)
      /\ Len(timers) = 0 /\ Len(toBot) = 0 /\ Len(toServer) = 0
  BY EmptySeq DEF Init
<1>3. TypeOK
  BY <1>1, <1>2 DEF Init, TypeOK
<1>4. LogOdd /\ Paired /\ GameLoaded /\ OddHead /\ Fresh /\ SettingsMatch
  BY <1>2 DEF Init, LogOdd, Paired, GameLoaded, OddHead, Fresh, SettingsMatch, InProgress
<1>5. OneAtATime /\ Contiguous /\ ListCurrent /\ NotesAgree /\ NotesCurrent
  BY <1>2 DEF Init, OneAtATime, OneLoad, Asked, Answered, Contiguous, Dealt, ListCurrent,
              NotesAgree, NotesCurrent
<1>6. MovesOurs /\ OneMove /\ MoveLast /\ TurnsOpen
  BY <1>2 DEF Init, MovesOurs, OneMove, Sent, MoveLast, MoveUnderWay, TurnsOpen
<1>7. QED
  BY <1>3, <1>4, <1>5, <1>6 DEF IInv

\* Nothing happens.
LEMMA StutterStep ==
  ASSUME IInv, UNCHANGED vars
  PROVE  IInv'
<1> USE DEF IInv
<1>1. UNCHANGED <<up, settings, game, tableID, gameStarted, restoredLevel, inits, variantsLoaded,
                  timers, toBot, toServer, log, note, seated, attending, crashes, chats, accepted,
                  stale, overlap, dismissed>>
  BY DEF vars, procVars, serverVars, historyVars
<1>2. TypeOK' /\ LogOdd' /\ Paired' /\ GameLoaded' /\ OddHead' /\ Fresh' /\ SettingsMatch'
  BY <1>1 DEF TypeOK, LogOdd, Paired, GameLoaded, OddHead, Fresh, SettingsMatch, InProgress
<1>3. OneAtATime' /\ Contiguous' /\ ListCurrent' /\ NotesAgree' /\ NotesCurrent'
  BY <1>1 DEF OneAtATime, OneLoad, Asked, Answered, Contiguous, Dealt, Stays, ListCurrent,
              NotesAgree, NotesCurrent
<1>4. MovesOurs' /\ OneMove' /\ MoveLast' /\ TurnsOpen'
  BY <1>1 DEF MovesOurs, OneMove, Sent, MoveLast, MoveUnderWay, Dealt, TurnsOpen
<1>5. QED
  BY <1>2, <1>3, <1>4

\* Every step of the bot, of the server and of the operating system keeps the invariant.
LEMMA StepHolds == IInv /\ [Next]_vars => IInv'
<1> SUFFICES ASSUME IInv, [Next]_vars PROVE IInv'
  OBVIOUS
<1>0. TypeOK
  BY DEF IInv
<1>1. CASE HandleMsg
  BY <1>0, <1>1, MessageTypes, MessageStep
<1>2. CASE LoadVariants
  BY <1>0, <1>2, LoadTypes, LoadStep
<1>3. CASE TimerFires
  BY <1>0, <1>3, TimerTypes, TimerStep
<1>4. CASE HandleChat
  BY <1>0, <1>4, ChatTypes, ChatStep
<1>5. CASE SrvStart
  BY <1>0, <1>5, ServerTypes, StartStep
<1>6. CASE SrvMove
  <2>1. TypeOK'
    BY <1>0, <1>6, ServerTypes
  <2>2. /\ Advance /\ log % 2 = 1 /\ ~OurTurn(log) /\ toServer' = toServer
        /\ UNCHANGED <<procVars, historyVars, note, attending>>
    BY <1>6 DEF SrvMove
  <2>3. QED
    BY <2>1, <2>2, AdvanceStep
<1>7. CASE SrvReceive
  BY <1>0, <1>7, ServerTypes, ReceiveStep
<1>8. CASE Crash
  BY <1>0, <1>8, CrashTypes, CrashStep
<1>9. CASE Restart
  BY <1>9, RestartStep
<1>10. CASE UNCHANGED vars
  BY <1>10, StutterStep
<1>11. QED
  BY <1>1, <1>2, <1>3, <1>4, <1>5, <1>6, <1>7, <1>8, <1>9, <1>10 DEF Next

\* The inductive invariant of the session: the types, what the two channels may
\* hold, and how the game of the bot, the notes and the moves relate to the server.
THEOREM SessionInvariance == Spec => []IInv
BY InitHolds, StepHolds, PTL DEF Spec

\* Catching up is exact for a game of any length, however often the process dies and
\* the bot leaves and comes back: gameActionList and gameAction leave the game with
\* a prefix of the server's actions.
THEOREM BotCatchesUp == Spec => []CaughtUp
<1>1. IInv => CaughtUp
  <2> SUFFICES ASSUME IInv, ~overlap, game # NoGame PROVE IsPrefix(game.log, Entries(log))
    BY DEF CaughtUp
  <2> DEFINE n == Len(game.log)
  <2>1. n \in Nat /\ log \in Nat /\ game.log = Entries(n) /\ n <= log
    BY LenProperties DEF IInv, TypeOK, Game, Contiguous
  <2> HIDE DEF n
  <2>2. /\ Entries(log) \in Seq(Nat) /\ Len(Entries(log)) = log
        /\ \A i \in 1 .. log : Entries(log)[i] = i
        /\ Entries(n) \in Seq(Nat) /\ Len(Entries(n)) = n
        /\ \A i \in 1 .. n : Entries(n)[i] = i
    BY <2>1, EntriesPlaces
  <2>3. /\ SubSeq(Entries(log), 1, n) \in Seq(Nat) /\ Len(SubSeq(Entries(log), 1, n)) = n
        /\ \A i \in 1 .. n : SubSeq(Entries(log), 1, n)[i] = Entries(log)[i]
    BY <2>1, <2>2, SubSeqProperties
  <2>4. Entries(n) = SubSeq(Entries(log), 1, n)
    <3> DEFINE s == SubSeq(Entries(log), 1, n)
    <3>1. s \in Seq(Nat) /\ Len(s) = n /\ \A i \in 1 .. n : s[i] = Entries(log)[i]
      BY <2>3
    <3> HIDE DEF s
    <3>2. \A i \in 1 .. n : i \in 1 .. log
      BY <2>1
    <3>3. \A i \in 1 .. n : Entries(n)[i] = s[i]
      BY <2>2, <3>1, <3>2
    <3>4. Entries(n) = s
      BY <2>2, <3>1, <3>3, SeqEqual
    <3>5. QED
      BY <3>4 DEF s
  <2>5. QED
    BY <2>1, <2>2, <2>4 DEF IsPrefix
<1>2. QED
  BY <1>1, SessionInvariance, PTL

\* No message, note or chat command leaves a game in progress with other settings than
\* those the bot answers with.
THEOREM SettingsStayMatched == Spec => []SettingsMatch
<1>1. IInv => SettingsMatch
  BY DEF IInv
<1>2. QED
  BY <1>1, SessionInvariance, PTL

\* handle_action decides on one move at a time, and on one the server waits for.
THEOREM MovesOnce == Spec => []OneMove
<1>1. IInv => OneMove
  BY DEF IInv
<1>2. QED
  BY <1>1, SessionInvariance, PTL

\* The settings on the first card stay what they were, through crashes and rejoins.
THEOREM NoteStaysKept == Spec => NoteKept
<1>1. IInv /\ [Next]_vars => [~overlap /\ note # NoNote => note' = note]_vars
  <2> SUFFICES ASSUME IInv, Next, ~overlap, note # NoNote PROVE note' = note
    OBVIOUS
  <2>1. CASE SrvReceive
    <3> DEFINE m == Head(toServer)
    <3>1. CASE m.type = "note" /\ note' = m.settings
      <4>1. 1 \in 1 .. Len(toServer) /\ m = toServer[1]
        BY <2>1, PopsPlaces DEF SrvReceive, Pops, IInv
      <4>2. QED
        BY <3>1, <4>1 DEF IInv, NotesAgree
    <3>2. QED
      BY <2>1, <3>1 DEF SrvReceive, SrvHandles, Advance, Present, serverVars
  <2>2. CASE ~SrvReceive
    BY <2>2 DEF Next, HandleMsg, LoadVariants, TimerFires, HandleChat, SrvStart, SrvMove, Crash,
                Restart, serverVars
  <2>3. QED
    BY <2>1, <2>2
<1>2. QED
  BY <1>1, SessionInvariance, PTL DEF Spec, NoteKept

=============================================================================
