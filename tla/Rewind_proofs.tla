---------------------------- MODULE Rewind_proofs ----------------------------
(***************************************************************************)
(* However often a game is rewound, its State and its list of actions are  *)
(* those of a game that handled every action once.                         *)
(*                                                                         *)
(* The State after each action of the server is kept in a function R.      *)
(* Every call in progress has a game that follows R: it is the State after *)
(* some number of actions, its list holds these actions and no others, and *)
(* what is left to do in the call's frame are the actions up to the one    *)
(* its caller was at.                                                      *)
(***************************************************************************)
EXTENDS Rewind, Sums_proofs, SequenceTheorems
-----------------------------------------------------------------------------
(* Types *)

\* What the server sends.  A card that leaves a hand is shown to be what it is;
\* one that is drawn may be, to those who see it.
DrawAct ==
  {a \in [type : {"draw"}, playerIndex : Players, order : Orders, id : Ids \cup {NoId}] :
     a.id \in {NoId, Deck[a.order]}}
ClueAct == [type : {"clue"}, giver : Players, target : Players]
LeaveAct ==
  {a \in [type : {"play", "discard"}, playerIndex : Players, order : Orders, id : Ids,
          failed : BOOLEAN] : a.id = Deck[a.order]}
TurnAct == [type : {"turn"}, num : Nat, playerIndex : Players]
OverAct == [type : {"gameOver"}]
RealAct == DrawAct \cup ClueAct \cup LeaveAct \cup TurnAct \cup OverAct

\* What a rewind inserts.
IdentifyAct ==
  {a \in [type : {"identify"}, order : Orders, playerIndex : Players, infer : BOOLEAN,
          id : Ids \cup {NoId}] : ~a.infer => a.id = Deck[a.order]}
MarkAct    == [type : {"ignore", "finesse"}, order : Orders]
SpecialAct == IdentifyAct \cup MarkAct

Act   == RealAct \cup SpecialAct
NoAct == [type |-> "none"]

Parts == {"history", "insert", "future", "restore", "last", "waited", "table", "nav"}
Entry == {e \in [act : Act \cup {NoAct}, part : Parts] :
            /\ e.act = NoAct <=> e.part = "restore"
            /\ e.part \in {"insert", "waited"} => e.act \in SpecialAct}

\* The State, without the bounds that the rules of the game put on it.
St ==
  [turn_count : Nat, clue_tokens : Int, strikes : Int, hands : [Players -> SUBSET Orders],
   deck : [Orders -> Ids \cup {NoId}], deck_ids : [Orders -> Ids \cup {NoId}],
   drawn_index : [Orders -> Nat \cup {-1}], play_stacks : [Suits -> Int],
   discard_stacks : [Ids -> Int], max_ranks : [Suits -> Int], cardsLeft : Int,
   cardOrder : Orders \cup {-1}, currentPlayerIndex : Players, endgameTurns : Int]

\* g is a record with the fields of a game.
GameOK(g) ==
  /\ g = [st |-> g.st, list |-> g.list, notes |-> g.notes, rewinds |-> g.rewinds,
          depth |-> g.depth, catchup |-> g.catchup, inProgress |-> g.inProgress,
          status |-> g.status, rewinded |-> g.rewinded, ignored |-> g.ignored,
          queued |-> g.queued]
  /\ g.st \in St
  /\ g.list \in Seq(Seq(Act))

\* f is a record with the fields of a frame.
FrameOK(f) ==
  /\ f = [kind |-> f.kind, this |-> f.this, act |-> f.act, todo |-> f.todo, ids |-> f.ids]
  /\ f.todo \in Seq(Entry)
  /\ f.ids \in Seq(IdentifyAct)

SessionOK(ss) ==
  /\ ss = [moves |-> ss.moves, live |-> ss.live, catchup |-> ss.catchup, phase |-> ss.phase,
           log |-> ss.log, made |-> ss.made, table |-> ss.table, requests |-> ss.requests,
           shown |-> ss.shown, begun |-> ss.begun, fresh |-> ss.fresh]
  /\ ss.moves \in Seq([type : Moves, order : Orders]) /\ ss.moves # <<>>
  /\ ss.live \in BOOLEAN /\ ss.catchup \in BOOLEAN
  /\ ss.phase \in {"deal", "move", "draw", "turn", "over"}
  /\ ss.log \in Seq(RealAct) /\ ss.made \in Nat
  /\ ss.shown \in Nat

-----------------------------------------------------------------------------
(* The course of the game, for a session ss *)

Now(ss) == Len(ss.log)

\* What an action of the server does to the State.
StepOf(st, a) ==
  CASE a.type = "draw" -> HandleDraw(st, a.playerIndex, a.order, a.id)
    [] a.type = "turn" -> HandleTurn(st, a.num, a.playerIndex)
    [] a.type \in Moves -> HandleTableAction(st, a)
    [] OTHER -> st

Draws(a, o, p) == a.type = "draw" /\ a.order = o /\ a.playerIndex = p

\* R[k] is the State after the first k actions of the server.
Runs(ss, R) ==
  /\ R[0] = InitialState /\ R[Now(ss)] = ss.table
  /\ \A k \in 0 .. Now(ss) : R[k] \in St
  /\ \A k \in 1 .. Now(ss) : R[k] = StepOf(R[k - 1], ss.log[k])

\* What a State knows of the cards is true.
Known(r) ==
  \A o \in Orders : r.deck[o] \in {NoId, Deck[o]} /\ r.deck_ids[o] \in {NoId, Deck[o]}

Truth(ss, R) == \A k \in 0 .. Now(ss) : Known(R[k])

\* The turns and the deck do not go back.
Onward(ss, R) ==
  \A i, k \in 0 .. Now(ss) :
    i <= k => R[i].turn_count <= R[k].turn_count /\ R[i].cardOrder <= R[k].cardOrder

\* The actions come when they may.
Orderly(ss, R) ==
  \A k \in 1 .. Now(ss) :
    LET a == ss.log[k]
    IN  /\ a.type = "draw" => a.order = R[k - 1].cardOrder + 1
        /\ a.type \in {"play", "discard"} => a.order \in R[k - 1].hands[a.playerIndex]
        /\ a.type = "turn" => R[k - 1].turn_count \in {0, a.num}
        /\ a.type = "gameOver" => ss.phase = "over"

\* A card in a hand was drawn there, at the turn that drawn_index says, and has
\* been there ever since.
Held(ss, R) ==
  \A k \in 0 .. Now(ss) : \A p \in Players : \A o \in R[k].hands[p] :
    \E i \in 1 .. k :
      /\ Draws(ss.log[i], o, p) /\ R[i - 1].turn_count = R[k].drawn_index[o]
      /\ \A j \in i .. k : o \in R[j].hands[p]

\* The states in which the turns began.
Began(ss, R) ==
  /\ ss.begun = [t \in 1 .. ss.table.turn_count |-> ss.begun[t]]
  /\ \A t \in 1 .. ss.table.turn_count : \A k \in 1 .. Now(ss) :
       R[k - 1].turn_count < t /\ t <= R[k].turn_count => ss.begun[t] = R[k]

\* What the server may do next.
Ahead(ss) ==
  /\ ss.table.cardsLeft = DeckSize - 1 - ss.table.cardOrder
  /\ ss.phase = "deal" =>
       /\ ss.table.cardOrder + 1 < NumPlayers * HandSize
       /\ ss.table.turn_count \in {0, 1} /\ ss.made = 0
  /\ ss.phase = "move" =>
       /\ ss.made < Len(ss.moves) /\ ss.table.turn_count \in {0, ss.made + 1}
       /\ ss.table.turn_count = 0 => ss.made = 0
  /\ ss.phase = "draw" => ss.table.cardsLeft > 0
  /\ ss.phase \in {"draw", "turn"} =>
       /\ ss.table.turn_count \in {0, ss.made}
       /\ ss.table.turn_count = 0 => ss.made = 1
  /\ ss.live \/ ss.catchup \/ ss.phase = "over"

Course(ss, R) ==
  /\ Runs(ss, R) /\ Truth(ss, R) /\ Onward(ss, R) /\ Orderly(ss, R) /\ Held(ss, R)
  /\ Began(ss, R) /\ Ahead(ss)

-----------------------------------------------------------------------------
(* The calls in progress *)

\* s is the State r, but more may be known of the cards, and it is true.
Follows(s, r) ==
  /\ s \in St
  /\ s = [r EXCEPT !.deck = s.deck, !.deck_ids = s.deck_ids]
  /\ \A o \in Orders : s.deck[o] \in {r.deck[o], Deck[o]} /\ s.deck_ids[o] \in {r.deck_ids[o], Deck[o]}

Acts(todo) == [i \in 1 .. Len(todo) |-> todo[i].act]

Real(acts) == Filtered(acts, Specials \cup {"none"})

\* The first n actions are where they belong in the list.
Filed(ss, R, g, n) ==
  \A i \in 1 .. n :
    ss.log[i].type = "draw" =>
      /\ R[i - 1].turn_count < Len(g.list)
      /\ ss.log[i] \in ToSet(g.list[R[i - 1].turn_count + 1])

\* The game g was played up to where the log had k actions, and its list has n.
Played(ss, R, g, k, n) ==
  /\ GameOK(g) /\ Follows(g.st, R[k])
  /\ Len(g.list) <= g.st.turn_count + 1
  /\ Real(FlattenSeq(g.list)) = SubSeq(ss.log, 1, n)
  /\ Filed(ss, R, g, k)
  /\ ss.live /\ ss.phase # "over" => g.inProgress = TRUE

\* The call whose frame is f has its game g where the log had k actions, and is
\* to take it to where it had m.  If it is busy, it is interpreting the next.
Doing(ss, R, f, g, k, m, busy) ==
  /\ FrameOK(f) /\ Played(ss, R, g, k, IF busy THEN k + 1 ELSE k)
  /\ k \in 0 .. m /\ m \in 0 .. Now(ss)
  /\ Real(Acts(f.todo)) = SubSeq(ss.log, k + 1, m)
  /\ busy => /\ k < m /\ f.todo # <<>> /\ f.todo[1].act = ss.log[k + 1]
             /\ ss.log[k + 1].type \in Moves \cup {"turn"}
             /\ Len(g.list) = g.st.turn_count + 1
             /\ ss.log[k + 1] \in ToSet(g.list[Len(g.list)])

PartRank(part) == CASE part = "history" -> 0 [] part = "insert" -> 1 [] OTHER -> 2

Sorted(todo) == \A i, j \in 1 .. Len(todo) : i < j => PartRank(todo[i].part) <= PartRank(todo[j].part)

\* The draw of a card is among what is still to come after the insertions.
Comes(todo, o) ==
  \E j \in 1 .. Len(todo) :
    todo[j].part = "future" /\ todo[j].act.type = "draw" /\ todo[j].act.order = o

\* The card of an identification to be inserted is in the hand from which the
\* rewind was asked for, and its draw is reached first; if it is to come after
\* the insertions, the identification is the last of them.
Insertable(ss, R, todo, k, m) ==
  \A j \in 1 .. Len(todo) :
    todo[j].part = "insert" /\ todo[j].act.type = "identify" =>
      LET a == todo[j].act
      IN  \E i \in 1 .. m - 1 :
            /\ Draws(ss.log[i], a.order, a.playerIndex)
            /\ \A h \in i .. m - 1 : a.order \in R[h].hands[a.playerIndex]
            /\ \/ i <= k
               \/ \E h \in 1 .. Len(todo) : todo[h].part = "history" /\ todo[h].act = ss.log[i]
               \/ /\ Comes(todo, a.order)
                  /\ \A h \in j + 1 .. Len(todo) : todo[h].part # "insert"

\* The action that is interpreted is handled at the end.
Closing(todo) == \E h \in 1 .. Len(todo) : todo[h].part = "last" /\ todo[h].act \in RealAct

\* Nothing of what was in the list or is to be inserted is lost.
Kept(f, g) ==
  ToSet(FlattenSeq(f.this.list)) \cup ToSet(f.act) \subseteq
    ToSet(FlattenSeq(g.list)) \cup ToSet(Acts(f.todo)) \cup ToSet(f.ids)

\* An identification that waits is the only one, and its card is to come.
Waiting(f) ==
  f.ids # <<>> => /\ Len(f.ids) = 1 /\ Comes(f.todo, f.ids[1].order)
                  /\ \A i \in 1 .. Len(f.todo) : PartRank(f.todo[i].part) = 2

\* A call of rewind.
Rewinding(ss, R, f, g, k, m) ==
  /\ f.kind \notin {"table", "nav"}
  /\ f.act \in Seq(SpecialAct)
  /\ \A i \in 1 .. Len(f.todo) : f.todo[i].part \notin {"table", "nav"}
  /\ Kept(f, g)
  /\ Sorted(f.todo)
  /\ Insertable(ss, R, f.todo, k, m)
  /\ (\E i \in 1 .. Len(f.todo) : f.todo[i].part = "insert") => Closing(f.todo)
  /\ Waiting(f)

\* A call of navigate, to the turn f.act.
Navigating(ss, R, f, k, busy) ==
  /\ f.kind = "nav" /\ ss.shown = f.act /\ f.act \in Nat \ {0} /\ ss.phase = "over"
  /\ \A i \in 1 .. Len(f.todo) : f.todo[i].part = "nav"
  /\ GameOK(f.this) /\ Real(FlattenSeq(f.this.list)) = ss.log
  /\ k = 0 \/ R[k - 1].turn_count < f.act
  /\ busy => R[k].turn_count < f.act

\* A call from outside: of handle_action, or of navigate.
Called(ss, R, f, k, busy) ==
  /\ f.ids = <<>>
  /\ \/ /\ f.kind = "table" /\ ss.shown = 0
        /\ \A i \in 1 .. Len(f.todo) : f.todo[i].part = "table"
     \/ Navigating(ss, R, f, k, busy)

\* The game of the n-th of the calls cs, g being that of the innermost.
GameOf(cs, g, n) == IF n = Len(cs) THEN g ELSE cs[n + 1].this

\* How far the n-th call has to go.
Goal(ss, pos, n) == IF n = 1 THEN Now(ss) ELSE pos[n - 1] + 1

\* The calls cs: all but the innermost wait for an interpretation.
InCalls(ss, R, pos, cs, g, busy) ==
  /\ Len(cs) \in Nat \ {0} /\ cs = [n \in 1 .. Len(cs) |-> cs[n]]
  /\ pos \in [1 .. Len(cs) -> Nat]
  /\ \A n \in 1 .. Len(cs) :
       Doing(ss, R, cs[n], GameOf(cs, g, n), pos[n], Goal(ss, pos, n), n < Len(cs) \/ busy)
  /\ \A n \in 2 .. Len(cs) : Rewinding(ss, R, cs[n], GameOf(cs, g, n), pos[n], Goal(ss, pos, n))
  /\ Called(ss, R, cs[1], pos[1], 1 < Len(cs) \/ busy)

\* Between the calls the whole log has been handled, or a past turn is shown.
AtEase(ss, R, g) ==
  /\ GameOK(g)
  /\ Real(FlattenSeq(g.list)) = ss.log
  /\ ss.live /\ ss.phase # "over" => g.inProgress = TRUE
  /\ ss.shown = 0 => Played(ss, R, g, Now(ss), Now(ss))
  /\ ss.shown # 0 =>
       /\ ss.phase = "over"
       /\ \E k \in 0 .. Now(ss) :
            /\ Follows(g.st, R[k])
            /\ k = 0 \/ R[k - 1].turn_count < ss.shown
            /\ k = Now(ss) \/ R[k].turn_count >= ss.shown

\* pos[n] is how many actions of the log the game of the n-th call has handled.
Alive(ss, R, pos, cs, g, p) ==
  /\ SessionOK(ss) /\ Course(ss, R)
  /\ p = "idle" => cs = <<>> /\ AtEase(ss, R, g)
  /\ p = "handle" => InCalls(ss, R, pos, cs, g, FALSE)
  /\ p = "interpret" => InCalls(ss, R, pos, cs, g, TRUE)

\* The inductive invariant: while the process has not died, a course of States
\* explains where the game and the calls in progress are.
IInv ==
  pc \in {"idle", "handle", "interpret"} =>
    \E R, pos : Alive(session, R, pos, stack, game, pc)

-----------------------------------------------------------------------------
(* Sequences *)

\* The parts of an appended sequence.
LEMMA AppendParts ==
  ASSUME NEW S, NEW s \in Seq(S), NEW x \in S
  PROVE  /\ Append(s, x) \in Seq(S) /\ Len(s) \in Nat /\ Len(Append(s, x)) = Len(s) + 1
         /\ \A i \in 1 .. Len(s) : Append(s, x)[i] = s[i]
         /\ Append(s, x)[Len(s) + 1] = x
<1>1. /\ Append(s, x) \in Seq(S) /\ Len(Append(s, x)) = Len(s) + 1
      /\ \A i \in 1 .. Len(s) : Append(s, x)[i] = s[i]
      /\ Append(s, x)[Len(s) + 1] = x
  BY AppendProperties
<1>2. Len(s) \in Nat
  BY LenProperties
<1>3. QED
  BY <1>1, <1>2

\* A sequence that is not empty is its front with its last element appended.
LEMMA LastAppended ==
  ASSUME NEW S, NEW s \in Seq(S), s # <<>>
  PROVE  /\ Len(s) \in Nat \ {0}
         /\ SubSeq(s, 1, Len(s) - 1) \in Seq(S) /\ Len(SubSeq(s, 1, Len(s) - 1)) = Len(s) - 1
         /\ s[Len(s)] \in S
         /\ s = Append(SubSeq(s, 1, Len(s) - 1), s[Len(s)])
<1>1. Len(s) \in Nat \ {0}
  BY EmptySeq
<1>2. \A i \in 1 .. Len(s) : s[i] \in S
  BY ElementOfSeq
<1> DEFINE t == SubSeq(s, 1, Len(s) - 1)
<1>3. /\ t \in Seq(S) /\ Len(t) = Len(s) - 1
      /\ \A i \in 1 .. Len(s) - 1 : t[i] = s[i]
  <2>1. \A i \in 1 .. Len(s) - 1 : s[i] \in S
    BY <1>1, <1>2
  <2>2. 1 \in Int /\ Len(s) - 1 \in Int
    BY <1>1
  <2>3. t \in Seq(S)
    BY <2>1, <2>2, SubSeqProperties
  <2>4. Len(t) = IF 1 <= Len(s) - 1 THEN Len(s) - 1 - 1 + 1 ELSE 0
    BY <2>1, <2>2, SubSeqProperties
  <2>5. \A i \in 1 .. Len(s) - 1 - 1 + 1 : t[i] = s[1 + i - 1]
    BY <2>1, <2>2, SubSeqProperties
  <2> HIDE DEF t
  <2>6. Len(t) = Len(s) - 1
    <3>1. \A n \in Nat \ {0} : (IF 1 <= n - 1 THEN n - 1 - 1 + 1 ELSE 0) = n - 1
      OBVIOUS
    <3>2. QED
      BY <1>1, <2>4, <3>1
  <2>7. ASSUME NEW i \in 1 .. Len(s) - 1 PROVE t[i] = s[i]
    <3>1. i \in 1 .. Len(s) - 1 - 1 + 1 /\ 1 + i - 1 = i
      BY <1>1
    <3>2. QED
      BY <2>5, <3>1
  <2>8. QED
    BY <2>3, <2>6, <2>7
<1> HIDE DEF t
<1>4. s[Len(s)] \in S
  BY <1>1, <1>2
<1>5. /\ Append(t, s[Len(s)]) \in Seq(S) /\ Len(Append(t, s[Len(s)])) = Len(t) + 1
      /\ \A i \in 1 .. Len(t) : Append(t, s[Len(s)])[i] = t[i]
      /\ Append(t, s[Len(s)])[Len(t) + 1] = s[Len(s)]
  BY <1>3, <1>4, AppendParts
<1>6. s = Append(t, s[Len(s)])
  <2>1. Len(s) = Len(Append(t, s[Len(s)]))
    BY <1>1, <1>3, <1>5
  <2>2. \A i \in 1 .. Len(s) : s[i] = Append(t, s[Len(s)])[i]
    <3> SUFFICES ASSUME NEW i \in 1 .. Len(s) PROVE s[i] = Append(t, s[Len(s)])[i]
      OBVIOUS
    <3>1. CASE i = Len(s)
      BY <1>1, <1>3, <1>5, <3>1
    <3>2. CASE i # Len(s)
      BY <1>1, <1>3, <1>5, <3>2
    <3>3. QED
      BY <3>1, <3>2
  <2>3. QED
    BY <1>5, <2>1, <2>2, SeqEqual
<1>7. QED
  BY <1>1, <1>3, <1>4, <1>6 DEF t

\* Induction over the sequences that are built by appending, for a set G of them.
LEMMA AppendInduction ==
  ASSUME NEW S, NEW G, <<>> \in G,
         \A s \in Seq(S) : \A x \in S : s \in G => Append(s, x) \in G
  PROVE  \A s \in Seq(S) : s \in G
<1> DEFINE T == {Len(s) : s \in Seq(S) \ G}
<1> SUFFICES ASSUME T # {} PROVE FALSE
  OBVIOUS
<1>1. \A s \in Seq(S) : Len(s) \in Nat
  BY LenProperties
<1>2. PICK n \in T : \A m \in T : n <= m
  <2>1. T \subseteq Nat
    BY <1>1
  <2>2. QED
    BY <2>1, Least
<1>3. PICK s \in Seq(S) \ G : n = Len(s)
  BY <1>2
<1>4. s # <<>>
  BY <1>3
<1> DEFINE t == SubSeq(s, 1, Len(s) - 1)
<1>5. /\ t \in Seq(S) /\ Len(t) = n - 1 /\ n \in Nat
      /\ s[Len(s)] \in S /\ s = Append(t, s[Len(s)])
  BY <1>3, <1>4, LastAppended
<1>6. n - 1 \notin T
  <2> HIDE DEF T, t
  <2>1. n \in Nat
    BY <1>5
  <2>2. ~(n <= n - 1)
    BY <2>1
  <2>3. QED
    BY <1>2, <2>2
<1>7. t \in G
  <2> HIDE DEF t
  <2>1. t \notin G => Len(t) \in T
    BY <1>5
  <2>2. QED
    BY <1>5, <1>6, <2>1
<1>8. QED
  BY <1>3, <1>5, <1>7

\* A sequence of sequences is typed element by element.
LEMMA SeqByElements ==
  ASSUME NEW S, NEW T, NEW s \in Seq(T), \A i \in 1 .. Len(s) : s[i] \in S
  PROVE  s \in Seq(S)
<1>1. Len(s) \in Nat /\ s \in [1 .. Len(s) -> T]
  BY LenProperties
<1>2. s \in [1 .. Len(s) -> S]
  BY <1>1
<1>3. QED
  BY <1>1, <1>2, SeqDef

\* The elements of a concatenated or an appended sequence.
LEMMA ConcatSet ==
  ASSUME NEW S, NEW s \in Seq(S), NEW t \in Seq(S)
  PROVE  ToSet(s \o t) = ToSet(s) \cup ToSet(t)
<1>1. /\ Len(s) \in Nat /\ Len(t) \in Nat /\ Len(s \o t) = Len(s) + Len(t)
      /\ DOMAIN s = 1 .. Len(s) /\ DOMAIN t = 1 .. Len(t) /\ DOMAIN (s \o t) = 1 .. Len(s) + Len(t)
      /\ \A i \in 1 .. Len(s) + Len(t) : (s \o t)[i] = IF i <= Len(s) THEN s[i] ELSE t[i - Len(s)]
  <2>1. s \o t \in Seq(S) /\ Len(s \o t) = Len(s) + Len(t)
        /\ \A i \in 1 .. Len(s) + Len(t) : (s \o t)[i] = IF i <= Len(s) THEN s[i] ELSE t[i - Len(s)]
    BY ConcatProperties
  <2>2. QED
    BY <2>1, LenProperties
<1>2. ASSUME NEW x \in ToSet(s) PROVE x \in ToSet(s \o t)
  <2>1. PICK i \in 1 .. Len(s) : x = s[i]
    BY <1>1 DEF ToSet
  <2>2. i \in 1 .. Len(s) + Len(t) /\ (s \o t)[i] = s[i]
    BY <1>1
  <2>3. QED
    BY <1>1, <2>1, <2>2 DEF ToSet
<1>3. ASSUME NEW x \in ToSet(t) PROVE x \in ToSet(s \o t)
  <2>1. PICK i \in 1 .. Len(t) : x = t[i]
    BY <1>1 DEF ToSet
  <2>2. i + Len(s) \in 1 .. Len(s) + Len(t) /\ (s \o t)[i + Len(s)] = t[i]
    <3>1. i + Len(s) \in 1 .. Len(s) + Len(t) /\ ~(i + Len(s) <= Len(s)) /\ i + Len(s) - Len(s) = i
      BY <1>1
    <3>2. QED
      BY <1>1, <3>1
  <2>3. QED
    BY <1>1, <2>1, <2>2 DEF ToSet
<1>4. ASSUME NEW x \in ToSet(s \o t) PROVE x \in ToSet(s) \cup ToSet(t)
  <2>1. PICK i \in 1 .. Len(s) + Len(t) : x = (s \o t)[i]
    BY <1>1 DEF ToSet
  <2>2. CASE i <= Len(s)
    BY <1>1, <2>1, <2>2 DEF ToSet
  <2>3. CASE ~(i <= Len(s))
    <3>1. i - Len(s) \in 1 .. Len(t) /\ x = t[i - Len(s)]
      BY <1>1, <2>1, <2>3
    <3>2. QED
      BY <1>1, <3>1 DEF ToSet
  <2>4. QED
    BY <2>2, <2>3
<1>5. QED
  BY <1>2, <1>3, <1>4

\* Induction over the numbers from m to n, for a set G of them.
LEMMA StepInduction ==
  ASSUME NEW m \in Nat, NEW n \in Nat, NEW G, m \in G,
         \A i \in m .. n : i + 1 <= n /\ i \in G => i + 1 \in G
  PROVE  \A i \in m .. n : i \in G
<1> DEFINE T == {i \in m .. n : i \notin G}
<1> SUFFICES ASSUME T # {} PROVE FALSE
  OBVIOUS
<1>1. PICK k \in T : \A j \in T : k <= j
  <2>1. T \subseteq Nat
    OBVIOUS
  <2>2. QED
    BY <2>1, Least
<1>2. k \in m .. n /\ k \notin G /\ k # m
  OBVIOUS
<1>3. k - 1 \in m .. n /\ k - 1 + 1 = k /\ k <= n /\ ~(k <= k - 1)
  BY <1>2
<1>4. k - 1 \in G
  BY <1>1, <1>3
<1>5. QED
  BY <1>2, <1>3, <1>4

-----------------------------------------------------------------------------
(* FlattenSeq *)

\* One unfolding of FlattenSeq, with f for the shorter prefixes.
Joined(s, t) == s \o t
FlatStep(list, f, i) == IF i = 1 THEN list[i] ELSE Joined(f[i - 1], list[i])

\* The prefixes of a list, flattened.
Flats(list) == CHOOSE f : f = [i \in 1 .. Len(list) |-> FlatStep(list, f, i)]

\* FlattenSeq is the longest of them.
LEMMA FlattenIsLast ==
  ASSUME NEW list, Len(list) # 0
  PROVE  FlattenSeq(list) = Flats(list)[Len(list)]
BY DEF FlattenSeq, Flats, FlatStep, Joined

\* The recursion has a solution.
LEMMA FlatsUnfold ==
  ASSUME NEW S, NEW list \in Seq(S)
  PROVE  Flats(list) = [i \in 1 .. Len(list) |-> FlatStep(list, Flats(list), i)]
<1> DEFINE Sol(l) == \E f : f = [i \in 1 .. Len(l) |-> FlatStep(l, f, i)]
           G == {l \in Seq(S) : Sol(l)}
<1>1. <<>> \in G
  <2>1. <<>> \in Seq(S) /\ Len(<<>>) = 0
    BY EmptySeq
  <2> DEFINE f == [i \in 1 .. Len(<<>>) |-> <<>>]
  <2>2. f = [i \in 1 .. Len(<<>>) |-> FlatStep(<<>>, f, i)]
    <3>1. \A i \in 1 .. Len(<<>>) : FALSE
      BY <2>1
    <3>2. QED
      BY <3>1
  <2>3. QED
    BY <2>1, <2>2
<1>2. ASSUME NEW l \in Seq(S), NEW x \in S, l \in G
      PROVE  Append(l, x) \in G
  <2>1. PICK f : f = [i \in 1 .. Len(l) |-> FlatStep(l, f, i)]
    BY <1>2
  <2> DEFINE a == Append(l, x)
             g == [i \in 1 .. Len(l) + 1 |-> IF i <= Len(l) THEN f[i] ELSE FlatStep(a, f, i)]
  <2>2. /\ a \in Seq(S) /\ Len(l) \in Nat /\ Len(a) = Len(l) + 1
        /\ \A i \in 1 .. Len(l) : a[i] = l[i]
    BY AppendParts
  <2> HIDE DEF a
  <2>3. ASSUME NEW i \in 1 .. Len(l) + 1
        PROVE  g[i] = FlatStep(a, g, i)
    <3>1. i # 1 => i - 1 \in 1 .. Len(l) /\ i - 1 \in 1 .. Len(l) + 1 /\ i - 1 <= Len(l)
      BY <2>2
    <3>2. i # 1 => g[i - 1] = f[i - 1]
      BY <3>1
    <3>3. CASE i <= Len(l)
      <4>1. i \in 1 .. Len(l) /\ g[i] = f[i]
        BY <2>2, <3>3
      <4>2. f[i] = FlatStep(l, f, i)
        BY <2>1, <4>1
      <4>3. QED
        BY <2>2, <3>2, <4>1, <4>2 DEF FlatStep
    <3>4. CASE ~(i <= Len(l))
      BY <3>2, <3>4 DEF FlatStep
    <3>5. QED
      BY <3>3, <3>4
  <2>4. g = [i \in 1 .. Len(a) |-> FlatStep(a, g, i)]
    BY <2>2, <2>3
  <2>5. QED
    BY <2>2, <2>4 DEF a
<1>3. list \in G
  <2> HIDE DEF G
  <2>1. \A s \in Seq(S) : s \in G
    BY <1>1, <1>2, AppendInduction
  <2>2. QED
    BY <2>1
<1>4. QED
  BY <1>3 DEF Flats

\* The elements of a list are flattened one after the other.
LEMMA FlatsAt ==
  ASSUME NEW S, NEW list \in Seq(S), NEW i \in 1 .. Len(list)
  PROVE  Flats(list)[i] = FlatStep(list, Flats(list), i)
BY FlatsUnfold

\* An appended element does not change what was before it.
LEMMA FlatsAppend ==
  ASSUME NEW S, NEW list \in Seq(S), NEW x \in S
  PROVE  \A i \in 1 .. Len(list) : Flats(Append(list, x))[i] = Flats(list)[i]
<1> DEFINE a == Append(list, x)
           G == {i \in 1 .. Len(list) : Flats(a)[i] = Flats(list)[i]}
<1>1. /\ a \in Seq(S) /\ Len(list) \in Nat /\ Len(a) = Len(list) + 1
      /\ \A i \in 1 .. Len(list) : a[i] = list[i]
  BY AppendParts
<1> HIDE DEF a
<1>2. CASE Len(list) = 0
  BY <1>2 DEF a
<1>3. CASE Len(list) # 0
  <2>1. 1 \in G
    <3>1. 1 \in 1 .. Len(list) /\ 1 \in 1 .. Len(a)
      BY <1>1, <1>3
    <3>2. Flats(a)[1] = FlatStep(a, Flats(a), 1) /\ Flats(list)[1] = FlatStep(list, Flats(list), 1)
      BY <1>1, <3>1, FlatsAt
    <3>3. QED
      BY <1>1, <3>1, <3>2 DEF FlatStep
  <2>2. ASSUME NEW i \in 1 .. Len(list), i + 1 <= Len(list), i \in G
        PROVE  i + 1 \in G
    <3>1. i + 1 \in 1 .. Len(list) /\ i + 1 \in 1 .. Len(a) /\ i + 1 # 1 /\ i + 1 - 1 = i
      BY <1>1, <2>2
    <3>2. /\ Flats(a)[i + 1] = FlatStep(a, Flats(a), i + 1)
          /\ Flats(list)[i + 1] = FlatStep(list, Flats(list), i + 1)
      BY <1>1, <3>1, FlatsAt
    <3>3. Flats(a)[i] = Flats(list)[i]
      BY <2>2
    <3>4. Flats(a)[i + 1] = Flats(list)[i + 1]
      <4>1. i \in Nat /\ i + 1 # 1 /\ i + 1 - 1 = i
        BY <1>1, <3>1
      <4>2. \A l, f : FlatStep(l, f, i + 1) = Joined(f[i], l[i + 1])
        BY <4>1 DEF FlatStep
      <4>3. a[i + 1] = list[i + 1]
        BY <1>1, <3>1
      <4>4. QED
        BY <3>2, <3>3, <4>2, <4>3
    <3>5. QED
      BY <3>1, <3>4
  <2> HIDE DEF G
  <2>3. \A i \in 1 .. Len(list) : i \in G
    BY <1>1, <2>1, <2>2, StepInduction
  <2>4. QED
    BY <2>3 DEF a, G
<1>4. QED
  BY <1>2, <1>3

\* Flattening a list to which a sequence is appended.
LEMMA FlattenAppend ==
  ASSUME NEW S, NEW list \in Seq(Seq(S)), NEW s \in Seq(S)
  PROVE  FlattenSeq(list) \in Seq(S) => FlattenSeq(Append(list, s)) = FlattenSeq(list) \o s
<1> SUFFICES ASSUME FlattenSeq(list) \in Seq(S)
             PROVE  FlattenSeq(Append(list, s)) = FlattenSeq(list) \o s
  OBVIOUS
<1> DEFINE a == Append(list, s)
<1>1. /\ a \in Seq(Seq(S)) /\ Len(list) \in Nat /\ Len(a) = Len(list) + 1
      /\ a[Len(list) + 1] = s
  BY AppendParts
<1>2. \A i \in 1 .. Len(list) : Flats(a)[i] = Flats(list)[i]
  BY FlatsAppend
<1> HIDE DEF a
<1>3. Len(list) + 1 \in 1 .. Len(a) /\ Len(a) # 0
  BY <1>1
<1>4. FlattenSeq(a) = FlatStep(a, Flats(a), Len(list) + 1)
  BY <1>1, <1>3, FlattenIsLast, FlatsAt
<1>5. CASE Len(list) = 0
  <2>1. FlattenSeq(list) = <<>>
    <3>1. list = <<>>
      BY <1>5, EmptySeq
    <3>2. QED
      BY <3>1, <1>5 DEF FlattenSeq
  <2>2. FlattenSeq(a) = s
    BY <1>1, <1>4, <1>5 DEF FlatStep
  <2>3. QED
    BY <2>1, <2>2, ConcatEmptySeq DEF a
<1>6. CASE Len(list) # 0
  <2>1. Len(list) \in 1 .. Len(list) /\ Len(list) + 1 # 1 /\ Len(list) + 1 - 1 = Len(list)
    BY <1>1, <1>6
  <2>2. FlattenSeq(a) = Flats(a)[Len(list)] \o s
    BY <1>1, <1>4, <2>1 DEF FlatStep, Joined
  <2>3. FlattenSeq(list) = Flats(a)[Len(list)]
    BY <1>2, <1>6, <2>1, FlattenIsLast
  <2>4. QED
    BY <2>2, <2>3 DEF a
<1>7. QED
  BY <1>5, <1>6

\* A flattened list is a sequence of the elements' elements.
LEMMA FlattenType ==
  ASSUME NEW S
  PROVE  /\ FlattenSeq(<<>>) = <<>>
         /\ \A list \in Seq(Seq(S)) : FlattenSeq(list) \in Seq(S)
<1> DEFINE G == {l \in Seq(Seq(S)) : FlattenSeq(l) \in Seq(S)}
<1>1. FlattenSeq(<<>>) = <<>> /\ <<>> \in G
  <2>1. Len(<<>>) = 0 /\ <<>> \in Seq(Seq(S)) /\ <<>> \in Seq(S)
    BY EmptySeq
  <2>2. FlattenSeq(<<>>) = <<>>
    BY <2>1 DEF FlattenSeq
  <2>3. QED
    BY <2>1, <2>2
<1>2. ASSUME NEW l \in Seq(Seq(S)), NEW s \in Seq(S), l \in G
      PROVE  Append(l, s) \in G
  <2>1. Append(l, s) \in Seq(Seq(S))
    BY AppendParts
  <2>2. FlattenSeq(Append(l, s)) = FlattenSeq(l) \o s
    BY <1>2, FlattenAppend
  <2>3. FlattenSeq(l) \o s \in Seq(S)
    BY <1>2, ConcatProperties
  <2>4. QED
    BY <2>1, <2>2, <2>3
<1> HIDE DEF G
<1>3. \A l \in Seq(Seq(S)) : l \in G
  BY <1>1, <1>2, AppendInduction
<1>4. QED
  BY <1>1, <1>3 DEF G

\* Flattening a list to which a sequence is appended, or whose last sequence grows.
LEMMA FlattenGrows ==
  ASSUME NEW S, NEW list \in Seq(Seq(S)), NEW s \in Seq(S)
  PROVE  /\ FlattenSeq(list) \in Seq(S)
         /\ FlattenSeq(Append(list, s)) = FlattenSeq(list) \o s
BY FlattenType, FlattenAppend

\* Concatenation and appending.
LEMMA ConcatAppend ==
  ASSUME NEW S, NEW s \in Seq(S), NEW t \in Seq(S), NEW x \in S
  PROVE  s \o Append(t, x) = Append(s \o t, x)
<1>1. /\ <<x>> \in Seq(S) /\ \A u \in Seq(S) : Append(u, x) = u \o <<x>>
  BY AppendProperties
<1>2. s \o t \in Seq(S) /\ (s \o t) \o <<x>> = s \o (t \o <<x>>)
  BY <1>1, ConcatProperties, ConcatAssociative
<1>3. QED
  BY <1>1, <1>2

\* Flattening two lists, one after the other.
LEMMA FlattenConcat ==
  ASSUME NEW S, NEW l \in Seq(Seq(S)), NEW m \in Seq(Seq(S))
  PROVE  FlattenSeq(l \o m) = FlattenSeq(l) \o FlattenSeq(m)
<1> DEFINE G == {n \in Seq(Seq(S)) : FlattenSeq(l \o n) = FlattenSeq(l) \o FlattenSeq(n)}
<1>1. <<>> \in G
  <2>1. FlattenSeq(<<>>) = <<>> /\ <<>> \in Seq(Seq(S)) /\ l \o <<>> = l
    BY FlattenType, ConcatEmptySeq, EmptySeq
  <2>2. FlattenSeq(l) \o <<>> = FlattenSeq(l)
    BY FlattenType, ConcatEmptySeq
  <2>3. QED
    BY <2>1, <2>2
<1>2. ASSUME NEW n \in Seq(Seq(S)), NEW s \in Seq(S), n \in G
      PROVE  Append(n, s) \in G
  <2>1. Append(n, s) \in Seq(Seq(S)) /\ l \o n \in Seq(Seq(S))
    BY AppendParts, ConcatProperties
  <2>2. l \o Append(n, s) = Append(l \o n, s)
    BY ConcatAppend
  <2>3. /\ FlattenSeq(l) \in Seq(S) /\ FlattenSeq(n) \in Seq(S)
        /\ FlattenSeq(Append(n, s)) = FlattenSeq(n) \o s
        /\ FlattenSeq(Append(l \o n, s)) = FlattenSeq(l \o n) \o s
    BY <2>1, FlattenGrows
  <2>4. FlattenSeq(l \o n) = FlattenSeq(l) \o FlattenSeq(n)
    BY <1>2
  <2>5. (FlattenSeq(l) \o FlattenSeq(n)) \o s = FlattenSeq(l) \o (FlattenSeq(n) \o s)
    BY <2>3, ConcatAssociative, SMTT(30)
  <2>6. FlattenSeq(l \o Append(n, s)) = FlattenSeq(l) \o FlattenSeq(Append(n, s))
    BY <2>2, <2>3, <2>4, <2>5, Zenon
  <2>7. QED
    BY <2>1, <2>6, Zenon
<1> HIDE DEF G
<1>3. m \in G
  <2>1. \A n \in Seq(Seq(S)) : n \in G
    BY <1>1, <1>2, AppendInduction
  <2>2. QED
    BY <2>1
<1>4. QED
  BY <1>3 DEF G

\* What is in a sequence of a list is in the flattened list.
LEMMA FlattenHolds ==
  ASSUME NEW S, NEW list \in Seq(Seq(S)), NEW i \in 1 .. Len(list), NEW x \in ToSet(list[i])
  PROVE  x \in ToSet(FlattenSeq(list))
<1> DEFINE G == {l \in Seq(Seq(S)) :
                   \A j \in 1 .. Len(l) : ToSet(l[j]) \subseteq ToSet(FlattenSeq(l))}
<1>1. <<>> \in G
  <2>1. <<>> \in Seq(Seq(S)) /\ Len(<<>>) = 0
    BY EmptySeq
  <2>2. \A j \in 1 .. Len(<<>>) : FALSE
    BY <2>1
  <2>3. QED
    BY <2>1, <2>2
<1>2. ASSUME NEW l \in Seq(Seq(S)), NEW s \in Seq(S), l \in G
      PROVE  Append(l, s) \in G
  <2>1. /\ Append(l, s) \in Seq(Seq(S)) /\ Len(l) \in Nat /\ Len(Append(l, s)) = Len(l) + 1
        /\ \A j \in 1 .. Len(l) : Append(l, s)[j] = l[j]
        /\ Append(l, s)[Len(l) + 1] = s
    BY AppendParts
  <2>2. FlattenSeq(l) \in Seq(S) /\ FlattenSeq(Append(l, s)) = FlattenSeq(l) \o s
    BY FlattenGrows
  <2>3. ToSet(FlattenSeq(l) \o s) = ToSet(FlattenSeq(l)) \cup ToSet(s)
    BY <2>2, ConcatSet
  <2>4. ASSUME NEW j \in 1 .. Len(Append(l, s))
        PROVE  ToSet(Append(l, s)[j]) \subseteq ToSet(FlattenSeq(Append(l, s)))
    <3>1. CASE j \in 1 .. Len(l)
      BY <1>2, <2>1, <2>2, <2>3, <3>1
    <3>2. CASE j = Len(l) + 1
      BY <2>1, <2>2, <2>3, <3>2
    <3>3. QED
      BY <2>1, <3>1, <3>2
  <2>5. QED
    BY <2>1, <2>4
<1> HIDE DEF G
<1>3. list \in G
  <2>1. \A n \in Seq(Seq(S)) : n \in G
    BY <1>1, <1>2, AppendInduction
  <2>2. QED
    BY <2>1
<1>4. QED
  BY <1>3 DEF G

-----------------------------------------------------------------------------
(* Filtered *)

\* One unfolding of Filtered, with f for the shorter prefixes.
Put(s, x) == Append(s, x)
KeptStep(list, types, f, n) ==
  IF n = 0 THEN <<>>
  ELSE IF list[n].type \in types THEN f[n - 1] ELSE Put(f[n - 1], list[n])

\* The prefixes of a list, filtered.
Kepts(list, types) == CHOOSE f : f = [n \in 0 .. Len(list) |-> KeptStep(list, types, f, n)]

\* Filtered is the longest of them.
LEMMA FilteredIsLast ==
  ASSUME NEW list, NEW types
  PROVE  Filtered(list, types) = Kepts(list, types)[Len(list)]
BY DEF Filtered, Kepts, KeptStep, Put

\* The recursion has a solution.
LEMMA KeptsUnfold ==
  ASSUME NEW S, NEW types, NEW list \in Seq(S)
  PROVE  Kepts(list, types) =
           [n \in 0 .. Len(list) |-> KeptStep(list, types, Kepts(list, types), n)]
<1> DEFINE Sol(l) == \E f : f = [n \in 0 .. Len(l) |-> KeptStep(l, types, f, n)]
           G == {l \in Seq(S) : Sol(l)}
<1>1. <<>> \in G
  <2>1. <<>> \in Seq(S) /\ Len(<<>>) = 0
    BY EmptySeq
  <2> DEFINE f == [n \in 0 .. Len(<<>>) |-> <<>>]
  <2>2. f = [n \in 0 .. Len(<<>>) |-> KeptStep(<<>>, types, f, n)]
    <3>1. \A n \in 0 .. Len(<<>>) : n = 0
      BY <2>1
    <3>2. QED
      BY <3>1 DEF KeptStep
  <2>3. QED
    BY <2>1, <2>2
<1>2. ASSUME NEW l \in Seq(S), NEW x \in S, l \in G
      PROVE  Append(l, x) \in G
  <2>1. PICK f : f = [n \in 0 .. Len(l) |-> KeptStep(l, types, f, n)]
    BY <1>2
  <2> DEFINE a == Append(l, x)
             g == [n \in 0 .. Len(l) + 1 |-> IF n <= Len(l) THEN f[n] ELSE KeptStep(a, types, f, n)]
  <2>2. /\ a \in Seq(S) /\ Len(l) \in Nat /\ Len(a) = Len(l) + 1
        /\ \A i \in 1 .. Len(l) : a[i] = l[i]
    BY AppendParts
  <2> HIDE DEF a
  <2>3. ASSUME NEW n \in 0 .. Len(l) + 1
        PROVE  g[n] = KeptStep(a, types, g, n)
    <3>1. n # 0 => n - 1 \in 0 .. Len(l) /\ n - 1 \in 0 .. Len(l) + 1 /\ n - 1 <= Len(l)
      BY <2>2
    <3>2. n # 0 => g[n - 1] = f[n - 1]
      BY <3>1
    <3>3. CASE n <= Len(l)
      <4>1. n \in 0 .. Len(l) /\ g[n] = f[n] /\ (n # 0 => n \in 1 .. Len(l))
        BY <2>2, <3>3
      <4>2. f[n] = KeptStep(l, types, f, n)
        BY <2>1, <4>1
      <4>3. n # 0 => a[n] = l[n]
        BY <2>2, <4>1
      <4>4. QED
        BY <3>2, <4>1, <4>2, <4>3 DEF KeptStep
    <3>4. CASE ~(n <= Len(l))
      <4>1. g[n] = KeptStep(a, types, f, n)
        BY <3>4
      <4>2. QED
        BY <3>2, <4>1 DEF KeptStep
    <3>5. QED
      BY <3>3, <3>4
  <2>4. g = [n \in 0 .. Len(a) |-> KeptStep(a, types, g, n)]
    BY <2>2, <2>3
  <2>5. QED
    BY <2>2, <2>4 DEF a
<1>3. list \in G
  <2> HIDE DEF G
  <2>1. \A s \in Seq(S) : s \in G
    BY <1>1, <1>2, AppendInduction
  <2>2. QED
    BY <2>1
<1>4. QED
  BY <1>3 DEF Kepts

\* The prefixes one after the other.
LEMMA KeptsAt ==
  ASSUME NEW S, NEW types, NEW list \in Seq(S), NEW n \in 0 .. Len(list)
  PROVE  Kepts(list, types)[n] = KeptStep(list, types, Kepts(list, types), n)
BY KeptsUnfold

\* An appended element does not change what was before it.
LEMMA KeptsAppend ==
  ASSUME NEW S, NEW types, NEW list \in Seq(S), NEW x \in S
  PROVE  \A n \in 0 .. Len(list) : Kepts(Append(list, x), types)[n] = Kepts(list, types)[n]
<1> DEFINE a == Append(list, x)
           G == {n \in 0 .. Len(list) : Kepts(a, types)[n] = Kepts(list, types)[n]}
<1>1. /\ a \in Seq(S) /\ Len(list) \in Nat /\ Len(a) = Len(list) + 1
      /\ \A i \in 1 .. Len(list) : a[i] = list[i]
  BY AppendParts
<1> HIDE DEF a
<1>2. 0 \in G
  <2>1. 0 \in 0 .. Len(list) /\ 0 \in 0 .. Len(a)
    BY <1>1
  <2>2. /\ Kepts(a, types)[0] = KeptStep(a, types, Kepts(a, types), 0)
        /\ Kepts(list, types)[0] = KeptStep(list, types, Kepts(list, types), 0)
    BY <1>1, <2>1, KeptsAt
  <2>3. QED
    BY <2>1, <2>2 DEF KeptStep
<1>3. ASSUME NEW n \in 0 .. Len(list), n + 1 <= Len(list), n \in G
      PROVE  n + 1 \in G
  <2>1. /\ n + 1 \in 0 .. Len(list) /\ n + 1 \in 0 .. Len(a) /\ n + 1 # 0 /\ n + 1 - 1 = n
        /\ n + 1 \in 1 .. Len(list) /\ n \in Nat
    BY <1>1, <1>3
  <2>2. /\ Kepts(a, types)[n + 1] = KeptStep(a, types, Kepts(a, types), n + 1)
        /\ Kepts(list, types)[n + 1] = KeptStep(list, types, Kepts(list, types), n + 1)
    BY <1>1, <2>1, KeptsAt
  <2>3. Kepts(a, types)[n] = Kepts(list, types)[n] /\ a[n + 1] = list[n + 1]
    BY <1>1, <1>3, <2>1
  <2>4. \A l, f : KeptStep(l, types, f, n + 1) =
                    IF l[n + 1].type \in types THEN f[n] ELSE Put(f[n], l[n + 1])
    BY <2>1 DEF KeptStep
  <2>5. QED
    BY <2>1, <2>2, <2>3, <2>4
<1> HIDE DEF G
<1>4. \A n \in 0 .. Len(list) : n \in G
  BY <1>1, <1>2, <1>3, StepInduction
<1>5. QED
  BY <1>4 DEF a, G

\* Filtering a sequence to which an element is appended.
LEMMA FilteredAppend ==
  ASSUME NEW S, NEW types, NEW list \in Seq(S), NEW x \in S
  PROVE  Filtered(Append(list, x), types) =
           IF x.type \in types THEN Filtered(list, types) ELSE Append(Filtered(list, types), x)
<1> DEFINE a == Append(list, x)
<1>1. /\ a \in Seq(S) /\ Len(list) \in Nat /\ Len(a) = Len(list) + 1
      /\ a[Len(list) + 1] = x
  BY AppendParts
<1>2. \A n \in 0 .. Len(list) : Kepts(a, types)[n] = Kepts(list, types)[n]
  BY KeptsAppend
<1> HIDE DEF a
<1>3. Len(list) + 1 \in 0 .. Len(a) /\ Len(list) \in 0 .. Len(list)
      /\ Len(list) + 1 # 0 /\ Len(list) + 1 - 1 = Len(list)
  BY <1>1
<1>4. Filtered(a, types) = KeptStep(a, types, Kepts(a, types), Len(list) + 1)
  BY <1>1, <1>3, FilteredIsLast, KeptsAt
<1>5. Kepts(a, types)[Len(list)] = Filtered(list, types)
  BY <1>2, <1>3, FilteredIsLast
<1>6. Filtered(a, types) =
        IF x.type \in types THEN Filtered(list, types) ELSE Put(Filtered(list, types), x)
  BY <1>1, <1>3, <1>4, <1>5 DEF KeptStep
<1>7. QED
  BY <1>6 DEF Put, a

\* The filtered sequence.
LEMMA FilteredType ==
  ASSUME NEW S, NEW types
  PROVE  /\ Filtered(<<>>, types) = <<>>
         /\ \A s \in Seq(S) : /\ Filtered(s, types) \in Seq(S)
                              /\ \A i \in 1 .. Len(Filtered(s, types)) :
                                   Filtered(s, types)[i].type \notin types
<1> DEFINE F(s) == Filtered(s, types)
           G == {s \in Seq(S) : F(s) \in Seq(S) /\ \A i \in 1 .. Len(F(s)) : F(s)[i].type \notin types}
<1>1. F(<<>>) = <<>> /\ <<>> \in G
  <2>1. <<>> \in Seq(S) /\ Len(<<>>) = 0
    BY EmptySeq
  <2>2. F(<<>>) = <<>>
    <3>1. 0 \in 0 .. Len(<<>>)
      BY <2>1
    <3>2. Kepts(<<>>, types)[0] = KeptStep(<<>>, types, Kepts(<<>>, types), 0)
      BY <2>1, <3>1, KeptsAt
    <3>3. QED
      BY <2>1, <3>2, FilteredIsLast DEF KeptStep
  <2>3. \A i \in 1 .. Len(F(<<>>)) : FALSE
    BY <2>1, <2>2
  <2>4. QED
    BY <2>1, <2>2, <2>3
<1>2. ASSUME NEW s \in Seq(S), NEW x \in S, s \in G
      PROVE  Append(s, x) \in G
  <2>1. Append(s, x) \in Seq(S)
    BY AppendParts
  <2>2. F(s) \in Seq(S) /\ \A i \in 1 .. Len(F(s)) : F(s)[i].type \notin types
    BY <1>2
  <2>3. F(Append(s, x)) = IF x.type \in types THEN F(s) ELSE Append(F(s), x)
    BY FilteredAppend
  <2> HIDE DEF F
  <2>4. CASE x.type \in types
    BY <2>1, <2>2, <2>3, <2>4
  <2>5. CASE x.type \notin types
    <3>1. /\ Append(F(s), x) \in Seq(S) /\ Len(F(s)) \in Nat /\ Len(Append(F(s), x)) = Len(F(s)) + 1
          /\ \A i \in 1 .. Len(F(s)) : Append(F(s), x)[i] = F(s)[i]
          /\ Append(F(s), x)[Len(F(s)) + 1] = x
      BY <2>2, AppendParts
    <3>2. \A i \in 1 .. Len(Append(F(s), x)) : Append(F(s), x)[i].type \notin types
      BY <2>2, <2>5, <3>1
    <3>3. F(Append(s, x)) = Append(F(s), x)
      BY <2>3, <2>5
    <3>4. QED
      BY <2>1, <3>1, <3>2, <3>3
  <2>6. QED
    BY <2>4, <2>5
<1> HIDE DEF G
<1>3. \A s \in Seq(S) : s \in G
  BY <1>1, <1>2, AppendInduction
<1>4. QED
  BY <1>1, <1>3 DEF G

\* Filtering two sequences, one after the other.
LEMMA FilteredConcat ==
  ASSUME NEW S, NEW types, NEW s \in Seq(S), NEW t \in Seq(S)
  PROVE  Filtered(s \o t, types) = Filtered(s, types) \o Filtered(t, types)
<1> DEFINE F(u) == Filtered(u, types)
           G == {u \in Seq(S) : F(s \o u) = F(s) \o F(u)}
<1>1. <<>> \in G
  <2>1. F(<<>>) = <<>> /\ <<>> \in Seq(S) /\ s \o <<>> = s /\ F(s) \in Seq(S)
    BY FilteredType, ConcatEmptySeq, EmptySeq
  <2>2. F(s) \o <<>> = F(s)
    BY <2>1, ConcatEmptySeq
  <2>3. QED
    BY <2>1, <2>2
<1>2. ASSUME NEW u \in Seq(S), NEW x \in S, u \in G
      PROVE  Append(u, x) \in G
  <2>1. Append(u, x) \in Seq(S) /\ s \o u \in Seq(S) /\ F(s) \in Seq(S) /\ F(u) \in Seq(S)
    BY AppendParts, ConcatProperties, FilteredType
  <2>2. s \o Append(u, x) = Append(s \o u, x)
    BY ConcatAppend
  <2>3. F(Append(u, x)) = IF x.type \in types THEN F(u) ELSE Append(F(u), x)
    BY FilteredAppend
  <2>7. F(Append(s \o u, x)) = IF x.type \in types THEN F(s \o u) ELSE Append(F(s \o u), x)
    <3>1. \A v \in Seq(S) : F(Append(v, x)) = IF x.type \in types THEN F(v) ELSE Append(F(v), x)
      BY FilteredAppend
    <3>2. QED
      BY <2>1, <3>1, Zenon
  <2>4. F(s \o u) = F(s) \o F(u)
    BY <1>2
  <2>5. F(s) \o Append(F(u), x) = Append(F(s) \o F(u), x)
    BY <2>1, ConcatAppend
  <2> HIDE DEF F
  <2>6. F(s \o Append(u, x)) = F(s) \o F(Append(u, x))
    <3>1. CASE x.type \in types
      BY <2>2, <2>3, <2>4, <2>7, <3>1
    <3>2. CASE x.type \notin types
      BY <2>2, <2>3, <2>4, <2>5, <2>7, <3>2
    <3>3. QED
      BY <3>1, <3>2
  <2>8. QED
    BY <2>1, <2>6
<1> HIDE DEF G
<1>3. t \in G
  <2>1. \A u \in Seq(S) : u \in G
    BY <1>1, <1>2, AppendInduction
  <2>2. QED
    BY <2>1
<1>4. QED
  BY <1>3 DEF G

\* Filtering asks for nothing but the types.
LEMMA FilteredSame ==
  ASSUME NEW S, NEW T, NEW U, NEW s \in Seq(S),
         \A i \in 1 .. Len(s) : s[i].type \in T <=> s[i].type \in U
  PROVE  Filtered(s, T) = Filtered(s, U)
<1> DEFINE Same(u) == \A i \in 1 .. Len(u) : u[i].type \in T <=> u[i].type \in U
           G == {u \in Seq(S) : Same(u) => Filtered(u, T) = Filtered(u, U)}
<1>1. <<>> \in G
  BY FilteredType, EmptySeq
<1>2. ASSUME NEW u \in Seq(S), NEW x \in S, u \in G
      PROVE  Append(u, x) \in G
  <2>1. /\ Append(u, x) \in Seq(S) /\ Len(u) \in Nat /\ Len(Append(u, x)) = Len(u) + 1
        /\ \A i \in 1 .. Len(u) : Append(u, x)[i] = u[i]
        /\ Append(u, x)[Len(u) + 1] = x
    BY AppendParts
  <2>2. ASSUME Same(Append(u, x))
        PROVE  Same(u) /\ (x.type \in T <=> x.type \in U)
    <3>1. \A i \in 1 .. Len(u) : i \in 1 .. Len(Append(u, x))
      BY <2>1
    <3>2. Len(u) + 1 \in 1 .. Len(Append(u, x))
      BY <2>1
    <3>3. QED
      BY <2>1, <2>2, <3>1, <3>2
  <2>3. Filtered(Append(u, x), T) = IF x.type \in T THEN Filtered(u, T) ELSE Append(Filtered(u, T), x)
    BY FilteredAppend
  <2>4. Filtered(Append(u, x), U) = IF x.type \in U THEN Filtered(u, U) ELSE Append(Filtered(u, U), x)
    BY FilteredAppend
  <2>5. Same(u) => Filtered(u, T) = Filtered(u, U)
    BY <1>2
  <2> HIDE DEF Same
  <2>6. Same(Append(u, x)) => Filtered(Append(u, x), T) = Filtered(Append(u, x), U)
    BY <2>2, <2>3, <2>4, <2>5
  <2>7. QED
    BY <2>1, <2>6
<1> HIDE DEF G
<1>3. s \in G
  <2>1. \A u \in Seq(S) : u \in G
    BY <1>1, <1>2, AppendInduction
  <2>2. QED
    BY <2>1
<1>4. QED
  BY <1>3 DEF G

\* What is all of these types is filtered out.
LEMMA FilteredNone ==
  ASSUME NEW S, NEW types, NEW s \in Seq(S), \A i \in 1 .. Len(s) : s[i].type \in types
  PROVE  Filtered(s, types) = <<>>
<1> DEFINE G == {u \in Seq(S) : (\A i \in 1 .. Len(u) : u[i].type \in types) => Filtered(u, types) = <<>>}
<1>1. <<>> \in G
  BY FilteredType, EmptySeq
<1>2. ASSUME NEW u \in Seq(S), NEW x \in S, u \in G
      PROVE  Append(u, x) \in G
  <2>1. /\ Append(u, x) \in Seq(S) /\ Len(u) \in Nat /\ Len(Append(u, x)) = Len(u) + 1
        /\ \A i \in 1 .. Len(u) : Append(u, x)[i] = u[i]
        /\ Append(u, x)[Len(u) + 1] = x
    BY AppendParts
  <2>2. ASSUME \A i \in 1 .. Len(Append(u, x)) : Append(u, x)[i].type \in types
        PROVE  (\A i \in 1 .. Len(u) : u[i].type \in types) /\ x.type \in types
    <3>1. \A i \in 1 .. Len(u) : i \in 1 .. Len(Append(u, x))
      BY <2>1
    <3>2. Len(u) + 1 \in 1 .. Len(Append(u, x))
      BY <2>1
    <3>3. QED
      BY <2>1, <2>2, <3>1, <3>2
  <2>3. x.type \in types => Filtered(Append(u, x), types) = Filtered(u, types)
    BY FilteredAppend
  <2>4. QED
    BY <1>2, <2>1, <2>2, <2>3
<1> HIDE DEF G
<1>3. s \in G
  <2>1. \A u \in Seq(S) : u \in G
    BY <1>1, <1>2, AppendInduction
  <2>2. QED
    BY <2>1
<1>4. QED
  BY <1>3 DEF G

\* Filtering for fewer types first makes no difference.
LEMMA FilteredTwice ==
  ASSUME NEW S, NEW T, NEW U, T \subseteq U, NEW s \in Seq(S)
  PROVE  Filtered(Filtered(s, T), U) = Filtered(s, U)
<1> DEFINE G == {u \in Seq(S) : Filtered(Filtered(u, T), U) = Filtered(u, U)}
<1>1. <<>> \in G
  BY FilteredType, EmptySeq
<1>2. ASSUME NEW u \in Seq(S), NEW x \in S, u \in G
      PROVE  Append(u, x) \in G
  <2>1. Append(u, x) \in Seq(S) /\ Filtered(u, T) \in Seq(S)
    BY AppendParts, FilteredType
  <2>2. Filtered(Append(u, x), T) = IF x.type \in T THEN Filtered(u, T) ELSE Append(Filtered(u, T), x)
    BY FilteredAppend
  <2>3. Filtered(Append(u, x), U) = IF x.type \in U THEN Filtered(u, U) ELSE Append(Filtered(u, U), x)
    BY FilteredAppend
  <2>4. Filtered(Append(Filtered(u, T), x), U) =
          IF x.type \in U THEN Filtered(Filtered(u, T), U) ELSE Append(Filtered(Filtered(u, T), U), x)
    BY <2>1, FilteredAppend
  <2>5. Filtered(Filtered(u, T), U) = Filtered(u, U)
    BY <1>2
  <2>6. Filtered(Filtered(Append(u, x), T), U) = Filtered(Append(u, x), U)
    BY <2>2, <2>3, <2>4, <2>5
  <2>7. QED
    BY <2>1, <2>6
<1> HIDE DEF G
<1>3. s \in G
  <2>1. \A u \in Seq(S) : u \in G
    BY <1>1, <1>2, AppendInduction
  <2>2. QED
    BY <2>1
<1>4. QED
  BY <1>3 DEF G

\* The actions of the server in two sequences, one after the other.
LEMMA RealConcat ==
  ASSUME NEW S
  PROVE  \A s, t \in Seq(S) : Real(s \o t) = Real(s) \o Real(t)
BY FilteredConcat DEF Real

\* A list whose sequences are filtered, flattened.
LEMMA StrippedReal ==
  ASSUME NEW S, NEW list \in Seq(Seq(S))
  PROVE  /\ Stripped(list) \in Seq(Seq(S)) /\ Len(Stripped(list)) = Len(list)
         /\ Real(FlattenSeq(Stripped(list))) = Real(FlattenSeq(list))
<1> DEFINE G == {l \in Seq(Seq(S)) : /\ Stripped(l) \in Seq(Seq(S)) /\ Len(Stripped(l)) = Len(l)
                                     /\ Real(FlattenSeq(Stripped(l))) = Real(FlattenSeq(l))}
<1>1. <<>> \in G
  <2>1. <<>> \in Seq(Seq(S)) /\ DOMAIN <<>> = {}
    BY EmptySeq
  <2>2. Stripped(<<>>) = <<>>
    BY <2>1 DEF Stripped
  <2>3. QED
    BY <2>1, <2>2
<1>2. ASSUME NEW l \in Seq(Seq(S)), NEW s \in Seq(S), l \in G
      PROVE  Append(l, s) \in G
  <2>1. /\ Append(l, s) \in Seq(Seq(S)) /\ Len(l) \in Nat /\ Len(Append(l, s)) = Len(l) + 1
        /\ \A i \in 1 .. Len(l) : Append(l, s)[i] = l[i]
        /\ Append(l, s)[Len(l) + 1] = s
    BY AppendParts
  <2>2. DOMAIN l = 1 .. Len(l) /\ DOMAIN Append(l, s) = 1 .. Len(l) + 1
    BY <2>1, LenProperties
  <2>3. Stripped(l) \in Seq(Seq(S)) /\ Len(Stripped(l)) = Len(l) /\ Plain(s) \in Seq(S)
    BY <1>2, FilteredType DEF Plain
  <2>4. /\ Append(Stripped(l), Plain(s)) \in Seq(Seq(S))
        /\ Len(Append(Stripped(l), Plain(s))) = Len(l) + 1
        /\ \A i \in 1 .. Len(l) : Append(Stripped(l), Plain(s))[i] = Stripped(l)[i]
        /\ Append(Stripped(l), Plain(s))[Len(l) + 1] = Plain(s)
    BY <2>3, AppendParts, SMTT(30)
  <2>5. Stripped(Append(l, s)) = Append(Stripped(l), Plain(s))
    <3>1. DOMAIN Append(Stripped(l), Plain(s)) = 1 .. Len(l) + 1
      BY <2>4, LenProperties
    <3>2. \A i \in 1 .. Len(l) + 1 : Plain(Append(l, s)[i]) = Append(Stripped(l), Plain(s))[i]
      <4> SUFFICES ASSUME NEW i \in 1 .. Len(l) + 1
                   PROVE  Plain(Append(l, s)[i]) = Append(Stripped(l), Plain(s))[i]
        OBVIOUS
      <4>1. CASE i \in 1 .. Len(l)
        <5>1. Append(l, s)[i] = l[i] /\ Append(Stripped(l), Plain(s))[i] = Stripped(l)[i]
          BY <2>1, <2>4, <4>1
        <5>2. Stripped(l)[i] = Plain(l[i])
          BY <2>2, <4>1 DEF Stripped
        <5>3. QED
          BY <5>1, <5>2, Zenon
      <4>2. CASE i = Len(l) + 1
        BY <2>1, <2>4, <4>2
      <4>3. i \in 1 .. Len(l) \/ i = Len(l) + 1
        BY <2>1
      <4>4. QED
        BY <4>1, <4>2, <4>3, Zenon
    <3>3. Append(Stripped(l), Plain(s)) =
            [i \in 1 .. Len(l) + 1 |-> Append(Stripped(l), Plain(s))[i]]
      <4>1. Append(Stripped(l), Plain(s)) \in [1 .. Len(l) + 1 -> Seq(S)]
        BY <2>4, LenProperties
      <4>2. QED
        BY <4>1
    <3>4. Stripped(Append(l, s)) = [i \in 1 .. Len(l) + 1 |-> Plain(Append(l, s)[i])]
      BY <2>2, Zenon DEF Stripped
    <3>5. QED
      BY <3>2, <3>3, <3>4, Zenon
  <2>6. FlattenSeq(Stripped(l)) \in Seq(S) /\ FlattenSeq(l) \in Seq(S)
    BY <2>3, FlattenType
  <2>7. FlattenSeq(Append(l, s)) = FlattenSeq(l) \o s
    BY FlattenGrows
  <2>8. FlattenSeq(Append(Stripped(l), Plain(s))) = FlattenSeq(Stripped(l)) \o Plain(s)
    BY <2>3, FlattenGrows
  <2>9. Real(FlattenSeq(l) \o s) = Real(FlattenSeq(l)) \o Real(s)
    BY <2>6, RealConcat, Zenon
  <2>10. Real(FlattenSeq(Stripped(l)) \o Plain(s)) = Real(FlattenSeq(Stripped(l))) \o Real(Plain(s))
    BY <2>3, <2>6, RealConcat, Zenon
  <2>11. Real(Plain(s)) = Real(s)
    BY FilteredTwice DEF Real, Plain
  <2>12. Real(FlattenSeq(Stripped(l))) = Real(FlattenSeq(l))
    BY <1>2
  <2>13. Real(FlattenSeq(Stripped(Append(l, s)))) = Real(FlattenSeq(Append(l, s)))
    BY <2>5, <2>7, <2>8, <2>9, <2>10, <2>11, <2>12, Zenon
  <2>14. QED
    BY <2>1, <2>4, <2>5, <2>13
<1> HIDE DEF G
<1>3. list \in G
  <2>1. \A u \in Seq(Seq(S)) : u \in G
    BY <1>1, <1>2, AppendInduction
  <2>2. QED
    BY <2>1
<1>4. QED
  BY <1>3 DEF G

-----------------------------------------------------------------------------
(* Sequences as functions *)

\* A function on the first n numbers is a sequence.
LEMMA FunctionIsSeq ==
  ASSUME NEW S, NEW n \in Nat, NEW f \in [1 .. n -> S]
  PROVE  f \in Seq(S) /\ Len(f) = n /\ ToSet(f) = {f[i] : i \in 1 .. n}
<1>1. f \in Seq(S)
  BY SeqDef
<1>2. DOMAIN f = 1 .. n /\ DOMAIN f = 1 .. Len(f) /\ Len(f) \in Nat
  BY <1>1, LenProperties
<1>3. Len(f) = n
  BY <1>2
<1>4. QED
  BY <1>1, <1>2, <1>3 DEF ToSet

\* The elements of a sequence.
LEMMA SeqElements ==
  ASSUME NEW S, NEW s \in Seq(S)
  PROVE  /\ Len(s) \in Nat /\ DOMAIN s = 1 .. Len(s) /\ ToSet(s) = {s[i] : i \in 1 .. Len(s)}
         /\ \A i \in 1 .. Len(s) : s[i] \in S /\ s[i] \in ToSet(s)
<1>1. Len(s) \in Nat /\ DOMAIN s = 1 .. Len(s)
  BY LenProperties
<1>2. \A i \in 1 .. Len(s) : s[i] \in S
  BY ElementOfSeq
<1>3. QED
  BY <1>1, <1>2 DEF ToSet

\* A sequence that is one longer than another and begins like it.
LEMMA OneLonger ==
  ASSUME NEW S, NEW s \in Seq(S), NEW t \in Seq(S), Len(t) = Len(s) + 1,
         \A i \in 1 .. Len(s) : t[i] = s[i]
  PROVE  t = Append(s, t[Len(s) + 1])
<1>1. Len(s) \in Nat
  BY LenProperties
<1>2. t[Len(s) + 1] \in S
  <2>1. Len(s) + 1 \in 1 .. Len(t)
    BY <1>1
  <2>2. QED
    BY <2>1, ElementOfSeq
<1> DEFINE a == Append(s, t[Len(s) + 1])
<1>3. /\ a \in Seq(S) /\ Len(a) = Len(s) + 1
      /\ \A i \in 1 .. Len(s) : a[i] = s[i]
      /\ a[Len(s) + 1] = t[Len(s) + 1]
  BY <1>2, AppendParts
<1> HIDE DEF a
<1>4. \A i \in 1 .. Len(t) : t[i] = a[i]
  <2> SUFFICES ASSUME NEW i \in 1 .. Len(t) PROVE t[i] = a[i]
    OBVIOUS
  <2>1. i \in 1 .. Len(s) \/ i = Len(s) + 1
    BY <1>1
  <2>2. QED
    BY <1>3, <2>1
<1>5. t = a
  BY <1>3, <1>4, SeqEqual
<1>6. QED
  BY <1>5 DEF a

\* The elements of a sequence to which one is appended.
LEMMA AppendSet ==
  ASSUME NEW S, NEW s \in Seq(S), NEW x \in S
  PROVE  ToSet(Append(s, x)) = ToSet(s) \cup {x}
<1> DEFINE a == Append(s, x)
<1>1. /\ a \in Seq(S) /\ Len(s) \in Nat /\ Len(a) = Len(s) + 1
      /\ \A i \in 1 .. Len(s) : a[i] = s[i]
      /\ a[Len(s) + 1] = x
  BY AppendParts
<1> HIDE DEF a
<1>2. ToSet(a) = {a[i] : i \in 1 .. Len(a)} /\ ToSet(s) = {s[i] : i \in 1 .. Len(s)}
  BY <1>1, SeqElements
<1>3. ASSUME NEW y \in ToSet(a) PROVE y \in ToSet(s) \cup {x}
  <2>1. PICK i \in 1 .. Len(a) : y = a[i]
    BY <1>2
  <2>2. i \in 1 .. Len(s) \/ i = Len(s) + 1
    BY <1>1
  <2>3. QED
    BY <1>1, <1>2, <2>1, <2>2
<1>4. ASSUME NEW y \in ToSet(s) PROVE y \in ToSet(a)
  <2>1. PICK i \in 1 .. Len(s) : y = s[i]
    BY <1>2
  <2>2. i \in 1 .. Len(a) /\ a[i] = y
    BY <1>1, <2>1
  <2>3. QED
    BY <1>2, <2>2
<1>5. x \in ToSet(a)
  <2>1. Len(s) + 1 \in 1 .. Len(a)
    BY <1>1
  <2>2. QED
    BY <1>1, <1>2, <2>1
<1>6. QED
  BY <1>3, <1>4, <1>5 DEF a

\* The first element and the others.
LEMMA HeadAndTail ==
  ASSUME NEW S, NEW s \in Seq(S), s # <<>>
  PROVE  /\ Len(s) \in Nat \ {0} /\ Head(s) = s[1] /\ s[1] \in S
         /\ Tail(s) \in Seq(S) /\ Len(Tail(s)) = Len(s) - 1
         /\ \A i \in 1 .. Len(s) - 1 : Tail(s)[i] = s[i + 1]
<1>1. Len(s) \in Nat \ {0}
  BY EmptySeq
<1>2. Head(s) \in S /\ Tail(s) \in Seq(S)
  BY HeadTailProperties
<1>3. Len(Tail(s)) = Len(s) - 1 /\ \A i \in 1 .. Len(Tail(s)) : Tail(s)[i] = s[i + 1]
  BY HeadTailProperties
<1>4. Head(s) = s[1]
  OBVIOUS
<1>5. QED
  BY <1>1, <1>2, <1>3, <1>4

\* The list with holes up to the n-th entry.
Pad(list, n) == [j \in 1 .. n |-> IF j \in DOMAIN list THEN list[j] ELSE Hole]

\* Holes make no difference to what is in the list.
LEMMA PadFlat ==
  ASSUME NEW S, NEW list \in Seq(Seq(S)), NEW n \in Nat, Len(list) <= n
  PROVE  /\ Pad(list, n) \in Seq(Seq(S)) /\ Len(Pad(list, n)) = n
         /\ \A i \in 1 .. Len(list) : Pad(list, n)[i] = list[i]
         /\ \A i \in Len(list) + 1 .. n : Pad(list, n)[i] = <<>>
         /\ FlattenSeq(Pad(list, n)) = FlattenSeq(list)
<1>1. Len(list) \in Nat /\ DOMAIN list = 1 .. Len(list) /\ \A i \in 1 .. Len(list) : list[i] \in Seq(S)
  BY SeqElements
<1>2. <<>> \in Seq(S)
  BY EmptySeq
<1>3. ASSUME NEW m \in Nat, Len(list) <= m
      PROVE  /\ Pad(list, m) \in Seq(Seq(S)) /\ Len(Pad(list, m)) = m
             /\ \A i \in 1 .. Len(list) : Pad(list, m)[i] = list[i]
             /\ \A i \in Len(list) + 1 .. m : Pad(list, m)[i] = <<>>
  <2>1. Pad(list, m) \in [1 .. m -> Seq(S)]
    BY <1>1, <1>2 DEF Pad, Hole
  <2>2. Pad(list, m) \in Seq(Seq(S)) /\ Len(Pad(list, m)) = m
    BY <2>1, FunctionIsSeq
  <2>3. \A i \in 1 .. Len(list) : Pad(list, m)[i] = list[i]
    BY <1>1, <1>3 DEF Pad
  <2>4. \A i \in Len(list) + 1 .. m : Pad(list, m)[i] = <<>>
    BY <1>1, <1>3 DEF Pad, Hole
  <2>5. QED
    BY <2>2, <2>3, <2>4
<1> DEFINE G == {m \in Len(list) .. n : FlattenSeq(Pad(list, m)) = FlattenSeq(list)}
<1>4. Len(list) \in G
  <2>1. Pad(list, Len(list)) = list
    <3>1. Pad(list, Len(list)) \in Seq(Seq(S)) /\ Len(Pad(list, Len(list))) = Len(list)
          /\ \A i \in 1 .. Len(list) : Pad(list, Len(list))[i] = list[i]
      BY <1>1, <1>3
    <3>2. QED
      BY <3>1, SeqEqual
  <2>2. QED
    BY <1>1, <2>1
<1>5. ASSUME NEW m \in Len(list) .. n, m + 1 <= n, m \in G
      PROVE  m + 1 \in G
  <2>1. m \in Nat /\ m + 1 \in Nat /\ Len(list) <= m /\ Len(list) <= m + 1 /\ m + 1 \in Len(list) .. n
        /\ m + 1 \in Len(list) + 1 .. m + 1
    BY <1>1, <1>5
  <2>2. /\ Pad(list, m) \in Seq(Seq(S)) /\ Len(Pad(list, m)) = m
        /\ Pad(list, m + 1) \in Seq(Seq(S)) /\ Len(Pad(list, m + 1)) = m + 1
        /\ Pad(list, m + 1)[m + 1] = <<>>
    BY <1>3, <2>1
  <2>3. \A i \in 1 .. m : Pad(list, m + 1)[i] = Pad(list, m)[i]
    BY <2>1 DEF Pad
  <2>4. Pad(list, m + 1) = Append(Pad(list, m), <<>>)
    BY <2>2, <2>3, OneLonger
  <2>5. FlattenSeq(Pad(list, m)) \in Seq(S)
        /\ FlattenSeq(Append(Pad(list, m), <<>>)) = FlattenSeq(Pad(list, m)) \o <<>>
    BY <1>2, <2>2, FlattenGrows
  <2>6. FlattenSeq(Pad(list, m)) \o <<>> = FlattenSeq(Pad(list, m))
    BY <2>5, ConcatEmptySeq
  <2>7. FlattenSeq(Pad(list, m)) = FlattenSeq(list)
    BY <1>5
  <2>8. FlattenSeq(Pad(list, m + 1)) = FlattenSeq(list)
    BY <2>4, <2>5, <2>6, <2>7, Zenon
  <2>9. QED
    BY <2>1, <2>8
<1> HIDE DEF G
<1>6. \A m \in Len(list) .. n : m \in G
  BY <1>1, <1>4, <1>5, StepInduction
<1>7. FlattenSeq(Pad(list, n)) = FlattenSeq(list)
  <2>1. n \in Len(list) .. n
    BY <1>1
  <2>2. QED
    BY <1>6, <2>1 DEF G
<1>8. QED
  BY <1>3, <1>7

-----------------------------------------------------------------------------
(* The actions *)

AnyAct == Act \cup {NoAct}

\* The types tell the actions apart.
LEMMA ActTypes ==
  /\ \A a \in AnyAct : a \in RealAct <=> a.type \notin Specials \cup {"none"}
  /\ \A a \in AnyAct : a \in SpecialAct <=> a.type \in Specials
  /\ \A a \in AnyAct : a = NoAct <=> a.type = "none"
  /\ \A a \in AnyAct : a \in DrawAct <=> a.type = "draw"
  /\ \A a \in AnyAct : a \in ClueAct <=> a.type = "clue"
  /\ \A a \in AnyAct : a \in LeaveAct <=> a.type \in {"play", "discard"}
  /\ \A a \in AnyAct : a \in TurnAct <=> a.type = "turn"
  /\ \A a \in AnyAct : a \in OverAct <=> a.type = "gameOver"
  /\ \A a \in AnyAct : a \in IdentifyAct <=> a.type = "identify"
  /\ \A a \in AnyAct : a \in MarkAct <=> a.type \in {"ignore", "finesse"}
<1>1. /\ \A a \in DrawAct : a.type = "draw"
      /\ \A a \in ClueAct : a.type = "clue"
      /\ \A a \in LeaveAct : a.type \in {"play", "discard"}
      /\ \A a \in TurnAct : a.type = "turn"
      /\ \A a \in OverAct : a.type = "gameOver"
      /\ \A a \in IdentifyAct : a.type = "identify"
      /\ \A a \in MarkAct : a.type \in {"ignore", "finesse"}
      /\ NoAct.type = "none"
  BY DEF DrawAct, ClueAct, LeaveAct, TurnAct, OverAct, IdentifyAct, MarkAct, NoAct
<1>2. \A a \in AnyAct : \/ a \in DrawAct \/ a \in ClueAct \/ a \in LeaveAct \/ a \in TurnAct
                        \/ a \in OverAct \/ a \in IdentifyAct \/ a \in MarkAct \/ a = NoAct
  BY DEF AnyAct, Act, RealAct, SpecialAct
<1>3. QED
  BY <1>1, <1>2, SMT DEF RealAct, SpecialAct, Specials

\* The actions of the server in a sequence to which one is appended.
LEMMA RealAppend ==
  ASSUME NEW s \in Seq(AnyAct), NEW a \in AnyAct
  PROVE  Real(Append(s, a)) = IF a \in RealAct THEN Append(Real(s), a) ELSE Real(s)
<1>1. a \in RealAct <=> a.type \notin Specials \cup {"none"}
  BY ActTypes
<1>2. Filtered(Append(s, a), Specials \cup {"none"}) =
        IF a.type \in Specials \cup {"none"} THEN Filtered(s, Specials \cup {"none"})
        ELSE Append(Filtered(s, Specials \cup {"none"}), a)
  BY FilteredAppend
<1>3. QED
  BY <1>1, <1>2 DEF Real

\* The actions of the server in a sequence.
LEMMA RealType ==
  /\ Real(<<>>) = <<>>
  /\ \A s \in Seq(AnyAct) : Real(s) \in Seq(RealAct)
  /\ \A s \in Seq(SpecialAct) : Real(s) = <<>>
  /\ \A s \in Seq(RealAct) : Real(s) = s
<1>1. Real(<<>>) = <<>>
  BY FilteredType DEF Real
<1>2. ASSUME NEW s \in Seq(AnyAct) PROVE Real(s) \in Seq(RealAct)
  <2>1. /\ Real(s) \in Seq(AnyAct)
        /\ \A i \in 1 .. Len(Real(s)) : Real(s)[i].type \notin Specials \cup {"none"}
    BY FilteredType DEF Real
  <2>2. \A i \in 1 .. Len(Real(s)) : Real(s)[i] \in AnyAct
    BY <2>1, SeqElements
  <2>3. \A i \in 1 .. Len(Real(s)) : Real(s)[i] \in RealAct
    BY <2>1, <2>2, ActTypes
  <2>4. QED
    BY <2>1, <2>3, SeqByElements
<1>3. ASSUME NEW s \in Seq(SpecialAct) PROVE Real(s) = <<>>
  <2>1. \A i \in 1 .. Len(s) : s[i] \in SpecialAct
    BY SeqElements
  <2>2. \A i \in 1 .. Len(s) : s[i].type \in Specials \cup {"none"}
    BY <2>1, ActTypes DEF AnyAct, Act
  <2>3. QED
    BY <2>2, FilteredNone DEF Real
<1>4. ASSUME NEW s \in Seq(RealAct) PROVE Real(s) = s
  <2> DEFINE G == {u \in Seq(RealAct) : Real(u) = u}
  <2>1. <<>> \in G
    BY <1>1, EmptySeq
  <2>2. ASSUME NEW u \in Seq(RealAct), NEW x \in RealAct, u \in G
        PROVE  Append(u, x) \in G
    <3>1. x \in AnyAct
      BY DEF AnyAct, Act
    <3>2. u \in Seq(AnyAct)
      <4>1. \A i \in 1 .. Len(u) : u[i] \in AnyAct
        BY SeqElements DEF AnyAct, Act
      <4>2. QED
        BY <4>1, SeqByElements
    <3>3. Real(Append(u, x)) = Append(Real(u), x)
      BY <3>1, <3>2, RealAppend
    <3>4. Real(u) = u
      BY <2>2
    <3>5. Append(u, x) \in Seq(RealAct)
      BY AppendParts
    <3>6. QED
      BY <3>3, <3>4, <3>5
  <2> HIDE DEF G
  <2>3. \A u \in Seq(RealAct) : u \in G
    BY <2>1, <2>2, AppendInduction
  <2>4. QED
    BY <2>3 DEF G
<1>5. QED
  BY <1>1, <1>2, <1>3, <1>4

\* A sequence over fewer elements is one over more.
LEMMA SeqSubset ==
  ASSUME NEW S, NEW T, S \subseteq T, NEW s \in Seq(S)
  PROVE  s \in Seq(T)
<1>1. Len(s) \in Nat /\ s \in [1 .. Len(s) -> S]
  BY LenProperties
<1>2. s \in [1 .. Len(s) -> T]
  BY <1>1
<1>3. QED
  BY <1>1, <1>2, SeqDef

\* What LogKept says of a list is what the proof says of it.
LEMMA PlainIsReal ==
  ASSUME NEW s \in Seq(Act)
  PROVE  Plain(s) = Real(s)
<1>1. \A i \in 1 .. Len(s) : s[i] \in Act
  BY SeqElements
<1>2. \A i \in 1 .. Len(s) : s[i].type \in Specials <=> s[i].type \in Specials \cup {"none"}
  <2>1. \A a \in Act : a.type # "none"
    <3>1. \A a \in Act : a # NoAct
      BY DEF Act, RealAct, SpecialAct, DrawAct, ClueAct, LeaveAct, TurnAct, OverAct, IdentifyAct, MarkAct, NoAct
    <3>2. QED
      BY <3>1, ActTypes DEF AnyAct
  <2>2. QED
    BY <1>1, <2>1
<1>3. Filtered(s, Specials) = Filtered(s, Specials \cup {"none"})
  BY <1>2, FilteredSame
<1>4. QED
  BY <1>3 DEF Plain, Real

-----------------------------------------------------------------------------
(* Record *)

\* The last of one or two numbers.
LEMMA MaxOfTwo ==
  ASSUME NEW i \in Nat, NEW j \in Nat, j <= i
  PROVE  Max({i, j}) = i
BY DEF Max

\* The list in which an action has been filed under entry t.
WithAct(list, t, a) == [Stretched(list, t) EXCEPT ![t] = Append(Stretched(list, t)[t], a)]

\* It is filed after all others.
LEMMA Recorded ==
  ASSUME NEW list \in Seq(Seq(Act)), NEW a \in Act, NEW t \in Nat \ {0}, Len(list) <= t
  PROVE  LET new == WithAct(list, t, a)
         IN  /\ new \in Seq(Seq(Act)) /\ Len(new) = t
             /\ FlattenSeq(new) = Append(FlattenSeq(list), a)
             /\ a \in ToSet(new[t])
             /\ \A i \in 1 .. Len(list) : ToSet(list[i]) \subseteq ToSet(new[i])
<1> DEFINE new == WithAct(list, t, a)
<1>1. Len(list) \in Nat /\ DOMAIN list = 1 .. Len(list) /\ \A i \in 1 .. Len(list) : list[i] \in Seq(Act)
  BY SeqElements
<1>2. Stretched(list, t) = Pad(list, t)
  BY <1>1, MaxOfTwo DEF Stretched, Pad
<1> DEFINE long == Pad(list, t)
           front == Pad(list, t - 1)
           before == long[t]
<1>3. /\ long \in Seq(Seq(Act)) /\ Len(long) = t
      /\ \A i \in 1 .. Len(list) : long[i] = list[i]
      /\ \A i \in Len(list) + 1 .. t : long[i] = <<>>
      /\ FlattenSeq(long) = FlattenSeq(list)
  BY PadFlat
<1>4. before \in Seq(Act) /\ DOMAIN long = 1 .. t
  <2>1. t \in 1 .. Len(long)
    BY <1>3
  <2>2. QED
    BY <1>3, <2>1, SeqElements
<1>5. new = [long EXCEPT ![t] = Append(before, a)]
  BY <1>2 DEF WithAct
<1> HIDE DEF new
<1> DEFINE start == SubSeq(long, 1, t - 1)
<1>6. start \in Seq(Seq(Act)) /\ Len(start) = t - 1 /\ long = Append(start, before)
  <2>1. long # <<>>
    BY <1>3, EmptySeq
  <2>2. QED
    BY <1>3, <2>1, LastAppended
<1> HIDE DEF long, front, before, start
<1>7. /\ Append(before, a) \in Seq(Act) /\ ToSet(Append(before, a)) = ToSet(before) \cup {a}
  BY <1>4, AppendParts, AppendSet
<1>8. new \in Seq(Seq(Act)) /\ Len(new) = t
  <2>1. long \in [1 .. t -> Seq(Act)]
    BY <1>3, LenProperties
  <2>2. new \in [1 .. t -> Seq(Act)]
    BY <1>5, <1>7, <2>1
  <2>3. QED
    BY <2>2, FunctionIsSeq
<1>9. new = Append(start, Append(before, a))
  <2>1. \A i \in 1 .. Len(start) : long[i] = start[i]
    BY <1>4, <1>6, AppendParts
  <2>2. \A i \in 1 .. Len(start) : new[i] = start[i]
    <3> SUFFICES ASSUME NEW i \in 1 .. Len(start) PROVE new[i] = start[i]
      OBVIOUS
    <3>1. i \in 1 .. t /\ i # t
      BY <1>6
    <3>2. new[i] = long[i]
      BY <1>4, <1>5, <3>1
    <3>3. QED
      BY <2>1, <3>2
  <2>3. new[t] = Append(before, a)
    BY <1>4, <1>5
  <2>4. Len(new) = Len(start) + 1 /\ Len(start) + 1 = t
    BY <1>6, <1>8
  <2>5. new = Append(start, new[Len(start) + 1])
    BY <1>6, <1>8, <2>2, <2>4, OneLonger
  <2>6. QED
    BY <2>3, <2>4, <2>5
<1>10. FlattenSeq(new) = Append(FlattenSeq(list), a)
  <2>1. FlattenSeq(start) \in Seq(Act)
        /\ FlattenSeq(Append(start, before)) = FlattenSeq(start) \o before
    BY <1>4, <1>6, FlattenGrows
  <2>2. FlattenSeq(Append(start, Append(before, a))) = FlattenSeq(start) \o Append(before, a)
    BY <1>6, <1>7, FlattenGrows
  <2>3. FlattenSeq(start) \o Append(before, a) = Append(FlattenSeq(start) \o before, a)
    BY <1>4, <2>1, ConcatAppend
  <2>4. QED
    BY <1>3, <1>6, <1>9, <2>1, <2>2, <2>3, Zenon
<1>14. t \in 1 .. t
  OBVIOUS
<1>15. new[t] = Append(before, a)
  BY <1>4, <1>5, <1>14
<1>11. a \in ToSet(new[t])
  BY <1>7, <1>15
<1>12. ASSUME NEW i \in 1 .. Len(list) PROVE ToSet(list[i]) \subseteq ToSet(new[i])
  <2>1. CASE i = t
    <3>1. before = list[i]
      BY <1>3, <2>1 DEF before
    <3>2. QED
      BY <1>7, <1>15, <2>1, <3>1, Zenon
  <2>2. CASE i # t
    <3>1. i \in 1 .. t /\ long[i] = list[i]
      BY <1>1, <1>3
    <3>2. new[i] = list[i]
      BY <1>4, <1>5, <2>2, <3>1
    <3>3. QED
      BY <3>2
  <2>3. QED
    BY <2>1, <2>2
<1>13. QED
  BY <1>8, <1>10, <1>11, <1>12 DEF new

-----------------------------------------------------------------------------
(* What is left to do *)

\* The actions of a sequence of entries.
LEMMA ActsParts ==
  ASSUME NEW s \in Seq(Entry)
  PROVE  /\ Acts(s) \in Seq(AnyAct) /\ Len(Acts(s)) = Len(s)
         /\ \A i \in 1 .. Len(s) : Acts(s)[i] = s[i].act
         /\ ToSet(Acts(s)) = {s[i].act : i \in 1 .. Len(s)}
<1>1. Len(s) \in Nat /\ \A i \in 1 .. Len(s) : s[i] \in Entry
  BY SeqElements
<1>2. \A e \in Entry : e.act \in AnyAct
  BY DEF Entry, AnyAct
<1>3. Acts(s) \in [1 .. Len(s) -> AnyAct] /\ \A i \in 1 .. Len(s) : Acts(s)[i] = s[i].act
  BY <1>1, <1>2 DEF Acts
<1>4. Acts(s) \in Seq(AnyAct) /\ Len(Acts(s)) = Len(s)
      /\ ToSet(Acts(s)) = {Acts(s)[i] : i \in 1 .. Len(s)}
  <2> DEFINE f == Acts(s)
             n == Len(s)
  <2>1. n \in Nat /\ f \in [1 .. n -> AnyAct]
    BY <1>1, <1>3
  <2> HIDE DEF f, n
  <2>2. f \in Seq(AnyAct) /\ Len(f) = n /\ ToSet(f) = {f[i] : i \in 1 .. n}
    BY <2>1, FunctionIsSeq
  <2>3. QED
    BY <2>2 DEF f, n
<1>5. {Acts(s)[i] : i \in 1 .. Len(s)} = {s[i].act : i \in 1 .. Len(s)}
  BY <1>3
<1>6. QED
  BY <1>3, <1>4, <1>5

\* The actions of two sequences of entries, one after the other.
LEMMA ActsConcat ==
  ASSUME NEW s \in Seq(Entry), NEW t \in Seq(Entry)
  PROVE  s \o t \in Seq(Entry) /\ Acts(s \o t) = Acts(s) \o Acts(t)
<1> DEFINE u == s \o t
           v == Acts(s) \o Acts(t)
<1>1. /\ u \in Seq(Entry) /\ Len(u) = Len(s) + Len(t) /\ Len(s) \in Nat /\ Len(t) \in Nat
      /\ \A i \in 1 .. Len(s) + Len(t) : u[i] = IF i <= Len(s) THEN s[i] ELSE t[i - Len(s)]
  BY ConcatProperties, LenProperties
<1>2. /\ Acts(s) \in Seq(AnyAct) /\ Len(Acts(s)) = Len(s) /\ Acts(t) \in Seq(AnyAct) /\ Len(Acts(t)) = Len(t)
      /\ \A i \in 1 .. Len(s) : Acts(s)[i] = s[i].act
      /\ \A i \in 1 .. Len(t) : Acts(t)[i] = t[i].act
  BY ActsParts
<1>3. /\ v \in Seq(AnyAct) /\ Len(v) = Len(s) + Len(t)
      /\ \A i \in 1 .. Len(s) + Len(t) : v[i] = IF i <= Len(s) THEN Acts(s)[i] ELSE Acts(t)[i - Len(s)]
  <2> DEFINE x == Acts(s)
             y == Acts(t)
  <2>1. /\ x \in Seq(AnyAct) /\ y \in Seq(AnyAct) /\ v = x \o y
        /\ Len(x) = Len(s) /\ Len(y) = Len(t)
    BY <1>2
  <2> HIDE DEF v, x, y
  <2>2. /\ v \in Seq(AnyAct) /\ Len(v) = Len(x) + Len(y)
        /\ \A i \in 1 .. Len(x) + Len(y) : v[i] = IF i <= Len(x) THEN x[i] ELSE y[i - Len(x)]
    BY <2>1, ConcatProperties
  <2>3. QED
    BY <2>1, <2>2 DEF x, y
<1> HIDE DEF u, v
<1>4. /\ Acts(u) \in Seq(AnyAct) /\ Len(Acts(u)) = Len(u) /\ \A i \in 1 .. Len(u) : Acts(u)[i] = u[i].act
  BY <1>1, ActsParts
<1>5. ASSUME NEW i \in 1 .. Len(u) PROVE Acts(u)[i] = v[i]
  <2>1. CASE i <= Len(s)
    <3>1. i \in 1 .. Len(s)
      BY <1>1, <2>1
    <3>2. QED
      BY <1>1, <1>2, <1>3, <1>4, <2>1, <3>1
  <2>2. CASE ~(i <= Len(s))
    <3>1. i - Len(s) \in 1 .. Len(t)
      BY <1>1, <2>2
    <3>2. QED
      BY <1>1, <1>2, <1>3, <1>4, <2>2, <3>1
  <2>3. QED
    BY <2>1, <2>2
<1>6. Acts(u) = v
  BY <1>1, <1>3, <1>4, <1>5, SeqEqual
<1>7. QED
  BY <1>1, <1>6 DEF u, v

\* The entries of a sequence of actions.
LEMMA EntriesParts ==
  ASSUME NEW acts \in Seq(Act), NEW part \in Parts \ {"restore"},
         part \in {"insert", "waited"} => acts \in Seq(SpecialAct)
  PROVE  /\ Entries(acts, part) \in Seq(Entry) /\ Len(Entries(acts, part)) = Len(acts)
         /\ \A i \in 1 .. Len(acts) : Entries(acts, part)[i] = [act |-> acts[i], part |-> part]
         /\ Acts(Entries(acts, part)) = acts
<1> DEFINE s == Entries(acts, part)
<1>1. Len(acts) \in Nat /\ \A i \in 1 .. Len(acts) : acts[i] \in Act
  BY SeqElements
<1>2. part \in {"insert", "waited"} => \A i \in 1 .. Len(acts) : acts[i] \in SpecialAct
  BY SeqElements
<1>3. \A a \in Act : a # NoAct
  BY DEF Act, RealAct, SpecialAct, DrawAct, ClueAct, LeaveAct, TurnAct, OverAct, IdentifyAct, MarkAct, NoAct
<1>4. \A i \in 1 .. Len(acts) : s[i] = [act |-> acts[i], part |-> part]
  BY DEF Entries
<1>5. \A i \in 1 .. Len(acts) : [act |-> acts[i], part |-> part] \in Entry
  BY <1>1, <1>2, <1>3 DEF Entry
<1>6. s \in [1 .. Len(acts) -> Entry]
  BY <1>5 DEF Entries
<1>7. s \in Seq(Entry) /\ Len(s) = Len(acts)
  BY <1>1, <1>6, FunctionIsSeq
<1> HIDE DEF s
<1>8. Acts(s) \in Seq(AnyAct) /\ Len(Acts(s)) = Len(s) /\ \A i \in 1 .. Len(s) : Acts(s)[i] = s[i].act
  BY <1>7, ActsParts
<1>9. Acts(s) = acts
  <2>1. \A i \in 1 .. Len(acts) : Acts(s)[i] = acts[i]
    <3> SUFFICES ASSUME NEW i \in 1 .. Len(acts) PROVE Acts(s)[i] = acts[i]
      OBVIOUS
    <3>1. i \in 1 .. Len(s)
      BY <1>7
    <3>2. Acts(s)[i] = s[i].act
      BY <1>8, <3>1
    <3>3. s[i].act = acts[i]
      <4>1. s[i] = [act |-> acts[i], part |-> part]
        BY <1>4
      <4>2. QED
        BY <4>1
    <3>4. QED
      BY <3>2, <3>3
  <2>2. QED
    BY <1>7, <1>8, <2>1, SeqEqual
<1>10. QED
  BY <1>4, <1>7, <1>9 DEF s

\* A single entry.
LEMMA OneEntry ==
  ASSUME NEW e \in Entry
  PROVE  <<e>> \in Seq(Entry) /\ Len(<<e>>) = 1 /\ <<e>>[1] = e /\ Acts(<<e>>) = <<e.act>>
<1>1. <<e>> \in Seq(Entry) /\ Len(<<e>>) = 1 /\ <<e>>[1] = e
  OBVIOUS
<1>2. Acts(<<e>>) \in Seq(AnyAct) /\ Len(Acts(<<e>>)) = 1 /\ Acts(<<e>>)[1] = e.act
  <2> DEFINE o == <<e>>
  <2>1. o \in Seq(Entry) /\ Len(o) = 1 /\ o[1] = e
    BY <1>1
  <2> HIDE DEF o
  <2>2. /\ Acts(o) \in Seq(AnyAct) /\ Len(Acts(o)) = Len(o)
        /\ \A i \in 1 .. Len(o) : Acts(o)[i] = o[i].act
    BY <2>1, ActsParts
  <2>3. Acts(o) \in Seq(AnyAct) /\ Len(Acts(o)) = 1 /\ Acts(o)[1] = e.act
    BY <2>1, <2>2
  <2>4. QED
    BY <2>3 DEF o
<1>3. <<e.act>> \in Seq(AnyAct) /\ Len(<<e.act>>) = 1 /\ <<e.act>>[1] = e.act
  BY DEF Entry, AnyAct
<1> DEFINE s == Acts(<<e>>)
           t == <<e.act>>
<1>4. s \in Seq(AnyAct) /\ t \in Seq(AnyAct) /\ Len(s) = 1 /\ Len(t) = 1 /\ s[1] = t[1]
  BY <1>2, <1>3
<1> HIDE DEF s, t
<1>5. s = t
  BY <1>4, SeqEqual
<1>6. QED
  BY <1>1, <1>5 DEF s, t

\* The actions of the server in a single action and a sequence.
LEMMA RealFirst ==
  ASSUME NEW a \in AnyAct, NEW s \in Seq(AnyAct)
  PROVE  Real(<<a>> \o s) = IF a \in RealAct THEN <<a>> \o Real(s) ELSE Real(s)
<1>1. <<a>> \in Seq(AnyAct) /\ <<>> \in Seq(AnyAct) /\ <<a>> = Append(<<>>, a)
  OBVIOUS
<1>2. Real(<<a>> \o s) = Real(<<a>>) \o Real(s)
  BY <1>1, RealConcat, Zenon
<1>3. Real(<<a>>) = IF a \in RealAct THEN <<a>> ELSE <<>>
  <2>1. Real(Append(<<>>, a)) = IF a \in RealAct THEN Append(Real(<<>>), a) ELSE Real(<<>>)
    BY <1>1, RealAppend
  <2>2. Real(<<>>) = <<>>
    BY RealType
  <2>3. QED
    BY <1>1, <2>1, <2>2, Zenon
<1>4. Real(s) \in Seq(RealAct) /\ <<>> \o Real(s) = Real(s)
  BY RealType, ConcatEmptySeq
<1>5. QED
  BY <1>2, <1>3, <1>4, Zenon

\* The first of what is left to do, and the rest.
LEMMA TodoSplit ==
  ASSUME NEW todo \in Seq(Entry), todo # <<>>
  PROVE  /\ Head(todo) \in Entry /\ Head(todo) = todo[1] /\ Tail(todo) \in Seq(Entry)
         /\ Len(todo) \in Nat \ {0} /\ Len(Tail(todo)) = Len(todo) - 1
         /\ \A i \in 1 .. Len(todo) - 1 : Tail(todo)[i] = todo[i + 1]
         /\ ToSet(Acts(todo)) = {Head(todo).act} \cup ToSet(Acts(Tail(todo)))
         /\ Real(Acts(todo)) = IF Head(todo).act \in RealAct
                               THEN <<Head(todo).act>> \o Real(Acts(Tail(todo)))
                               ELSE Real(Acts(Tail(todo)))
<1> DEFINE e == Head(todo)
           rest == Tail(todo)
<1>1. /\ Len(todo) \in Nat \ {0} /\ e = todo[1] /\ todo[1] \in Entry
      /\ rest \in Seq(Entry) /\ Len(rest) = Len(todo) - 1
      /\ \A i \in 1 .. Len(todo) - 1 : rest[i] = todo[i + 1]
  BY HeadAndTail
<1>2. todo = <<e>> \o rest
  BY HeadTailProperties
<1> HIDE DEF e, rest
<1>3. <<e>> \in Seq(Entry) /\ Acts(<<e>>) = <<e.act>>
  BY <1>1, OneEntry
<1>4. Acts(<<e>> \o rest) = <<e.act>> \o Acts(rest)
  BY <1>1, <1>3, ActsConcat, Zenon
<1>5. e.act \in AnyAct /\ Acts(rest) \in Seq(AnyAct) /\ <<e.act>> \in Seq(AnyAct)
  BY <1>1, ActsParts DEF Entry, AnyAct
<1>6. Real(<<e.act>> \o Acts(rest)) =
        IF e.act \in RealAct THEN <<e.act>> \o Real(Acts(rest)) ELSE Real(Acts(rest))
  BY <1>5, RealFirst
<1>7. ToSet(<<e.act>> \o Acts(rest)) = ToSet(<<e.act>>) \cup ToSet(Acts(rest))
  BY <1>5, ConcatSet
<1>8. ToSet(<<e.act>>) = {e.act}
  BY DEF ToSet
<1>9. Real(Acts(todo)) = IF e.act \in RealAct THEN <<e.act>> \o Real(Acts(rest)) ELSE Real(Acts(rest))
  BY <1>2, <1>4, <1>6, Zenon
<1>10. ToSet(Acts(todo)) = {e.act} \cup ToSet(Acts(rest))
  BY <1>2, <1>4, <1>7, <1>8, Zenon
<1>11. QED
  BY <1>1, <1>9, <1>10 DEF e, rest

-----------------------------------------------------------------------------
(* Parts of a log *)

\* A part of a sequence.
LEMMA PartOf ==
  ASSUME NEW S, NEW s \in Seq(S), NEW i \in Nat, NEW j \in Nat, i <= j, j <= Len(s)
  PROVE  /\ SubSeq(s, i + 1, j) \in Seq(S) /\ Len(SubSeq(s, i + 1, j)) = j - i
         /\ \A h \in 1 .. j - i : SubSeq(s, i + 1, j)[h] = s[i + h]
<1>1. Len(s) \in Nat /\ \A h \in 1 .. Len(s) : s[h] \in S
  BY SeqElements
<1>2. i + 1 \in Int /\ j \in Int /\ \A h \in i + 1 .. j : s[h] \in S
  BY <1>1
<1> DEFINE u == SubSeq(s, i + 1, j)
<1>3. u \in Seq(S)
  BY <1>2, SubSeqProperties
<1>4. Len(u) = IF i + 1 <= j THEN j - (i + 1) + 1 ELSE 0
  BY <1>2, SubSeqProperties
<1>5. \A h \in 1 .. j - (i + 1) + 1 : u[h] = s[i + 1 + h - 1]
  BY <1>2, SubSeqProperties
<1> HIDE DEF u
<1>6. Len(u) = j - i
  BY <1>4
<1>7. \A h \in 1 .. j - i : u[h] = s[i + h]
  <2> SUFFICES ASSUME NEW h \in 1 .. j - i PROVE u[h] = s[i + h]
    OBVIOUS
  <2>1. h \in 1 .. j - (i + 1) + 1 /\ i + 1 + h - 1 = i + h
    OBVIOUS
  <2>2. QED
    BY <1>5, <2>1
<1>8. QED
  BY <1>3, <1>6, <1>7 DEF u

\* A part of a sequence begins with its first element.
LEMMA PartFirst ==
  ASSUME NEW S, NEW s \in Seq(S), NEW i \in Nat, NEW j \in Nat, i < j, j <= Len(s)
  PROVE  SubSeq(s, i + 1, j) = <<s[i + 1]>> \o SubSeq(s, i + 2, j)
<1> DEFINE u == SubSeq(s, i + 1, j)
           v == SubSeq(s, i + 2, j)
<1>1. /\ u \in Seq(S) /\ Len(u) = j - i
      /\ \A h \in 1 .. j - i : u[h] = s[i + h]
  BY PartOf
<1>2. /\ v \in Seq(S) /\ Len(v) = j - (i + 1)
      /\ \A h \in 1 .. j - (i + 1) : v[h] = s[i + 1 + h]
  <2>1. i + 1 \in Nat /\ i + 1 <= j /\ i + 1 + 1 = i + 2
    OBVIOUS
  <2>2. /\ SubSeq(s, i + 1 + 1, j) \in Seq(S) /\ Len(SubSeq(s, i + 1 + 1, j)) = j - (i + 1)
        /\ \A h \in 1 .. j - (i + 1) : SubSeq(s, i + 1 + 1, j)[h] = s[i + 1 + h]
    BY <2>1, PartOf
  <2>3. SubSeq(s, i + 1 + 1, j) = v
    BY <2>1
  <2>4. QED
    BY <2>2, <2>3
<1> HIDE DEF u, v
<1>3. u # <<>>
  <2>1. Len(u) # 0
    BY <1>1
  <2>2. QED
    BY <1>1, <2>1, EmptySeq
<1>4. u = <<Head(u)>> \o Tail(u)
  BY <1>1, <1>3, HeadTailProperties
<1>5. /\ Head(u) = u[1] /\ Tail(u) \in Seq(S) /\ Len(Tail(u)) = Len(u) - 1
      /\ \A h \in 1 .. Len(u) - 1 : Tail(u)[h] = u[h + 1]
  BY <1>1, <1>3, HeadAndTail
<1>6. Head(u) = s[i + 1]
  BY <1>1, <1>5
<1>7. Tail(u) = v
  <2>1. Len(Tail(u)) = Len(v)
    BY <1>1, <1>2, <1>5
  <2>2. ASSUME NEW h \in 1 .. Len(v) PROVE Tail(u)[h] = v[h]
    <3>1. h \in 1 .. Len(u) - 1 /\ h + 1 \in 1 .. j - i /\ h \in 1 .. j - (i + 1) /\ i + 1 + h = i + (h + 1)
      BY <1>1, <1>2
    <3>2. QED
      BY <1>1, <1>2, <1>5, <3>1
  <2>3. QED
    BY <1>2, <1>5, <2>1, <2>2, SeqEqual
<1>8. QED
  BY <1>4, <1>6, <1>7, Zenon DEF u, v

\* A part of a sequence that goes one further.
LEMMA PartLast ==
  ASSUME NEW S, NEW s \in Seq(S), NEW i \in Nat, i < Len(s)
  PROVE  Append(SubSeq(s, 1, i), s[i + 1]) = SubSeq(s, 1, i + 1)
<1> DEFINE u == SubSeq(s, 1, i)
           v == SubSeq(s, 1, i + 1)
<1>1. Len(s) \in Nat
  BY LenProperties
<1>2. 0 \in Nat /\ 0 <= i /\ i <= Len(s) /\ i + 1 \in Nat /\ 0 <= i + 1 /\ i + 1 <= Len(s) /\ 0 + 1 = 1
      /\ i - 0 = i /\ i + 1 - 0 = i + 1
  BY <1>1
<1>3. u \in Seq(S) /\ Len(u) = i /\ \A h \in 1 .. i : u[h] = s[h]
  <2>1. /\ SubSeq(s, 0 + 1, i) \in Seq(S) /\ Len(SubSeq(s, 0 + 1, i)) = i - 0
        /\ \A h \in 1 .. i - 0 : SubSeq(s, 0 + 1, i)[h] = s[0 + h]
    BY <1>2, PartOf
  <2>2. SubSeq(s, 0 + 1, i) = u
    BY <1>2
  <2> HIDE DEF u
  <2>3. QED
    BY <1>2, <2>1, <2>2
<1>4. v \in Seq(S) /\ Len(v) = i + 1 /\ \A h \in 1 .. i + 1 : v[h] = s[h]
  <2>1. /\ SubSeq(s, 0 + 1, i + 1) \in Seq(S) /\ Len(SubSeq(s, 0 + 1, i + 1)) = i + 1 - 0
        /\ \A h \in 1 .. i + 1 - 0 : SubSeq(s, 0 + 1, i + 1)[h] = s[0 + h]
    BY <1>2, PartOf
  <2>2. SubSeq(s, 0 + 1, i + 1) = v
    BY <1>2
  <2> HIDE DEF v
  <2>3. QED
    BY <1>2, <2>1, <2>2
<1> HIDE DEF u, v
<1>5. \A h \in 1 .. Len(u) : v[h] = u[h]
  BY <1>3, <1>4
<1>6. v = Append(u, v[Len(u) + 1])
  BY <1>3, <1>4, <1>5, OneLonger
<1>7. v[Len(u) + 1] = s[i + 1]
  BY <1>3, <1>4
<1>8. QED
  BY <1>6, <1>7, Zenon DEF u, v

\* The parts at the ends of a sequence.
LEMMA PartWhole ==
  ASSUME NEW S, NEW s \in Seq(S)
  PROVE  /\ SubSeq(s, 1, Len(s)) = s /\ SubSeq(s, 1, 0) = <<>>
         /\ \A i \in 0 .. Len(s) : SubSeq(s, i + 1, i) = <<>>
<1>1. Len(s) \in Nat
  BY LenProperties
<1>2. \A i \in 0 .. Len(s) : SubSeq(s, i + 1, i) = <<>>
  <2> SUFFICES ASSUME NEW i \in 0 .. Len(s) PROVE SubSeq(s, i + 1, i) = <<>>
    OBVIOUS
  <2>1. i \in Nat /\ i <= i /\ i <= Len(s) /\ i - i = 0
    BY <1>1
  <2>2. SubSeq(s, i + 1, i) \in Seq(S) /\ Len(SubSeq(s, i + 1, i)) = i - i
    BY <2>1, PartOf
  <2>3. QED
    BY <2>1, <2>2, EmptySeq
<1>3. SubSeq(s, 1, 0) = <<>>
  <2>1. 0 \in 0 .. Len(s) /\ 0 + 1 = 1
    BY <1>1
  <2>2. QED
    BY <1>2, <2>1
<1>4. SubSeq(s, 1, Len(s)) = s
  <2> DEFINE u == SubSeq(s, 1, Len(s))
  <2>1. /\ SubSeq(s, 0 + 1, Len(s)) \in Seq(S) /\ Len(SubSeq(s, 0 + 1, Len(s))) = Len(s) - 0
        /\ \A h \in 1 .. Len(s) - 0 : SubSeq(s, 0 + 1, Len(s))[h] = s[0 + h]
    <3>1. 0 \in Nat /\ 0 <= Len(s) /\ Len(s) <= Len(s)
      BY <1>1
    <3>2. QED
      BY <1>1, <3>1, PartOf
  <2>2. SubSeq(s, 0 + 1, Len(s)) = u
    OBVIOUS
  <2> HIDE DEF u
  <2>3. u \in Seq(S) /\ Len(u) = Len(s) /\ \A h \in 1 .. Len(s) : u[h] = s[h]
    BY <1>1, <2>1, <2>2
  <2>4. u = s
    BY <2>3, SeqEqual
  <2>5. QED
    BY <2>4 DEF u
<1>5. QED
  BY <1>2, <1>3, <1>4

\* An element put before a sequence.
LEMMA ConsParts ==
  ASSUME NEW S, NEW b \in S, NEW v \in Seq(S)
  PROVE  /\ Head(<<b>> \o v) = b /\ Tail(<<b>> \o v) = v
         /\ <<b>> \o v \in Seq(S) /\ Len(<<b>> \o v) = 1 + Len(v) /\ Len(v) \in Nat
         /\ (<<b>> \o v)[1] = b
         /\ \A h \in 1 .. Len(v) : (<<b>> \o v)[h + 1] = v[h]
<1> DEFINE t == <<b>> \o v
<1>1. <<b>> \in Seq(S) /\ Len(<<b>>) = 1 /\ <<b>>[1] = b
  OBVIOUS
<1>2. /\ t \in Seq(S) /\ Len(t) = 1 + Len(v) /\ Len(v) \in Nat
      /\ \A h \in 1 .. 1 + Len(v) : t[h] = IF h <= 1 THEN <<b>>[h] ELSE v[h - 1]
  <2>1. /\ t \in Seq(S) /\ Len(t) = Len(<<b>>) + Len(v) /\ Len(v) \in Nat
        /\ \A h \in 1 .. Len(<<b>>) + Len(v) : t[h] = IF h <= Len(<<b>>) THEN <<b>>[h] ELSE v[h - Len(<<b>>)]
    BY <1>1, ConcatProperties, LenProperties
  <2> HIDE DEF t
  <2>2. QED
    BY <1>1, <2>1
<1> HIDE DEF t
<1>3. t # <<>>
  BY <1>2, EmptySeq
<1>4. Head(t) = t[1] /\ Tail(t) \in Seq(S) /\ Len(Tail(t)) = Len(t) - 1
      /\ \A h \in 1 .. Len(t) - 1 : Tail(t)[h] = t[h + 1]
  BY <1>2, <1>3, HeadAndTail
<1>5. t[1] = b
  BY <1>1, <1>2
<1>6. Tail(t) = v
  <2>1. \A h \in 1 .. Len(v) : Tail(t)[h] = v[h]
    <3> SUFFICES ASSUME NEW h \in 1 .. Len(v) PROVE Tail(t)[h] = v[h]
      OBVIOUS
    <3>1. h \in 1 .. Len(t) - 1 /\ h + 1 \in 1 .. 1 + Len(v) /\ ~(h + 1 <= 1) /\ h + 1 - 1 = h
      BY <1>2
    <3>2. QED
      BY <1>2, <1>4, <3>1
  <2>2. Len(Tail(t)) = Len(v)
    BY <1>2, <1>4
  <2>3. QED
    BY <1>4, <2>1, <2>2, SeqEqual
<1>7. \A h \in 1 .. Len(v) : t[h + 1] = v[h]
  <2> SUFFICES ASSUME NEW h \in 1 .. Len(v) PROVE t[h + 1] = v[h]
    OBVIOUS
  <2>1. h + 1 \in 1 .. 1 + Len(v) /\ ~(h + 1 <= 1) /\ h + 1 - 1 = h
    BY <1>2
  <2>2. QED
    BY <1>2, <2>1
<1>8. QED
  BY <1>2, <1>4, <1>5, <1>6, <1>7 DEF t

\* If the actions from i + 1 to j begin with a and go on with s, then a is the next.
LEMMA PartBegins ==
  ASSUME NEW S, NEW all \in Seq(S), NEW i \in Nat, NEW j \in Nat, i <= j, j <= Len(all),
         NEW a \in S, NEW s \in Seq(S), <<a>> \o s = SubSeq(all, i + 1, j)
  PROVE  i < j /\ a = all[i + 1] /\ s = SubSeq(all, i + 2, j)
<1>1. /\ <<a>> \o s \in Seq(S)
      /\ Head(<<a>> \o s) = a /\ Tail(<<a>> \o s) = s /\ Len(<<a>> \o s) = 1 + Len(s) /\ Len(s) \in Nat
  <2>1. /\ <<a>> \o s \in Seq(S) /\ Len(<<a>> \o s) = 1 + Len(s) /\ Len(s) \in Nat
        /\ Head(<<a>> \o s) = a /\ Tail(<<a>> \o s) = s
    BY ConsParts
  <2>2. QED
    BY <2>1
<1> DEFINE u == SubSeq(all, i + 1, j)
<1>2. u \in Seq(S) /\ Len(u) = j - i
  BY PartOf
<1>3. i < j
  <2>1. Len(u) = 1 + Len(s)
    BY <1>1, Zenon
  <2> HIDE DEF u
  <2>2. QED
    BY <1>1, <1>2, <2>1
<1>4. u = <<all[i + 1]>> \o SubSeq(all, i + 2, j)
  BY <1>3, PartFirst
<1>5. SubSeq(all, i + 2, j) \in Seq(S) /\ all[i + 1] \in S
  <2>1. Len(all) \in Nat /\ \A h \in 1 .. Len(all) : all[h] \in S
    BY SeqElements
  <2>2. i + 1 \in Nat /\ i + 1 <= j /\ i + 1 + 1 = i + 2 /\ i + 1 \in 1 .. Len(all)
    BY <1>3, <2>1
  <2>3. SubSeq(all, i + 1 + 1, j) \in Seq(S)
    BY <2>2, PartOf
  <2>4. QED
    BY <2>1, <2>2, <2>3
<1>6. \A b \in S, v \in Seq(S) : Head(<<b>> \o v) = b /\ Tail(<<b>> \o v) = v
  BY ConsParts
<1>7. a = all[i + 1] /\ s = SubSeq(all, i + 2, j)
  <2>1. <<a>> \o s = <<all[i + 1]>> \o SubSeq(all, i + 2, j)
    BY <1>4
  <2>2. Head(<<a>> \o s) = all[i + 1] /\ Tail(<<a>> \o s) = SubSeq(all, i + 2, j)
    BY <1>5, <1>6, <2>1, Zenon
  <2>3. QED
    BY <1>1, <2>2, Zenon
<1>8. QED
  BY <1>3, <1>7

-----------------------------------------------------------------------------
(* The State after an action *)

\* An identity is not the unknown one; every card has one.
LEMMA Identities ==
  /\ \A id \in Ids : id # NoId /\ id[1] \in Suits /\ id[2] \in Nat
  /\ \A o \in Orders : Deck[o] \in Ids
  /\ Orders \subseteq Nat /\ 0 \in Orders /\ Us \in Players
<1>1. \A id \in Ids : id # NoId /\ id[1] \in Suits /\ id[2] \in Nat
  <2> SUFFICES ASSUME NEW id \in Ids PROVE id # NoId /\ id[1] \in Suits /\ id[2] \in Nat
    OBVIOUS
  <2>1. id[1] \in Suits /\ id[2] \in 1 .. MaxRank
    BY DEF Ids, Ranks
  <2>2. id[2] \in Nat /\ id[2] # -1 /\ NoId[2] = -1
    BY <2>1, TableAssumption DEF NoId
  <2>3. QED
    BY <2>1, <2>2
<1>2. \A o \in Orders : Deck[o] \in Ids
  BY RewindAssumption DEF Decks
<1>3. QED
  BY <1>1, <1>2, TableAssumption, RewindAssumption DEF Orders

\* The parts of a State.
LEMMA StParts ==
  ASSUME NEW r \in St
  PROVE  /\ r.turn_count \in Nat /\ r.clue_tokens \in Int /\ r.strikes \in Int
         /\ r.hands \in [Players -> SUBSET Orders]
         /\ r.deck \in [Orders -> Ids \cup {NoId}] /\ r.deck_ids \in [Orders -> Ids \cup {NoId}]
         /\ r.drawn_index \in [Orders -> Nat \cup {-1}] /\ r.play_stacks \in [Suits -> Int]
         /\ r.discard_stacks \in [Ids -> Int] /\ r.max_ranks \in [Suits -> Int] /\ r.cardsLeft \in Int
         /\ r.cardOrder \in Orders \cup {-1} /\ r.currentPlayerIndex \in Players
         /\ r.endgameTurns \in Int
BY DEF St

\* What a draw does to the State.
LEMMA DrawParts ==
  ASSUME NEW r \in St, NEW a \in DrawAct
  PROVE  LET s == StepOf(r, a)
         IN  /\ s \in St
             /\ s.turn_count \in {r.turn_count, 1} /\ (s.turn_count # r.turn_count => r.turn_count = 0)
             /\ s.hands = With(r.hands, a.playerIndex, a.order)
             /\ s.deck = Seen(r.deck, r.deck_ids, a.order, a.id)
             /\ s.deck_ids = Reveal(r.deck_ids, a.order, a.id)
             /\ s.drawn_index = [r.drawn_index EXCEPT ![a.order] = r.turn_count]
             /\ s.cardOrder = a.order /\ s.cardsLeft = r.cardsLeft - 1
<1> DEFINE p == a.playerIndex
           o == a.order
           id == a.id
           d == OnDraw(r, p, o, id)
<1>1. a.type = "draw" /\ p \in Players /\ o \in Orders /\ id \in Ids \cup {NoId}
  BY DEF DrawAct
<1>2. StepOf(r, a) = HandleDraw(r, p, o, id)
  BY <1>1 DEF StepOf, Moves
<1> HIDE DEF p, o, id
<1>3. /\ With(r.hands, p, o) \in [Players -> SUBSET Orders]
      /\ Seen(r.deck, r.deck_ids, o, id) \in [Orders -> Ids \cup {NoId}]
      /\ Reveal(r.deck_ids, o, id) \in [Orders -> Ids \cup {NoId}]
      /\ [r.drawn_index EXCEPT ![o] = r.turn_count] \in [Orders -> Nat \cup {-1}]
      /\ r.cardsLeft - 1 \in Int /\ NumPlayers \in Int
  BY <1>1, StParts, TableAssumption DEF With, Seen, Reveal
<1>4. d \in St
  BY <1>1, <1>3 DEF OnDraw, St
<1>5. HandleDraw(r, p, o, id) \in St
  BY <1>4 DEF HandleDraw, St
<1>6. QED
  BY <1>2, <1>5 DEF HandleDraw, OnDraw, St, p, o, id

\* What a card that leaves a hand does to the State.
LEMMA LeaveParts ==
  ASSUME NEW r \in St, NEW a \in LeaveAct
  PROVE  LET s == StepOf(r, a)
         IN  /\ s \in St
             /\ s.turn_count = r.turn_count
             /\ s.hands = Without(r.hands, a.playerIndex, a.order)
             /\ s.deck = Reveal(r.deck, a.order, a.id)
             /\ s.deck_ids = Reveal(r.deck_ids, a.order, a.id)
             /\ s.drawn_index = r.drawn_index
             /\ s.cardOrder = r.cardOrder /\ s.cardsLeft = r.cardsLeft
<1> DEFINE p == a.playerIndex
           o == a.order
           id == a.id
           failed == a.failed
<1>1. a.type \in {"play", "discard"} /\ p \in Players /\ o \in Orders /\ id \in Ids /\ failed \in BOOLEAN
  BY DEF LeaveAct
<1>2. /\ a.type = "play" => StepOf(r, a) = OnPlay(r, p, o, id)
      /\ a.type = "discard" => StepOf(r, a) = OnDiscard(r, p, o, id, failed)
  BY DEF StepOf, HandleTableAction, Moves
<1> HIDE DEF p, o, id, failed
<1>3. id # NoId /\ id[1] \in Suits /\ id[2] \in Nat
  BY <1>1, Identities
<1>4. Gone(r.discard_stacks, id) \in [Ids -> Int]
  BY <1>1, StParts DEF Gone
<1>5. /\ Without(r.hands, p, o) \in [Players -> SUBSET Orders]
      /\ Reveal(r.deck, o, id) \in [Orders -> Ids \cup {NoId}]
      /\ Reveal(r.deck_ids, o, id) \in [Orders -> Ids \cup {NoId}]
  BY <1>1, StParts DEF Without, Reveal
<1>6. Stacked(r.play_stacks, id) \in [Suits -> Int]
      /\ CountDown(r.endgameTurns) \in Int /\ Regain(r.clue_tokens) \in Int
  BY <1>1, <1>3, StParts DEF Stacked, CountDown, Regain
<1>7. Lowered(r.max_ranks, Gone(r.discard_stacks, id), id) \in [Suits -> Int]
  BY <1>1, <1>3, StParts DEF Lowered
<1>8. r.strikes \in Int /\ r.strikes + 1 \in Int /\ r.clue_tokens \in Int
  BY StParts
<1>9. CASE a.type = "play"
  <2>1. OnPlay(r, p, o, id) \in St
    BY <1>5, <1>6, <1>8 DEF OnPlay, St
  <2>2. QED
    BY <1>2, <1>9, <2>1, ZenonT(60) DEF OnPlay, St, p, o, id
<1>10. CASE a.type = "discard"
  <2>1. OnDiscard(r, p, o, id, failed) \in St
    BY <1>4, <1>5, <1>6, <1>7, <1>8 DEF OnDiscard, St
  <2> DEFINE s == OnDiscard(r, p, o, id, failed)
  <2>2. /\ s.turn_count = r.turn_count /\ s.hands = Without(r.hands, p, o)
        /\ s.deck = Reveal(r.deck, o, id) /\ s.deck_ids = Reveal(r.deck_ids, o, id)
        /\ s.drawn_index = r.drawn_index
        /\ s.cardOrder = r.cardOrder /\ s.cardsLeft = r.cardsLeft
    BY DEF OnDiscard, St
  <2>3. StepOf(r, a) = s
    BY <1>2, <1>10
  <2> HIDE DEF s
  <2>4. QED
    BY <2>1, <2>2, <2>3, Zenon DEF s, p, o, id
<1>11. QED
  BY <1>1, <1>9, <1>10

\* What the other actions do to the State.
LEMMA OtherParts ==
  ASSUME NEW r \in St, NEW a \in ClueAct \cup TurnAct \cup OverAct
  PROVE  LET s == StepOf(r, a)
         IN  /\ s \in St
             /\ s.turn_count = IF a.type = "turn" THEN a.num + 1 ELSE r.turn_count
             /\ s.hands = r.hands /\ s.deck = r.deck /\ s.deck_ids = r.deck_ids
             /\ s.drawn_index = r.drawn_index
             /\ s.cardOrder = r.cardOrder /\ s.cardsLeft = r.cardsLeft
<1>1. CASE a \in ClueAct
  <2>1. a.type = "clue"
    BY <1>1 DEF ClueAct
  <2>2. StepOf(r, a) = OnClue(r)
    BY <2>1 DEF StepOf, HandleTableAction, Moves
  <2>3. r.clue_tokens - 1 \in Int /\ CountDown(r.endgameTurns) \in Int
    BY StParts DEF CountDown
  <2>4. OnClue(r) \in St
    BY <2>3 DEF OnClue, St
  <2>5. QED
    BY <2>1, <2>2, <2>4 DEF OnClue, St
<1>2. CASE a \in TurnAct
  <2> DEFINE num == a.num
             p == a.playerIndex
  <2>1. a.type = "turn" /\ num \in Nat /\ p \in Players
    BY <1>2 DEF TurnAct
  <2>2. StepOf(r, a) = HandleTurn(r, num, p)
    BY <2>1 DEF StepOf, Moves
  <2> HIDE DEF num, p
  <2>3. num + 1 \in Nat
    BY <2>1
  <2>4. HandleTurn(r, num, p) \in St
    BY <2>1, <2>3 DEF HandleTurn, St
  <2>5. QED
    BY <2>1, <2>2, <2>4 DEF HandleTurn, St, num
<1>3. CASE a \in OverAct
  <2>1. a.type = "gameOver"
    BY <1>3 DEF OverAct
  <2>2. StepOf(r, a) = r
    BY <2>1 DEF StepOf, Moves
  <2>3. QED
    BY <2>1, <2>2
<1>4. QED
  BY <1>1, <1>2, <1>3

\* The kinds of actions of the server.
LEMMA RealKinds ==
  \A a \in RealAct : a \in DrawAct \/ a \in LeaveAct \/ a \in ClueAct \cup TurnAct \cup OverAct
BY DEF RealAct

\* The State after an action of the server is one.
LEMMA StepType ==
  ASSUME NEW r \in St, NEW a \in RealAct
  PROVE  StepOf(r, a) \in St
BY RealKinds, DrawParts, LeaveParts, OtherParts

\* What is known of the cards stays true.
LEMMA StepKnown ==
  ASSUME NEW r \in St, NEW a \in RealAct, Known(r)
  PROVE  Known(StepOf(r, a))
<1> DEFINE s == StepOf(r, a)
<1>1. r.deck \in [Orders -> Ids \cup {NoId}] /\ r.deck_ids \in [Orders -> Ids \cup {NoId}]
  BY StParts
<1>2. CASE a \in DrawAct
  <2>1. /\ s.deck = Seen(r.deck, r.deck_ids, a.order, a.id)
        /\ s.deck_ids = Reveal(r.deck_ids, a.order, a.id)
    BY <1>2, DrawParts
  <2>2. a.order \in Orders /\ a.id \in {NoId, Deck[a.order]}
    BY <1>2 DEF DrawAct
  <2> HIDE DEF s
  <2>3. QED
    BY <1>1, <2>1, <2>2 DEF Known, Seen, Reveal, s
<1>3. CASE a \in LeaveAct
  <2>1. /\ s.deck = Reveal(r.deck, a.order, a.id)
        /\ s.deck_ids = Reveal(r.deck_ids, a.order, a.id)
    BY <1>3, LeaveParts
  <2>2. a.order \in Orders /\ a.id = Deck[a.order]
    BY <1>3 DEF LeaveAct
  <2> HIDE DEF s
  <2>3. QED
    BY <1>1, <2>1, <2>2 DEF Known, Reveal, s
<1>4. CASE a \in ClueAct \cup TurnAct \cup OverAct
  <2>1. s.deck = r.deck /\ s.deck_ids = r.deck_ids
    BY <1>4, OtherParts
  <2> HIDE DEF s
  <2>2. QED
    BY <2>1 DEF Known, s
<1>5. QED
  BY <1>2, <1>3, <1>4, RealKinds

\* s is the State r but for the deck, of which more may be known.
LEMMA FollowParts ==
  ASSUME NEW s, NEW r \in St, Follows(s, r)
  PROVE  /\ s \in St
         /\ s.turn_count = r.turn_count /\ s.hands = r.hands /\ s.drawn_index = r.drawn_index
         /\ s.cardOrder = r.cardOrder /\ s.cardsLeft = r.cardsLeft
         /\ s.clue_tokens = r.clue_tokens /\ s.strikes = r.strikes
         /\ s.play_stacks = r.play_stacks /\ s.discard_stacks = r.discard_stacks
         /\ s.max_ranks = r.max_ranks /\ s.currentPlayerIndex = r.currentPlayerIndex
         /\ s.endgameTurns = r.endgameTurns
BY DEF Follows, St

\* Two States that agree but for the deck follow one another.
LEMMA FollowsFrom ==
  ASSUME NEW s \in St, NEW r \in St,
         s.turn_count = r.turn_count, s.hands = r.hands, s.drawn_index = r.drawn_index,
         s.cardOrder = r.cardOrder, s.cardsLeft = r.cardsLeft,
         s.clue_tokens = r.clue_tokens, s.strikes = r.strikes,
         s.play_stacks = r.play_stacks, s.discard_stacks = r.discard_stacks,
         s.max_ranks = r.max_ranks, s.currentPlayerIndex = r.currentPlayerIndex,
         s.endgameTurns = r.endgameTurns,
         \A o \in Orders : s.deck[o] \in {r.deck[o], Deck[o]} /\ s.deck_ids[o] \in {r.deck_ids[o], Deck[o]}
  PROVE  Follows(s, r)
<1>1. s = [r EXCEPT !.deck = s.deck, !.deck_ids = s.deck_ids]
  BY DEF St
<1>2. QED
  BY <1>1 DEF Follows

\* What is drawn, the State that knows more about the deck knows more still.
LEMMA DrawFollows ==
  ASSUME NEW s \in St, NEW r \in St, Follows(s, r), NEW o \in Orders, NEW id \in Ids \cup {NoId}
  PROVE  \A x \in Orders : /\ Seen(s.deck, s.deck_ids, o, id)[x] \in {Seen(r.deck, r.deck_ids, o, id)[x], Deck[x]}
                           /\ Reveal(s.deck_ids, o, id)[x] \in {Reveal(r.deck_ids, o, id)[x], Deck[x]}
<1> SUFFICES ASSUME NEW x \in Orders
             PROVE  /\ Seen(s.deck, s.deck_ids, o, id)[x] \in {Seen(r.deck, r.deck_ids, o, id)[x], Deck[x]}
                    /\ Reveal(s.deck_ids, o, id)[x] \in {Reveal(r.deck_ids, o, id)[x], Deck[x]}
  OBVIOUS
<1>1. /\ s.deck \in [Orders -> Ids \cup {NoId}] /\ s.deck_ids \in [Orders -> Ids \cup {NoId}]
      /\ r.deck \in [Orders -> Ids \cup {NoId}] /\ r.deck_ids \in [Orders -> Ids \cup {NoId}]
  BY StParts
<1>2. /\ s.deck[x] \in {r.deck[x], Deck[x]} /\ s.deck_ids[x] \in {r.deck_ids[x], Deck[x]}
      /\ s.deck_ids[o] \in {r.deck_ids[o], Deck[o]}
  BY DEF Follows
<1>3. Deck[o] # NoId
  BY Identities
<1>4. Reveal(s.deck_ids, o, id)[x] \in {Reveal(r.deck_ids, o, id)[x], Deck[x]}
  BY <1>1, <1>2 DEF Reveal
<1>5. Seen(s.deck, s.deck_ids, o, id)[x] \in {Seen(r.deck, r.deck_ids, o, id)[x], Deck[x]}
  BY <1>1, <1>2, <1>3 DEF Seen
<1>6. QED
  BY <1>4, <1>5

\* What is shown, the State that knows more about the deck is shown as well.
LEMMA ShownFollows ==
  ASSUME NEW s \in St, NEW r \in St, Follows(s, r), NEW o \in Orders, NEW id \in Ids
  PROVE  \A x \in Orders : /\ Reveal(s.deck, o, id)[x] \in {Reveal(r.deck, o, id)[x], Deck[x]}
                           /\ Reveal(s.deck_ids, o, id)[x] \in {Reveal(r.deck_ids, o, id)[x], Deck[x]}
<1>1. /\ s.deck \in [Orders -> Ids \cup {NoId}] /\ s.deck_ids \in [Orders -> Ids \cup {NoId}]
      /\ r.deck \in [Orders -> Ids \cup {NoId}] /\ r.deck_ids \in [Orders -> Ids \cup {NoId}]
  BY StParts
<1>2. \A x \in Orders : s.deck[x] \in {r.deck[x], Deck[x]} /\ s.deck_ids[x] \in {r.deck_ids[x], Deck[x]}
  BY DEF Follows
<1>3. QED
  BY <1>1, <1>2 DEF Reveal

\* A State that follows another still does after the same action.
LEMMA StepFollows ==
  ASSUME NEW s, NEW r \in St, NEW a \in RealAct, Follows(s, r)
  PROVE  Follows(StepOf(s, a), StepOf(r, a))
<1>1. s \in St /\ StepOf(s, a) \in St /\ StepOf(r, a) \in St
  BY StepType DEF Follows
<1> DEFINE s2 == StepOf(s, a)
           r2 == StepOf(r, a)
<1>2. /\ s.turn_count = r.turn_count /\ s.hands = r.hands /\ s.drawn_index = r.drawn_index
      /\ s.cardOrder = r.cardOrder /\ s.cardsLeft = r.cardsLeft
      /\ s.clue_tokens = r.clue_tokens /\ s.strikes = r.strikes
      /\ s.play_stacks = r.play_stacks /\ s.discard_stacks = r.discard_stacks
      /\ s.max_ranks = r.max_ranks /\ s.currentPlayerIndex = r.currentPlayerIndex
      /\ s.endgameTurns = r.endgameTurns
  BY FollowParts
<1>3. \A o \in Orders : s2.deck[o] \in {r2.deck[o], Deck[o]} /\ s2.deck_ids[o] \in {r2.deck_ids[o], Deck[o]}
  <2>1. CASE a \in DrawAct
    <3>1. /\ s2.deck = Seen(s.deck, s.deck_ids, a.order, a.id) /\ s2.deck_ids = Reveal(s.deck_ids, a.order, a.id)
          /\ r2.deck = Seen(r.deck, r.deck_ids, a.order, a.id) /\ r2.deck_ids = Reveal(r.deck_ids, a.order, a.id)
      BY <1>1, <2>1, DrawParts
    <3>2. a.order \in Orders /\ a.id \in Ids \cup {NoId}
      BY <2>1 DEF DrawAct
    <3> HIDE DEF s2, r2
    <3>3. QED
      BY <1>1, <3>1, <3>2, DrawFollows
  <2>2. CASE a \in LeaveAct
    <3>1. /\ s2.deck = Reveal(s.deck, a.order, a.id) /\ s2.deck_ids = Reveal(s.deck_ids, a.order, a.id)
          /\ r2.deck = Reveal(r.deck, a.order, a.id) /\ r2.deck_ids = Reveal(r.deck_ids, a.order, a.id)
      BY <1>1, <2>2, LeaveParts
    <3>2. a.order \in Orders /\ a.id \in Ids
      BY <2>2 DEF LeaveAct
    <3> HIDE DEF s2, r2
    <3>3. QED
      BY <1>1, <3>1, <3>2, ShownFollows
  <2>3. CASE a \in ClueAct \cup TurnAct \cup OverAct
    <3>1. /\ s2.deck = s.deck /\ s2.deck_ids = s.deck_ids
          /\ r2.deck = r.deck /\ r2.deck_ids = r.deck_ids
      BY <1>1, <2>3, OtherParts
    <3> HIDE DEF s2, r2
    <3>2. QED
      BY <3>1 DEF Follows
  <2>4. QED
    BY <2>1, <2>2, <2>3, RealKinds
<1>4. /\ s2.turn_count = r2.turn_count /\ s2.hands = r2.hands /\ s2.drawn_index = r2.drawn_index
      /\ s2.cardOrder = r2.cardOrder /\ s2.cardsLeft = r2.cardsLeft
      /\ s2.clue_tokens = r2.clue_tokens /\ s2.strikes = r2.strikes
      /\ s2.play_stacks = r2.play_stacks /\ s2.discard_stacks = r2.discard_stacks
      /\ s2.max_ranks = r2.max_ranks /\ s2.currentPlayerIndex = r2.currentPlayerIndex
      /\ s2.endgameTurns = r2.endgameTurns
  <2>1. CASE a \in DrawAct
    <3> DEFINE p == a.playerIndex
               o == a.order
               id == a.id
               d == OnDraw(s, p, o, id)
               e == OnDraw(r, p, o, id)
    <3>1. s2 = HandleDraw(s, p, o, id) /\ r2 = HandleDraw(r, p, o, id)
      BY <2>1 DEF StepOf, Moves, DrawAct
    <3> HIDE DEF p, o, id, s2, r2
    <3>2. /\ d.turn_count = e.turn_count /\ d.hands = e.hands /\ d.drawn_index = e.drawn_index
          /\ d.cardOrder = e.cardOrder /\ d.cardsLeft = e.cardsLeft
          /\ d.clue_tokens = e.clue_tokens /\ d.strikes = e.strikes
          /\ d.play_stacks = e.play_stacks /\ d.discard_stacks = e.discard_stacks
          /\ d.max_ranks = e.max_ranks /\ d.currentPlayerIndex = e.currentPlayerIndex
          /\ d.endgameTurns = e.endgameTurns
      BY <1>1, <1>2 DEF OnDraw, St
    <3>3. s2 = (IF s.turn_count = 0 /\ \A q \in Players : Cardinality(d.hands[q]) = DefaultHandSize
                THEN [d EXCEPT !.turn_count = 1] ELSE d)
      BY <3>1 DEF HandleDraw
    <3>4. r2 = (IF r.turn_count = 0 /\ \A q \in Players : Cardinality(e.hands[q]) = DefaultHandSize
                THEN [e EXCEPT !.turn_count = 1] ELSE e)
      BY <3>1 DEF HandleDraw
    <3>5. (s.turn_count = 0 /\ \A q \in Players : Cardinality(d.hands[q]) = DefaultHandSize)
          <=> (r.turn_count = 0 /\ \A q \in Players : Cardinality(e.hands[q]) = DefaultHandSize)
      BY <1>2, <3>2, Zenon
    <3>6. CASE s.turn_count = 0 /\ \A q \in Players : Cardinality(d.hands[q]) = DefaultHandSize
      <4>1. s2 = [d EXCEPT !.turn_count = 1] /\ r2 = [e EXCEPT !.turn_count = 1]
        BY <3>3, <3>4, <3>5, <3>6, Zenon
      <4>2. QED
        BY <1>1, <1>2, <4>1 DEF OnDraw, St
    <3>7. CASE ~(s.turn_count = 0 /\ \A q \in Players : Cardinality(d.hands[q]) = DefaultHandSize)
      <4>1. s2 = d /\ r2 = e
        BY <3>3, <3>4, <3>5, <3>7, Zenon
      <4>2. QED
        BY <3>2, <4>1, Zenon
    <3>8. QED
      BY <3>6, <3>7, Zenon
  <2>2. CASE a.type = "play"
    <3>1. s2 = OnPlay(s, a.playerIndex, a.order, a.id) /\ r2 = OnPlay(r, a.playerIndex, a.order, a.id)
      BY <2>2 DEF StepOf, HandleTableAction, Moves
    <3> HIDE DEF s2, r2
    <3>2. QED
      BY <1>1, <1>2, <3>1 DEF OnPlay, St
  <2>3. CASE a.type = "discard"
    <3>1. /\ s2 = OnDiscard(s, a.playerIndex, a.order, a.id, a.failed)
          /\ r2 = OnDiscard(r, a.playerIndex, a.order, a.id, a.failed)
      BY <2>3 DEF StepOf, HandleTableAction, Moves
    <3> HIDE DEF s2, r2
    <3>2. QED
      BY <1>1, <1>2, <3>1 DEF OnDiscard, St
  <2>4. CASE a \in ClueAct
    <3>1. s2 = OnClue(s) /\ r2 = OnClue(r)
      BY <2>4 DEF StepOf, HandleTableAction, Moves, ClueAct
    <3> HIDE DEF s2, r2
    <3>2. QED
      BY <1>1, <1>2, <3>1 DEF OnClue, St
  <2>5. CASE a \in TurnAct
    <3>1. s2 = HandleTurn(s, a.num, a.playerIndex) /\ r2 = HandleTurn(r, a.num, a.playerIndex)
      BY <2>5 DEF StepOf, Moves, TurnAct
    <3> HIDE DEF s2, r2
    <3>2. QED
      BY <1>1, <1>2, <3>1 DEF HandleTurn, St
  <2>6. CASE a \in OverAct
    <3>1. s2 = s /\ r2 = r
      BY <2>6 DEF StepOf, Moves, OverAct
    <3> HIDE DEF s2, r2
    <3>2. QED
      BY <1>2, <3>1
  <2>7. a \in LeaveAct => a.type \in {"play", "discard"}
    BY DEF LeaveAct
  <2>8. QED
    BY <2>1, <2>2, <2>3, <2>4, <2>5, <2>6, <2>7 DEF RealAct
<1> HIDE DEF s2, r2
<1>5. s2 \in St /\ r2 \in St
  BY <1>1 DEF s2, r2
<1>6. Follows(s2, r2)
  BY <1>3, <1>4, <1>5, FollowsFrom
<1>7. QED
  BY <1>6 DEF s2, r2

-----------------------------------------------------------------------------
(* The game *)

\* The State of a new game is one.
LEMMA InitialSt ==
  InitialState \in St
<1>1. MaxClues \in Int /\ DeckSize \in Int /\ MaxRank \in Int /\ 0 \in Players
  BY TableAssumption DEF Players
<1>2. QED
  BY <1>1 DEF InitialState, St

\* h is g but for what the proof does not look at.
Alike(h, g) == GameOK(h) /\ h.st = g.st /\ h.list = g.list /\ h.inProgress = g.inProgress

\* updateNotes leaves the State and the list alone.
LEMMA UpdateNotesParts ==
  ASSUME NEW g, GameOK(g)
  PROVE  Alike(UpdateNotes(g), g)
<1> DEFINE n == [o \in DOMAIN g.notes \cup Annotated(g) |->
                   IF o \in Annotated(g) THEN Written(g, o) ELSE g.notes[o]]
           q == IF ~g.catchup /\ g.inProgress
                THEN g.queued \o SetToSeq({[order |-> o, note |-> Written(g, o).full] : o \in Noted(g)})
                ELSE g.queued
<1>1. UpdateNotes(g) = [g EXCEPT !.notes = n, !.queued = q]
  BY DEF UpdateNotes
<1> HIDE DEF n, q
<1>2. QED
  BY <1>1 DEF Alike, GameOK

\* So does what handle_action does with the game an interpretation returned.
LEMMA SettledParts ==
  ASSUME NEW g, NEW a, GameOK(g)
  PROVE  Alike(Settled(g, a), g)
<1>1. CASE a.type = "clue"
  BY <1>1 DEF Settled, Alike, GameOK
<1>2. CASE a.type = "turn"
  <2>1. Settled(g, a) = UpdateNotes(g)
    BY <1>2 DEF Settled
  <2>2. QED
    BY <2>1, UpdateNotesParts
<1>3. CASE a.type # "clue" /\ a.type # "turn"
  <2>1. Settled(g, a) = g
    BY <1>3 DEF Settled
  <2>2. QED
    BY <2>1 DEF Alike
<1>4. QED
  BY <1>1, <1>2, <1>3

\* Restoring the notes of the game that was rewound does, and the fields that
\* the caller of rewind takes.
LEMMA ReturnedParts ==
  ASSUME NEW g, NEW this, NEW kind, GameOK(g), GameOK(this)
  PROVE  /\ kind # "fix" => Alike(Returned(kind, Restore(g, this), this), g)
         /\ kind = "fix" => Alike(Returned(kind, Restore(g, this), this), this)
<1>1. Alike(Restore(g, this), g)
  <2> DEFINE n == [o \in (DOMAIN g.notes \ {o \in Orders : \E q \in DOMAIN this.notes : o <= q}) \cup DOMAIN this.notes |->
                     IF o \in DOMAIN this.notes THEN this.notes[o] ELSE g.notes[o]]
  <2>1. Restore(g, this) = [g EXCEPT !.notes = n]
    BY DEF Restore
  <2> HIDE DEF n
  <2>2. QED
    BY <2>1 DEF Alike, GameOK
<1> DEFINE h == Restore(g, this)
<1>2. GameOK(h) /\ h.st = g.st /\ h.list = g.list /\ h.inProgress = g.inProgress
  BY <1>1 DEF Alike
<1> HIDE DEF h
<1>3. CASE kind = "fix"
  <2>1. Returned(kind, h, this) = [this EXCEPT !.rewinded = h.rewinded, !.status = h.status]
    BY <1>3 DEF Returned
  <2>2. Alike(Returned(kind, h, this), this)
    BY <2>1 DEF Alike, GameOK
  <2>3. QED
    BY <1>3, <2>2 DEF h
<1>4. CASE kind = "silent"
  <2>1. Returned(kind, h, this) = h
    BY <1>4 DEF Returned
  <2>2. QED
    BY <1>2, <1>4, <2>1 DEF Alike, h
<1>5. CASE kind # "fix" /\ kind # "silent"
  <2>1. Returned(kind, h, this) = UpdateNotes(h)
    BY <1>5 DEF Returned
  <2>2. Alike(UpdateNotes(h), h)
    BY <1>2, UpdateNotesParts
  <2>3. QED
    BY <1>2, <1>5, <2>1, <2>2 DEF Alike, h
<1>6. QED
  BY <1>3, <1>4, <1>5

\* The blank game.
LEMMA RestartedParts ==
  ASSUME NEW g, GameOK(g)
  PROVE  /\ GameOK(Restarted(g)) /\ Restarted(g).list = <<>>
         /\ Restarted(g).st = [InitialState EXCEPT !.deck_ids = g.st.deck_ids]
         /\ Restarted(g).inProgress = g.inProgress
<1> DEFINE st == [InitialState EXCEPT !.deck_ids = g.st.deck_ids]
<1>1. st \in St
  <2>1. InitialState \in St /\ g.st \in St
    BY InitialSt DEF GameOK
  <2> DEFINE i == InitialState
  <2> HIDE DEF i
  <2>2. i \in St => [i EXCEPT !.deck_ids = g.st.deck_ids] \in St
    BY <2>1 DEF St
  <2>3. QED
    BY <2>1, <2>2 DEF i
<1>2. Restarted(g).st = st
  BY DEF Restarted, CreateBlank, NewGame
<1> HIDE DEF st
<1>3. <<>> \in Seq(Seq(Act))
  BY EmptySeq
<1>4. Restarted(g).list = <<>> /\ Restarted(g).inProgress = g.inProgress
  BY DEF Restarted, CreateBlank, NewGame
<1>5. GameOK(Restarted(g))
  <2> DEFINE b == Restarted(g)
  <2>1. b = [st |-> b.st, list |-> b.list, notes |-> b.notes, rewinds |-> b.rewinds,
             depth |-> b.depth, catchup |-> b.catchup, inProgress |-> b.inProgress,
             status |-> b.status, rewinded |-> b.rewinded, ignored |-> b.ignored,
             queued |-> b.queued]
    <3> DEFINE n == NewGame(g.inProgress)
               c == CreateBlank(g)
    <3>1. n = [st |-> n.st, list |-> n.list, notes |-> n.notes, rewinds |-> n.rewinds,
               depth |-> n.depth, catchup |-> n.catchup, inProgress |-> n.inProgress,
               status |-> n.status, rewinded |-> n.rewinded, ignored |-> n.ignored,
               queued |-> n.queued]
      BY DEF NewGame
    <3>2. c = [n EXCEPT !.notes = g.notes, !.rewinds = g.rewinds, !.st.deck_ids = g.st.deck_ids]
      BY DEF CreateBlank
    <3>3. b = [c EXCEPT !.catchup = TRUE, !.notes = EmptyNote]
      BY DEF Restarted
    <3> HIDE DEF n, c, b
    <3>4. c = [st |-> c.st, list |-> c.list, notes |-> c.notes, rewinds |-> c.rewinds,
               depth |-> c.depth, catchup |-> c.catchup, inProgress |-> c.inProgress,
               status |-> c.status, rewinded |-> c.rewinded, ignored |-> c.ignored,
               queued |-> c.queued]
      BY <3>1, <3>2
    <3>5. QED
      BY <3>3, <3>4
  <2>2. b.st \in St /\ b.list \in Seq(Seq(Act))
    BY <1>1, <1>2, <1>3, <1>4
  <2> HIDE DEF b
  <2>3. QED
    BY <2>1, <2>2 DEF GameOK, b
<1>6. QED
  BY <1>2, <1>4, <1>5 DEF st

\* The blank game follows the beginning.
LEMMA RestartedFollows ==
  ASSUME NEW g, GameOK(g), NEW r \in St, Known(r), Follows(g.st, r)
  PROVE  Follows(Restarted(g).st, InitialState)
<1> DEFINE s == Restarted(g).st
           i == InitialState
<1>1. s = [i EXCEPT !.deck_ids = g.st.deck_ids] /\ s \in St
  BY RestartedParts DEF GameOK
<1>2. i \in St
  BY InitialSt
<1>3. \A o \in Orders : i.deck[o] = NoId /\ i.deck_ids[o] = NoId
  BY DEF InitialState
<1> HIDE DEF s, i
<1>4. \A o \in Orders : g.st.deck_ids[o] \in {NoId, Deck[o]}
  BY DEF Known, Follows
<1>5. \A o \in Orders : s.deck[o] \in {i.deck[o], Deck[o]} /\ s.deck_ids[o] \in {i.deck_ids[o], Deck[o]}
  BY <1>1, <1>2, <1>3, <1>4 DEF St
<1>6. /\ s.turn_count = i.turn_count /\ s.hands = i.hands /\ s.drawn_index = i.drawn_index
      /\ s.cardOrder = i.cardOrder /\ s.cardsLeft = i.cardsLeft
      /\ s.clue_tokens = i.clue_tokens /\ s.strikes = i.strikes
      /\ s.play_stacks = i.play_stacks /\ s.discard_stacks = i.discard_stacks
      /\ s.max_ranks = i.max_ranks /\ s.currentPlayerIndex = i.currentPlayerIndex
      /\ s.endgameTurns = i.endgameTurns
  BY <1>1, <1>2 DEF St
<1>7. Follows(s, i)
  BY <1>1, <1>2, <1>5, <1>6, FollowsFrom
<1>8. QED
  BY <1>7 DEF s, i

\* What an action does to the game, up to its interpretation.
LEMMA EffectParts ==
  ASSUME NEW g, GameOK(g), NEW a \in Act
  PROVE  LET h == Effect(g, a)
         IN  /\ GameOK(h) /\ h.list = g.list
             /\ a \in RealAct => h.st = StepOf(g.st, a)
             /\ a \in SpecialAct => \/ h.st = g.st
                                    \/ /\ a.type = "identify"
                                       /\ h.st = [g.st EXCEPT !.deck = [@ EXCEPT ![a.order] = Deck[a.order]]]
             /\ a.type # "gameOver" => h.inProgress = g.inProgress
<1> DEFINE h == Effect(g, a)
<1>1. CASE a \in DrawAct
  <2> DEFINE s == StepOf(g.st, a)
             status == [g.status EXCEPT ![a.order] = "none"]
             rewinded == g.rewinded \ {a.order}
  <2>1. a.type = "draw" /\ a \in RealAct
    BY <1>1 DEF DrawAct, RealAct
  <2>2. h = [g EXCEPT !.st = s, !.status = status, !.rewinded = rewinded]
    BY <2>1 DEF Effect, StepOf, Moves
  <2>3. s \in St
    BY <2>1, StepType DEF GameOK
  <2>4. a \notin SpecialAct
    BY <2>1, ActTypes DEF AnyAct, Specials
  <2> HIDE DEF h, s, status, rewinded
  <2>5. GameOK(h) /\ h.list = g.list /\ h.st = s /\ h.inProgress = g.inProgress
    BY <2>2, <2>3 DEF GameOK
  <2>6. QED
    BY <2>4, <2>5 DEF h, s
<1>3. CASE a \in ClueAct \cup LeaveAct \cup TurnAct
  <2> DEFINE s == StepOf(g.st, a)
  <2>1. a.type \in Moves \cup {"turn"} /\ a \in RealAct
    BY <1>3 DEF ClueAct, LeaveAct, TurnAct, RealAct, Moves
  <2>2. h = [g EXCEPT !.st = s]
    <3>1. CASE a.type = "turn"
      BY <3>1 DEF Effect, StepOf, Moves
    <3>2. CASE a.type \in Moves
      BY <3>2 DEF Effect, StepOf, Moves
    <3>3. QED
      BY <2>1, <3>1, <3>2
  <2>3. s \in St
    BY <2>1, StepType DEF GameOK
  <2>4. a \notin SpecialAct
    BY <2>1, ActTypes DEF AnyAct, Specials
  <2> HIDE DEF h, s
  <2>5. GameOK(h) /\ h.list = g.list /\ h.st = s /\ h.inProgress = g.inProgress
    BY <2>2, <2>3 DEF GameOK
  <2>6. QED
    BY <2>4, <2>5 DEF h, s
<1>4. CASE a \in OverAct
  <2>1. a.type = "gameOver" /\ a \in RealAct
    BY <1>4 DEF OverAct, RealAct
  <2>2. h = [g EXCEPT !.inProgress = FALSE]
    BY <2>1 DEF Effect, Moves
  <2>3. StepOf(g.st, a) = g.st
    BY <2>1 DEF StepOf, Moves
  <2>4. a \notin SpecialAct
    BY <2>1, ActTypes DEF AnyAct, Specials
  <2> HIDE DEF h
  <2>5. GameOK(h) /\ h.list = g.list /\ h.st = g.st
    BY <2>2 DEF GameOK
  <2>6. QED
    BY <2>1, <2>3, <2>4, <2>5 DEF h
<1>5. CASE a \in IdentifyAct
  <2> DEFINE d == [g.st.deck EXCEPT ![a.order] = a.id]
             st == IF a.infer THEN g.st ELSE [g.st EXCEPT !.deck = d]
             rewinded == g.rewinded \cup {a.order}
  <2>1. a.type = "identify" /\ a.order \in Orders /\ a.infer \in BOOLEAN /\ (~a.infer => a.id = Deck[a.order])
    BY <1>5 DEF IdentifyAct
  <2>2. h = Identified(g, a)
    BY <2>1 DEF Effect, Moves
  <2>3. g.st \in St
    BY DEF GameOK
  <2>4. h = [g EXCEPT !.rewinded = rewinded, !.st = st]
    <3>1. CASE a.infer
      <4>1. h = [g EXCEPT !.rewinded = rewinded, !.st.deck = g.st.deck]
        BY <2>2, <3>1 DEF Identified
      <4>2. [g.st EXCEPT !.deck = g.st.deck] = g.st
        BY <2>3 DEF St
      <4>3. QED
        BY <3>1, <4>1, <4>2
    <3>2. CASE ~a.infer
      BY <2>2, <3>2 DEF Identified
    <3>3. QED
      BY <3>1, <3>2
  <2>5. d \in [Orders -> Ids \cup {NoId}]
    <3>1. g.st.deck \in [Orders -> Ids \cup {NoId}]
      BY <2>3, StParts
    <3>2. ~a.infer => a.id \in Ids
      BY <2>1, Identities
    <3>3. a.id \in Ids \cup {NoId}
      BY <1>5 DEF IdentifyAct
    <3>4. QED
      BY <3>1, <3>3
  <2>6. ~a.infer => d = [g.st.deck EXCEPT ![a.order] = Deck[a.order]]
    BY <2>1
  <2> HIDE DEF d
  <2>7. st \in St
    BY <2>3, <2>5 DEF St
  <2>8. st = g.st \/ st = [g.st EXCEPT !.deck = [@ EXCEPT ![a.order] = Deck[a.order]]]
    BY <2>6
  <2> HIDE DEF st, rewinded, h
  <2>9. GameOK(h) /\ h.list = g.list /\ h.st = st /\ h.inProgress = g.inProgress
    BY <2>4, <2>7 DEF GameOK
  <2>10. a \notin RealAct
    BY <2>1, ActTypes DEF AnyAct, Specials
  <2>11. QED
    BY <2>1, <2>8, <2>9, <2>10 DEF h
<1>6. CASE a \in MarkAct
  <2>1. a.type \in {"ignore", "finesse"}
    BY <1>6 DEF MarkAct
  <2> DEFINE ignored == g.ignored \cup {a}
  <2>2. h = [g EXCEPT !.ignored = ignored]
    <3>1. CASE a.type = "ignore"
      BY <3>1 DEF Effect, Moves
    <3>2. CASE a.type = "finesse"
      BY <3>2 DEF Effect, Moves
    <3>3. QED
      BY <2>1, <3>1, <3>2
  <2>3. a \notin RealAct
    BY <2>1, ActTypes DEF AnyAct, Specials
  <2> HIDE DEF ignored, h
  <2>4. GameOK(h) /\ h.list = g.list /\ h.st = g.st /\ h.inProgress = g.inProgress
    BY <2>2 DEF GameOK
  <2>5. QED
    BY <2>3, <2>4 DEF h
<1>7. QED
  BY <1>1, <1>3, <1>4, <1>5, <1>6 DEF Act, RealAct, SpecialAct

\* However a clue is read, the State and the list are the same.
LEMMA ReadingsParts ==
  ASSUME NEW g, GameOK(g), NEW a, NEW x \in Readings(g, a)
  PROVE  Alike(x, g)
<1>1. CASE x = g
  BY <1>1 DEF Alike
<1>2. CASE x # g
  <2>1. \E status : x = [g EXCEPT !.status = status]
    BY <1>2 DEF Readings
  <2>2. QED
    BY <2>1 DEF Alike, GameOK
<1>3. QED
  BY <1>1, <1>2

\* An action of the server takes a game that follows the State before it to one
\* that follows the State after it; what a rewind inserted leaves it there.
LEMMA EffectFollows ==
  ASSUME NEW g, GameOK(g), NEW a \in Act, NEW r \in St, Follows(g.st, r)
  PROVE  /\ a \in RealAct => Follows(Effect(g, a).st, StepOf(r, a))
         /\ a \in SpecialAct => Follows(Effect(g, a).st, r)
<1>1. a \in RealAct => Follows(Effect(g, a).st, StepOf(r, a))
  <2>1. a \in RealAct => Effect(g, a).st = StepOf(g.st, a)
    BY EffectParts
  <2>2. a \in RealAct => Follows(StepOf(g.st, a), StepOf(r, a))
    BY StepFollows
  <2>3. QED
    BY <2>1, <2>2
<1>2. ASSUME a \in SpecialAct PROVE Follows(Effect(g, a).st, r)
  <2>1. \/ Effect(g, a).st = g.st
        \/ /\ a.type = "identify"
           /\ Effect(g, a).st = [g.st EXCEPT !.deck = [@ EXCEPT ![a.order] = Deck[a.order]]]
    BY <1>2, EffectParts
  <2>2. CASE Effect(g, a).st = g.st
    BY <2>2
  <2>3. CASE /\ a.type = "identify"
             /\ Effect(g, a).st = [g.st EXCEPT !.deck = [@ EXCEPT ![a.order] = Deck[a.order]]]
    <3> DEFINE d == [g.st.deck EXCEPT ![a.order] = Deck[a.order]]
               s == Effect(g, a).st
    <3>1. s = [g.st EXCEPT !.deck = d] /\ s \in St /\ g.st \in St
      BY <2>3, EffectParts DEF GameOK
    <3>2. g.st.deck \in [Orders -> Ids \cup {NoId}]
      BY <3>1, StParts
    <3>3. \A o \in Orders : d[o] \in {g.st.deck[o], Deck[o]}
      BY <3>2
    <3> HIDE DEF d, s
    <3>4. s.deck = d /\ s.deck_ids = g.st.deck_ids
      BY <3>1 DEF St
    <3>5. \A o \in Orders : s.deck[o] \in {r.deck[o], Deck[o]} /\ s.deck_ids[o] \in {r.deck_ids[o], Deck[o]}
      BY <3>3, <3>4 DEF Follows
    <3>6. s = [r EXCEPT !.deck = s.deck, !.deck_ids = s.deck_ids]
      BY <3>1, <3>4 DEF Follows, St
    <3>7. Follows(s, r)
      BY <3>1, <3>5, <3>6 DEF Follows
    <3>8. QED
      BY <3>7 DEF s
  <2>4. QED
    BY <2>1, <2>2, <2>3
<1>3. QED
  BY <1>1, <1>2

\* What is done with an action before it is interpreted.
LEMMA RecordParts ==
  ASSUME NEW g, GameOK(g), NEW a \in Act, Len(g.list) <= g.st.turn_count + 1
  PROVE  LET h == Record(g, a)
         IN  /\ GameOK(h) /\ h.st = g.st /\ h.inProgress = g.inProgress
             /\ Len(h.list) = g.st.turn_count + 1
             /\ FlattenSeq(h.list) = Append(FlattenSeq(g.list), a)
             /\ a \in ToSet(h.list[g.st.turn_count + 1])
             /\ \A i \in 1 .. Len(g.list) : ToSet(g.list[i]) \subseteq ToSet(h.list[i])
<1> DEFINE t == g.st.turn_count + 1
           new == WithAct(g.list, t, a)
           h == Record(g, a)
<1>1. g.list \in Seq(Seq(Act)) /\ t \in Nat \ {0} /\ Len(g.list) <= t
  BY StParts DEF GameOK
<1>2. h = [g EXCEPT !.list = new]
  BY DEF Record, WithAct
<1>3. /\ new \in Seq(Seq(Act)) /\ Len(new) = t
      /\ FlattenSeq(new) = Append(FlattenSeq(g.list), a)
      /\ a \in ToSet(new[t])
      /\ \A i \in 1 .. Len(g.list) : ToSet(g.list[i]) \subseteq ToSet(new[i])
  <2> HIDE DEF t
  <2>1. QED
    BY <1>1, Recorded
<1> HIDE DEF new, h
<1>4. GameOK(h) /\ h.st = g.st /\ h.inProgress = g.inProgress /\ h.list = new
  BY <1>2, <1>3 DEF GameOK
<1>5. QED
  BY <1>3, <1>4, Zenon DEF h

-----------------------------------------------------------------------------
(* The frames *)

\* An action that is not inserted stays when the inserted ones are left out.
LEMMA RealKeeps ==
  ASSUME NEW s \in Seq(AnyAct), NEW a \in ToSet(s), a \in RealAct
  PROVE  Real(s) # <<>>
<1> DEFINE G == {t \in Seq(AnyAct) : a \in ToSet(t) => Real(t) # <<>>}
<1>1. <<>> \in G
  <2>1. <<>> \in Seq(AnyAct) /\ ToSet(<<>>) = {}
    BY DEF ToSet
  <2>2. QED
    BY <2>1
<1>2. ASSUME NEW t \in Seq(AnyAct), NEW x \in AnyAct, t \in G
      PROVE  Append(t, x) \in G
  <2>1. Append(t, x) \in Seq(AnyAct)
    BY AppendParts
  <2>2. Real(Append(t, x)) = IF x \in RealAct THEN Append(Real(t), x) ELSE Real(t)
    BY RealAppend
  <2>3. ToSet(Append(t, x)) = ToSet(t) \cup {x}
    BY AppendSet
  <2>4. Real(t) \in Seq(RealAct)
    BY RealType
  <2>5. CASE x \in RealAct
    <3>1. Len(Append(Real(t), x)) = Len(Real(t)) + 1 /\ Len(Real(t)) \in Nat
      BY <2>4, <2>5, AppendParts
    <3>2. Append(Real(t), x) # <<>>
      BY <3>1
    <3>3. QED
      BY <2>1, <2>2, <2>5, <3>2
  <2>6. CASE x \notin RealAct
    <3>1. a # x
      BY <2>6
    <3>2. QED
      BY <1>2, <2>1, <2>2, <2>3, <2>6, <3>1
  <2>7. QED
    BY <2>5, <2>6
<1> HIDE DEF G
<1>3. \A t \in Seq(AnyAct) : t \in G
  BY <1>1, <1>2, AppendInduction
<1>4. QED
  BY <1>3 DEF G

\* What is left of a frame after its first entry: the rest, perhaps with an
\* identification first that has waited for the draw of its card.
LEMMA AfterParts ==
  ASSUME NEW f, FrameOK(f), f.todo # <<>>
  PROVE  LET e == Head(f.todo)
             n == After(f, e)
         IN  /\ FrameOK(n) /\ n.kind = f.kind /\ n.this = f.this /\ n.act = f.act
             /\ Real(Acts(n.todo)) = Real(Acts(Tail(f.todo)))
             /\ \/ /\ n.todo = Tail(f.todo) /\ n.ids = f.ids
                   /\ ~ /\ e.part \in {"insert", "future"} /\ e.act.type = "draw"
                        /\ f.ids # <<>> /\ Head(f.ids).order = e.act.order
                \/ /\ f.ids # <<>> /\ n.ids = Tail(f.ids) /\ e.part \in {"insert", "future"}
                   /\ n.todo = <<[act |-> Head(f.ids), part |-> "waited"]>> \o Tail(f.todo)
<1> DEFINE e == Head(f.todo)
           n == After(f, e)
           w == [act |-> Head(f.ids), part |-> "waited"]
           C == /\ e.part \in {"insert", "future"} /\ e.act.type = "draw"
                /\ f.ids # <<>> /\ Head(f.ids).order = e.act.order
<1>1. f.todo \in Seq(Entry) /\ Tail(f.todo) \in Seq(Entry) /\ f.ids \in Seq(IdentifyAct)
  BY TodoSplit DEF FrameOK
<1>2. CASE ~C
  <2>1. n = [f EXCEPT !.todo = Tail(@)]
    BY <1>2 DEF After
  <2> HIDE DEF n, e
  <2>2. n.kind = f.kind /\ n.this = f.this /\ n.act = f.act /\ n.todo = Tail(f.todo) /\ n.ids = f.ids
    BY <2>1 DEF FrameOK
  <2>3. FrameOK(n)
    BY <1>1, <2>1, <2>2 DEF FrameOK
  <2>4. QED
    BY <1>2, <2>2, <2>3 DEF n, e
<1>3. CASE C
  <2> DEFINE rest == Tail(f.todo)
             wait == Tail(f.ids)
  <2>1. n = [f EXCEPT !.todo = <<w>> \o rest, !.ids = wait]
    BY <1>3 DEF After
  <2>2. f.ids # <<>> /\ e.part \in {"insert", "future"}
    BY <1>3
  <2>3. Head(f.ids) \in IdentifyAct /\ wait \in Seq(IdentifyAct)
    BY <1>1, <2>2, HeadAndTail
  <2>4. w \in Entry /\ w.act \in SpecialAct /\ w.act \in AnyAct /\ w.act \notin RealAct
    <3>1. Head(f.ids) \in SpecialAct /\ Head(f.ids) \in Act /\ Head(f.ids) \in AnyAct
      BY <2>3 DEF SpecialAct, Act, AnyAct
    <3>2. Head(f.ids).type = "identify"
      BY <2>3 DEF IdentifyAct
    <3>3. Head(f.ids) \notin RealAct /\ Head(f.ids) # NoAct
      BY <3>1, <3>2, ActTypes DEF Specials, NoAct
    <3>4. w \in [act : Act \cup {NoAct}, part : Parts]
      BY <3>1 DEF Parts
    <3>5. QED
      BY <3>1, <3>3, <3>4 DEF Entry
  <2>5. <<w>> \in Seq(Entry) /\ Acts(<<w>>) = <<w.act>>
    BY <2>4, OneEntry
  <2>6. <<w>> \o rest \in Seq(Entry) /\ Acts(<<w>> \o rest) = Acts(<<w>>) \o Acts(rest)
    BY <1>1, <2>5, ActsConcat
  <2>7. Real(<<w.act>> \o Acts(rest)) = Real(Acts(rest))
    <3>1. Acts(rest) \in Seq(AnyAct)
      BY <1>1, ActsParts
    <3>2. Real(<<w.act>> \o Acts(rest)) = IF w.act \in RealAct THEN <<w.act>> \o Real(Acts(rest))
                                                               ELSE Real(Acts(rest))
      BY <2>4, <3>1, RealFirst
    <3>3. QED
      BY <2>4, <3>2
  <2> DEFINE new == <<w>> \o rest
  <2>8. Real(Acts(new)) = Real(Acts(rest)) /\ new \in Seq(Entry)
    BY <2>5, <2>6, <2>7
  <2>9. n = [f EXCEPT !.todo = new, !.ids = wait]
    BY <2>1
  <2> HIDE DEF new, wait, n, e, w, rest
  <2>10. n.kind = f.kind /\ n.this = f.this /\ n.act = f.act /\ n.todo = new /\ n.ids = wait
    BY <2>9 DEF FrameOK
  <2>11. FrameOK(n)
    BY <2>3, <2>8, <2>9, <2>10 DEF FrameOK
  <2>12. QED
    BY <2>2, <2>8, <2>10, <2>11 DEF n, e, new, wait, w, rest
<1>4. QED
  BY <1>2, <1>3

-----------------------------------------------------------------------------
(* The course of the game *)

\* What a course says of one action of the log.
LEMMA RunsParts ==
  ASSUME NEW ss, NEW R, SessionOK(ss), Course(ss, R)
  PROVE  /\ Now(ss) \in Nat /\ Now(ss) = Len(ss.log) /\ ss.log \in Seq(RealAct)
         /\ \A k \in 0 .. Now(ss) : R[k] \in St /\ Known(R[k])
         /\ \A k \in 0 .. Now(ss) : k < Now(ss) =>
              /\ k + 1 \in 1 .. Now(ss) /\ k + 1 \in 0 .. Now(ss) /\ (k + 1) - 1 = k
              /\ ss.log[k + 1] \in RealAct /\ R[k + 1] = StepOf(R[k], ss.log[k + 1])
              /\ R[k].turn_count \in Nat /\ R[k].turn_count <= R[k + 1].turn_count
<1>1. ss.log \in Seq(RealAct) /\ Now(ss) = Len(ss.log) /\ Now(ss) \in Nat
  BY SeqElements DEF SessionOK, Now
<1>2. \A k \in 0 .. Now(ss) : R[k] \in St /\ Known(R[k])
  BY DEF Course, Runs, Truth
<1>3. ASSUME NEW k \in 0 .. Now(ss), k < Now(ss)
      PROVE  /\ k + 1 \in 1 .. Now(ss) /\ k + 1 \in 0 .. Now(ss) /\ (k + 1) - 1 = k
             /\ ss.log[k + 1] \in RealAct /\ R[k + 1] = StepOf(R[k], ss.log[k + 1])
             /\ R[k].turn_count \in Nat /\ R[k].turn_count <= R[k + 1].turn_count
  <2>1. k + 1 \in 1 .. Now(ss) /\ k + 1 \in 0 .. Now(ss) /\ (k + 1) - 1 = k /\ k <= k + 1
    BY <1>1, <1>3
  <2>2. ss.log[k + 1] \in RealAct
    BY <1>1, <2>1, SeqElements
  <2>3. R[k + 1] = StepOf(R[k], ss.log[k + 1])
    <3>1. \A j \in 1 .. Now(ss) : R[j] = StepOf(R[j - 1], ss.log[j])
      BY DEF Course, Runs
    <3>2. R[k + 1] = StepOf(R[(k + 1) - 1], ss.log[k + 1])
      BY <2>1, <3>1
    <3>3. QED
      BY <2>1, <3>2
  <2>4. R[k].turn_count \in Nat
    BY <1>2, StParts
  <2>5. R[k].turn_count <= R[k + 1].turn_count
    BY <2>1 DEF Course, Onward
  <2>6. QED
    BY <2>1, <2>2, <2>3, <2>4, <2>5
<1>4. QED
  BY <1>1, <1>2, <1>3

\* Where a card is drawn, its order is one more than the last.
LEMMA DrawnNext ==
  ASSUME NEW ss, NEW R, SessionOK(ss), Course(ss, R),
         NEW i \in 1 .. Now(ss), ss.log[i].type = "draw"
  PROVE  /\ i - 1 \in 0 .. Now(ss) /\ i \in 0 .. Now(ss)
         /\ ss.log[i] \in DrawAct
         /\ ss.log[i].order = R[i - 1].cardOrder + 1 /\ R[i].cardOrder = ss.log[i].order
<1>1. Now(ss) \in Nat /\ i - 1 \in 0 .. Now(ss) /\ i \in 0 .. Now(ss)
  BY RunsParts
<1>2. ss.log[i] \in RealAct
  BY <1>1, RunsParts, SeqElements
<1>3. ss.log[i] \in DrawAct
  <2>1. ss.log[i] \in AnyAct
    BY <1>2 DEF AnyAct, Act
  <2>2. QED
    BY <2>1, ActTypes
<1>4. ss.log[i].order = R[i - 1].cardOrder + 1
  BY DEF Course, Orderly
<1>5. R[i] = StepOf(R[i - 1], ss.log[i]) /\ R[i - 1] \in St
  BY <1>1 DEF Course, Runs
<1>6. R[i].cardOrder = ss.log[i].order
  BY <1>3, <1>5, DrawParts
<1>7. QED
  BY <1>1, <1>3, <1>4, <1>6

\* Cards are drawn in the order of their numbers, so each only once.
LEMMA DrawnLater ==
  ASSUME NEW ss, NEW R, SessionOK(ss), Course(ss, R),
         NEW i \in 1 .. Now(ss), NEW j \in 1 .. Now(ss), i < j,
         ss.log[i].type = "draw", ss.log[j].type = "draw"
  PROVE  ss.log[i].order < ss.log[j].order
<1>1. /\ i - 1 \in 0 .. Now(ss) /\ i \in 0 .. Now(ss)
      /\ ss.log[i].order = R[i - 1].cardOrder + 1 /\ R[i].cardOrder = ss.log[i].order
  BY DrawnNext
<1>2. /\ j - 1 \in 0 .. Now(ss) /\ j \in 0 .. Now(ss)
      /\ ss.log[j].order = R[j - 1].cardOrder + 1
  BY DrawnNext
<1>3. i <= j - 1
  OBVIOUS
<1>4. R[i].cardOrder <= R[j - 1].cardOrder
  BY <1>1, <1>2, <1>3 DEF Course, Onward
<1>5. R[i].cardOrder \in Int /\ R[j - 1].cardOrder \in Int
  <2>1. R[i] \in St /\ R[j - 1] \in St
    BY <1>1, <1>2, RunsParts
  <2>2. R[i].cardOrder \in Orders \cup {-1} /\ R[j - 1].cardOrder \in Orders \cup {-1}
    BY <2>1, StParts
  <2>3. \A o \in Orders \cup {-1} : o \in Int
    BY Identities
  <2>4. QED
    BY <2>2, <2>3
<1>6. QED
  BY <1>1, <1>2, <1>4, <1>5

\* A card is drawn once.
LEMMA DrawnOnce ==
  ASSUME NEW ss, NEW R, SessionOK(ss), Course(ss, R),
         NEW i \in 1 .. Now(ss), NEW j \in 1 .. Now(ss),
         ss.log[i].type = "draw", ss.log[j].type = "draw", ss.log[i].order = ss.log[j].order
  PROVE  i = j
<1>1. ss.log[i].order \in Nat /\ ss.log[j].order \in Nat
  <2>1. ss.log[i] \in DrawAct /\ ss.log[j] \in DrawAct
    BY DrawnNext
  <2>2. QED
    BY <2>1, Identities DEF DrawAct
<1>2. CASE i < j
  BY <1>1, <1>2, DrawnLater
<1>3. CASE j < i
  BY <1>1, <1>3, DrawnLater
<1>4. QED
  BY <1>2, <1>3

\* The next card of the deck is in no hand.
LEMMA FreshOrder ==
  ASSUME NEW ss, NEW R, SessionOK(ss), Course(ss, R), NEW k \in 0 .. Now(ss),
         NEW p \in Players, NEW o \in R[k].hands[p]
  PROVE  o \in Orders /\ o <= R[k].cardOrder
<1>1. R[k] \in St /\ Now(ss) \in Nat
  BY RunsParts
<1>2. o \in Orders
  BY <1>1, StParts
<1>3. PICK i \in 1 .. k : Draws(ss.log[i], o, p)
  BY <1>2 DEF Course, Held
<1>4. i \in 1 .. Now(ss) /\ i <= k
  BY <1>1
<1>5. ss.log[i].type = "draw" /\ ss.log[i].order = o
  BY <1>3 DEF Draws
<1>6. i \in 0 .. Now(ss) /\ R[i].cardOrder = o
  BY <1>4, <1>5, DrawnNext
<1>7. R[i].cardOrder <= R[k].cardOrder
  BY <1>4, <1>6 DEF Course, Onward
<1>8. QED
  BY <1>2, <1>6, <1>7

-----------------------------------------------------------------------------
(* The game of a call *)

\* What the invariant says of a game does not depend on its notes.
LEMMA PlayedAlike ==
  ASSUME NEW ss, NEW R, NEW g, NEW h, NEW k, NEW n, Played(ss, R, g, k, n), Alike(h, g)
  PROVE  Played(ss, R, h, k, n)
<1>1. GameOK(h) /\ h.st = g.st /\ h.list = g.list /\ h.inProgress = g.inProgress
  BY DEF Alike
<1>2. Filed(ss, R, h, k)
  BY <1>1 DEF Filed, Played
<1>3. QED
  BY <1>1, <1>2 DEF Played

\* An action stays where it was filed when its turn's list grows.
LEMMA FiledGrows ==
  ASSUME NEW ss, NEW R, SessionOK(ss), Course(ss, R), NEW n \in 0 .. Now(ss), NEW g, NEW h,
         g.list \in Seq(Seq(Act)), h.list \in Seq(Seq(Act)), Filed(ss, R, g, n),
         Len(g.list) <= Len(h.list),
         \A i \in 1 .. Len(g.list) : ToSet(g.list[i]) \subseteq ToSet(h.list[i])
  PROVE  Filed(ss, R, h, n)
<1>1. Len(g.list) \in Nat /\ Len(h.list) \in Nat /\ Now(ss) \in Nat
  BY SeqElements, RunsParts
<1>2. SUFFICES ASSUME NEW i \in 1 .. n, ss.log[i].type = "draw"
               PROVE  /\ R[i - 1].turn_count < Len(h.list)
                      /\ ss.log[i] \in ToSet(h.list[R[i - 1].turn_count + 1])
  BY DEF Filed
<1> DEFINE t == R[i - 1].turn_count
<1>3. t < Len(g.list) /\ ss.log[i] \in ToSet(g.list[t + 1])
  BY <1>2 DEF Filed
<1>4. t \in Nat
  <2>1. i - 1 \in 0 .. Now(ss)
    BY <1>1, <1>2
  <2>2. R[i - 1] \in St
    BY <2>1, RunsParts
  <2>3. QED
    BY <2>2, StParts
<1> HIDE DEF t
<1>5. t + 1 \in 1 .. Len(g.list) /\ t < Len(h.list)
  BY <1>1, <1>3, <1>4
<1>6. ss.log[i] \in ToSet(h.list[t + 1])
  BY <1>3, <1>5
<1>7. QED
  BY <1>5, <1>6 DEF t

\* The list of a game that was played is a list of actions.
LEMMA PlayedParts ==
  ASSUME NEW ss, NEW R, SessionOK(ss), Course(ss, R), NEW k \in 0 .. Now(ss), NEW n, NEW g,
         Played(ss, R, g, k, n)
  PROVE  /\ GameOK(g) /\ g.list \in Seq(Seq(Act)) /\ FlattenSeq(g.list) \in Seq(Act)
         /\ Len(g.list) \in Nat /\ g.st \in St /\ g.st.turn_count = R[k].turn_count
         /\ g.st.hands = R[k].hands /\ g.st.drawn_index = R[k].drawn_index
         /\ g.st.turn_count \in Nat /\ Len(g.list) <= g.st.turn_count + 1
<1>1. GameOK(g) /\ g.list \in Seq(Seq(Act)) /\ g.st \in St /\ Len(g.list) <= g.st.turn_count + 1
  BY DEF Played, GameOK
<1>2. FlattenSeq(g.list) \in Seq(Act)
  BY <1>1, FlattenType
<1>3. Len(g.list) \in Nat
  BY <1>1, SeqElements
<1>4. R[k] \in St /\ Follows(g.st, R[k])
  BY RunsParts DEF Played
<1>5. g.st.turn_count = R[k].turn_count /\ g.st.hands = R[k].hands
      /\ g.st.drawn_index = R[k].drawn_index
  BY <1>4, FollowParts
<1>6. g.st.turn_count \in Nat
  BY <1>1, StParts
<1>7. QED
  BY <1>1, <1>2, <1>3, <1>5, <1>6

\* Recording the next action of the server.
LEMMA RecordReal ==
  ASSUME NEW ss, NEW R, SessionOK(ss), Course(ss, R), NEW k \in 0 .. Now(ss), k < Now(ss),
         NEW g, Played(ss, R, g, k, k), NEW a, a = ss.log[k + 1], NEW h, h = Record(g, a)
  PROVE  /\ Played(ss, R, h, k, k + 1)
         /\ Len(h.list) = h.st.turn_count + 1
         /\ a \in ToSet(h.list[Len(h.list)])
         /\ ToSet(FlattenSeq(h.list)) = ToSet(FlattenSeq(g.list)) \cup {a}
<1>1. /\ Now(ss) \in Nat /\ Now(ss) = Len(ss.log) /\ ss.log \in Seq(RealAct)
      /\ k + 1 \in 1 .. Now(ss) /\ k + 1 \in 0 .. Now(ss) /\ a \in RealAct
  BY RunsParts
<1>2. a \in Act /\ a \in AnyAct
  BY <1>1 DEF Act, AnyAct
<1>3. /\ GameOK(g) /\ g.list \in Seq(Seq(Act)) /\ FlattenSeq(g.list) \in Seq(Act)
      /\ Len(g.list) \in Nat /\ g.st.turn_count \in Nat /\ Len(g.list) <= g.st.turn_count + 1
  BY PlayedParts
<1>4. /\ GameOK(h) /\ h.st = g.st /\ h.inProgress = g.inProgress
      /\ Len(h.list) = g.st.turn_count + 1
      /\ FlattenSeq(h.list) = Append(FlattenSeq(g.list), a)
      /\ a \in ToSet(h.list[g.st.turn_count + 1])
      /\ \A i \in 1 .. Len(g.list) : ToSet(g.list[i]) \subseteq ToSet(h.list[i])
  BY <1>2, <1>3, RecordParts
<1>5. h.list \in Seq(Seq(Act))
  BY <1>4 DEF GameOK
<1>6. Len(g.list) <= Len(h.list)
  BY <1>3, <1>4
<1>7. Filed(ss, R, h, k)
  <2>1. Filed(ss, R, g, k)
    BY DEF Played
  <2>2. QED
    BY <1>3, <1>4, <1>5, <1>6, <2>1, FiledGrows
<1>8. Real(FlattenSeq(h.list)) = SubSeq(ss.log, 1, k + 1)
  <2>1. FlattenSeq(g.list) \in Seq(AnyAct)
    <3>1. Act \subseteq AnyAct
      BY DEF AnyAct
    <3>2. QED
      BY <1>3, <3>1, SeqSubset
  <2>2. Real(Append(FlattenSeq(g.list), a)) = Append(Real(FlattenSeq(g.list)), a)
    BY <1>1, <1>2, <2>1, RealAppend
  <2>3. Real(FlattenSeq(g.list)) = SubSeq(ss.log, 1, k)
    BY DEF Played
  <2>4. k \in Nat /\ k < Len(ss.log)
    BY <1>1
  <2>5. Append(SubSeq(ss.log, 1, k), a) = SubSeq(ss.log, 1, k + 1)
    BY <1>1, <2>4, PartLast
  <2>6. QED
    BY <1>4, <2>2, <2>3, <2>5, Zenon
<1>9. Played(ss, R, h, k, k + 1)
  <2>1. Len(h.list) <= h.st.turn_count + 1
    BY <1>3, <1>4
  <2>2. QED
    BY <1>4, <1>7, <1>8, <2>1 DEF Played
<1>10. ToSet(FlattenSeq(h.list)) = ToSet(FlattenSeq(g.list)) \cup {a}
  <2>1. ToSet(Append(FlattenSeq(g.list), a)) = ToSet(FlattenSeq(g.list)) \cup {a}
    BY <1>2, <1>3, AppendSet
  <2>2. QED
    BY <1>4, <2>1
<1>11. QED
  BY <1>4, <1>9, <1>10

\* Recording and handling what a rewind inserts: the State stays where it was.
LEMMA RecordSpecial ==
  ASSUME NEW ss, NEW R, SessionOK(ss), Course(ss, R), NEW k \in 0 .. Now(ss),
         NEW g, Played(ss, R, g, k, k), NEW a \in SpecialAct,
         NEW n, n = Effect(Record(g, a), a)
  PROVE  /\ Played(ss, R, n, k, k)
         /\ ToSet(FlattenSeq(n.list)) = ToSet(FlattenSeq(g.list)) \cup {a}
<1> DEFINE h == Record(g, a)
<1>1. n = Effect(h, a)
  OBVIOUS
<1>2. a \in Act /\ a \in AnyAct
  BY DEF Act, AnyAct
<1>3. /\ GameOK(g) /\ g.list \in Seq(Seq(Act)) /\ FlattenSeq(g.list) \in Seq(Act)
      /\ Len(g.list) \in Nat /\ g.st.turn_count \in Nat /\ Len(g.list) <= g.st.turn_count + 1
  BY PlayedParts
<1>4. /\ GameOK(h) /\ h.st = g.st /\ h.inProgress = g.inProgress
      /\ Len(h.list) = g.st.turn_count + 1
      /\ FlattenSeq(h.list) = Append(FlattenSeq(g.list), a)
      /\ \A i \in 1 .. Len(g.list) : ToSet(g.list[i]) \subseteq ToSet(h.list[i])
  BY <1>2, <1>3, RecordParts
<1> HIDE DEF h
<1>5. R[k] \in St /\ Follows(h.st, R[k])
  BY <1>4, RunsParts DEF Played
<1>6. Follows(n.st, R[k])
  BY <1>1, <1>2, <1>4, <1>5, EffectFollows
<1>7. GameOK(n) /\ n.list = h.list
  BY <1>1, <1>2, <1>4, EffectParts, ZenonT(60)
<1>8. n.inProgress = h.inProgress
  <2>1. a.type # "gameOver"
    BY DEF SpecialAct, IdentifyAct, MarkAct
  <2>2. QED
    BY <1>1, <1>2, <1>4, <2>1, EffectParts, ZenonT(60)
<1>9. n.list \in Seq(Seq(Act)) /\ Len(g.list) <= Len(n.list)
  BY <1>3, <1>4, <1>7 DEF GameOK
<1>10. Filed(ss, R, n, k)
  <2>1. Filed(ss, R, g, k)
    BY DEF Played
  <2>2. \A i \in 1 .. Len(g.list) : ToSet(g.list[i]) \subseteq ToSet(n.list[i])
    BY <1>4, <1>7
  <2>3. QED
    BY <1>3, <1>9, <2>1, <2>2, FiledGrows
<1>11. Real(FlattenSeq(n.list)) = Real(FlattenSeq(g.list))
  <2>1. FlattenSeq(g.list) \in Seq(AnyAct)
    <3>1. Act \subseteq AnyAct
      BY DEF AnyAct
    <3>2. QED
      BY <1>3, <3>1, SeqSubset
  <2>2. a \notin RealAct
    BY <1>2, ActTypes DEF Specials
  <2>3. Real(Append(FlattenSeq(g.list), a)) = Real(FlattenSeq(g.list))
    BY <1>2, <2>1, <2>2, RealAppend
  <2>4. QED
    BY <1>4, <1>7, <2>3
<1>12. n.st.turn_count = g.st.turn_count
  <2>1. n.st.turn_count = R[k].turn_count
    BY <1>5, <1>6, FollowParts
  <2>2. QED
    BY <2>1, PlayedParts
<1>13. Played(ss, R, n, k, k)
  <2>1. Len(n.list) <= n.st.turn_count + 1
    BY <1>3, <1>4, <1>7, <1>12
  <2>2. ss.live /\ ss.phase # "over" => n.inProgress = TRUE
    BY <1>4, <1>8 DEF Played
  <2>3. Real(FlattenSeq(n.list)) = SubSeq(ss.log, 1, k)
    BY <1>11 DEF Played
  <2>4. QED
    BY <1>6, <1>7, <1>10, <2>1, <2>2, <2>3 DEF Played
<1>14. ToSet(FlattenSeq(n.list)) = ToSet(FlattenSeq(g.list)) \cup {a}
  <2>1. ToSet(Append(FlattenSeq(g.list), a)) = ToSet(FlattenSeq(g.list)) \cup {a}
    BY <1>2, <1>3, AppendSet
  <2>2. QED
    BY <1>4, <1>7, <2>1
<1>15. QED
  BY <1>13, <1>14

\* A recorded action has been handled: the State is the next one.
LEMMA Advanced ==
  ASSUME NEW ss, NEW R, SessionOK(ss), Course(ss, R), NEW k \in 0 .. Now(ss), k < Now(ss),
         NEW g, Played(ss, R, g, k, k + 1), Len(g.list) = g.st.turn_count + 1,
         ss.log[k + 1] \in ToSet(g.list[Len(g.list)]),
         NEW h, GameOK(h), h.list = g.list, Follows(h.st, R[k + 1]),
         ss.log[k + 1].type # "gameOver" => h.inProgress = g.inProgress
  PROVE  Played(ss, R, h, k + 1, k + 1)
<1>1. /\ k + 1 \in 1 .. Now(ss) /\ k + 1 \in 0 .. Now(ss) /\ (k + 1) - 1 = k /\ Now(ss) \in Nat
      /\ R[k].turn_count \in Nat /\ R[k].turn_count <= R[k + 1].turn_count
      /\ R[k + 1] \in St
  BY RunsParts
<1>2. g.st.turn_count = R[k].turn_count
  BY PlayedParts
<1>3. h.st.turn_count = R[k + 1].turn_count /\ R[k + 1].turn_count \in Nat
  BY <1>1, FollowParts, StParts
<1>4. Len(h.list) <= h.st.turn_count + 1
  BY <1>1, <1>2, <1>3
<1>5. Filed(ss, R, h, k + 1)
  <2>1. SUFFICES ASSUME NEW i \in 1 .. k + 1, ss.log[i].type = "draw"
                 PROVE  /\ R[i - 1].turn_count < Len(h.list)
                        /\ ss.log[i] \in ToSet(h.list[R[i - 1].turn_count + 1])
    BY DEF Filed
  <2>2. CASE i = k + 1
    <3>1. R[i - 1].turn_count = R[k].turn_count
      BY <1>1, <2>2
    <3>2. Len(h.list) = R[i - 1].turn_count + 1
      BY <1>2, <3>1
    <3>3. ss.log[i] \in ToSet(h.list[Len(h.list)])
      BY <2>2
    <3>4. QED
      BY <1>1, <3>1, <3>2, <3>3
  <2>3. CASE i # k + 1
    <3>1. i \in 1 .. k
      BY <2>3
    <3>2. Filed(ss, R, g, k)
      BY DEF Played
    <3>3. QED
      BY <2>1, <3>1, <3>2 DEF Filed
  <2>4. QED
    BY <2>2, <2>3
<1>6. ss.live /\ ss.phase # "over" => h.inProgress = TRUE
  <2>1. ss.log[k + 1].type = "gameOver" => ss.phase = "over"
    BY <1>1 DEF Course, Orderly
  <2>2. ss.live /\ ss.phase # "over" => g.inProgress = TRUE
    BY DEF Played
  <2>3. QED
    BY <2>1, <2>2
<1>7. Real(FlattenSeq(h.list)) = SubSeq(ss.log, 1, k + 1)
  BY DEF Played
<1>8. QED
  BY <1>4, <1>5, <1>6, <1>7 DEF Played

-----------------------------------------------------------------------------
(* How far a call is *)

\* When the next action to handle is one of the server's, it is the next of the
\* log, and the rest is to be done after it.
LEMMA DoingNext ==
  ASSUME NEW ss, NEW R, SessionOK(ss), Course(ss, R), NEW f, NEW g, NEW k, NEW m, NEW busy,
         Doing(ss, R, f, g, k, m, busy), f.todo # <<>>, Head(f.todo).act \in RealAct
  PROVE  /\ k \in 0 .. Now(ss) /\ k < Now(ss) /\ k < m /\ m \in 0 .. Now(ss) /\ k + 1 \in 0 .. m
         /\ Head(f.todo).act = ss.log[k + 1] /\ f.todo[1].act = ss.log[k + 1]
         /\ Real(Acts(Tail(f.todo))) = SubSeq(ss.log, (k + 1) + 1, m)
<1>1. /\ FrameOK(f) /\ k \in 0 .. m /\ m \in 0 .. Now(ss)
      /\ Real(Acts(f.todo)) = SubSeq(ss.log, k + 1, m)
  BY DEF Doing
<1>2. Now(ss) \in Nat /\ Now(ss) = Len(ss.log) /\ ss.log \in Seq(RealAct)
  BY RunsParts
<1>3. f.todo \in Seq(Entry)
  BY <1>1 DEF FrameOK
<1> DEFINE a == Head(f.todo).act
           rest == Real(Acts(Tail(f.todo)))
<1>4. /\ Real(Acts(f.todo)) = <<a>> \o rest
      /\ Tail(f.todo) \in Seq(Entry) /\ Head(f.todo) = f.todo[1]
  BY <1>3, TodoSplit
<1>5. rest \in Seq(RealAct)
  <2>1. Acts(Tail(f.todo)) \in Seq(AnyAct)
    BY <1>4, ActsParts
  <2>2. QED
    BY <2>1, RealType
<1>6. a \in RealAct /\ <<a>> \o rest = SubSeq(ss.log, k + 1, m)
  BY <1>1, <1>4
<1> HIDE DEF a, rest
<1>7. k \in Nat /\ m \in Nat /\ k <= m /\ m <= Len(ss.log)
  BY <1>1, <1>2
<1>8. k < m /\ a = ss.log[k + 1] /\ rest = SubSeq(ss.log, k + 2, m)
  BY <1>2, <1>5, <1>6, <1>7, PartBegins
<1>9. (k + 1) + 1 = k + 2 /\ k + 1 \in 0 .. m /\ k \in 0 .. Now(ss) /\ k < Now(ss)
  BY <1>2, <1>7, <1>8
<1>10. rest = SubSeq(ss.log, (k + 1) + 1, m)
  BY <1>8, <1>9, Zenon
<1>11. QED
  BY <1>1, <1>4, <1>8, <1>9, <1>10 DEF a, rest

\* It has been handled.
LEMMA DoingAdvanced ==
  ASSUME NEW ss, NEW R, SessionOK(ss), Course(ss, R), NEW f, NEW g, NEW k, NEW m, NEW busy,
         Doing(ss, R, f, g, k, m, busy), f.todo # <<>>, Head(f.todo).act \in RealAct,
         NEW h, Played(ss, R, h, k + 1, k + 1)
  PROVE  Doing(ss, R, After(f, Head(f.todo)), h, k + 1, m, FALSE)
<1>1. /\ m \in 0 .. Now(ss) /\ k + 1 \in 0 .. m
      /\ Real(Acts(Tail(f.todo))) = SubSeq(ss.log, (k + 1) + 1, m)
  BY DoingNext
<1>2. FrameOK(f)
  BY DEF Doing
<1>3. /\ FrameOK(After(f, Head(f.todo)))
      /\ Real(Acts(After(f, Head(f.todo)).todo)) = Real(Acts(Tail(f.todo)))
  BY <1>2, AfterParts
<1>4. QED
  BY <1>1, <1>3 DEF Doing

\* An entry with nothing of the server has been handled.
LEMMA DoingSame ==
  ASSUME NEW ss, NEW R, SessionOK(ss), Course(ss, R), NEW f, NEW g, NEW k, NEW m,
         Doing(ss, R, f, g, k, m, FALSE), f.todo # <<>>, Head(f.todo).act \notin RealAct,
         NEW h, Played(ss, R, h, k, k),
         NEW n, FrameOK(n), Real(Acts(n.todo)) = Real(Acts(Tail(f.todo)))
  PROVE  Doing(ss, R, n, h, k, m, FALSE)
<1>1. f.todo \in Seq(Entry) /\ m \in 0 .. Now(ss) /\ k \in 0 .. m
      /\ Real(Acts(f.todo)) = SubSeq(ss.log, k + 1, m)
  BY DEF Doing, FrameOK
<1>2. Real(Acts(f.todo)) = Real(Acts(Tail(f.todo)))
  BY <1>1, TodoSplit
<1>3. QED
  BY <1>1, <1>2 DEF Doing

\* A call does not look at the notes of its game.
LEMMA DoingAlike ==
  ASSUME NEW ss, NEW R, NEW f, NEW g, NEW h, NEW k, NEW m, NEW busy,
         Doing(ss, R, f, g, k, m, busy), Alike(h, g)
  PROVE  Doing(ss, R, f, h, k, m, busy)
<1>1. Played(ss, R, h, k, IF busy THEN k + 1 ELSE k)
  BY PlayedAlike DEF Doing
<1>2. h.list = g.list /\ h.st = g.st
  BY DEF Alike
<1>3. QED
  BY <1>1, <1>2 DEF Doing

\* What a busy call has done so far.
LEMMA DoingBusy ==
  ASSUME NEW ss, NEW R, SessionOK(ss), Course(ss, R), NEW f, NEW g, NEW k, NEW m,
         Doing(ss, R, f, g, k, m, TRUE)
  PROVE  /\ f.todo # <<>>
         /\ Head(f.todo).act = ss.log[k + 1]
         /\ Head(f.todo).act \in RealAct /\ Head(f.todo).act.type \in Moves \cup {"turn"}
         /\ k \in 0 .. Now(ss) /\ k < Now(ss) /\ k < m /\ m \in 0 .. Now(ss)
         /\ Played(ss, R, g, k, k + 1) /\ Len(g.list) = g.st.turn_count + 1
         /\ ss.log[k + 1] \in ToSet(g.list[Len(g.list)])
         /\ ss.log[k + 1] \in ToSet(FlattenSeq(g.list))
         /\ Head(f.todo).act \in ToSet(FlattenSeq(g.list))
<1>1. /\ f.todo # <<>> /\ f.todo[1].act = ss.log[k + 1] /\ f.todo \in Seq(Entry)
      /\ ss.log[k + 1].type \in Moves \cup {"turn"} /\ k < m /\ k \in 0 .. m /\ m \in 0 .. Now(ss)
      /\ Played(ss, R, g, k, k + 1) /\ Len(g.list) = g.st.turn_count + 1
      /\ ss.log[k + 1] \in ToSet(g.list[Len(g.list)])
  BY DEF Doing, FrameOK
<1>2. Now(ss) \in Nat
  BY RunsParts
<1>3. k \in 0 .. Now(ss) /\ k < Now(ss)
  BY <1>1, <1>2
<1>4. ss.log[k + 1] \in RealAct
  BY <1>3, RunsParts
<1>5. Head(f.todo) = f.todo[1]
  BY <1>1, TodoSplit
<1>6. ss.log[k + 1] \in ToSet(FlattenSeq(g.list))
  <2>1. g.list \in Seq(Seq(Act)) /\ Len(g.list) \in Nat /\ g.st.turn_count \in Nat
    BY <1>1, <1>3, PlayedParts
  <2>2. Len(g.list) \in 1 .. Len(g.list)
    BY <1>1, <2>1, SMTT(30)
  <2>3. QED
    BY <1>1, <2>1, <2>2, FlattenHolds
<1>7. QED
  BY <1>1, <1>3, <1>4, <1>5, <1>6

\* A call whose frame has become n took its game from g to h, with a recorded.
Handled(ss, R, n, g, h, a, k, m, busy) ==
  /\ Doing(ss, R, n, h, k, m, busy)
  /\ ToSet(FlattenSeq(g.list)) \subseteq ToSet(FlattenSeq(h.list))
  /\ a \in ToSet(FlattenSeq(h.list))

\* The interpretation of a busy call is content.
LEMMA DoneWith ==
  ASSUME NEW ss, NEW R, SessionOK(ss), Course(ss, R), NEW f, NEW g, NEW k, NEW m,
         Doing(ss, R, f, g, k, m, TRUE),
         NEW x, x \in Readings(Effect(g, Head(f.todo).act), Head(f.todo).act)
  PROVE  LET a == Head(f.todo).act
             h == Settled(x, a)
         IN  Handled(ss, R, After(f, Head(f.todo)), g, h, a, k + 1, m, FALSE)
<1>1. f.todo # <<>> /\ Head(f.todo).act \in RealAct
  BY DoingBusy
<1>2. Head(f.todo).act = ss.log[k + 1]
  BY <1>1, DoingNext
<1>3. Head(f.todo).act.type \in Moves \cup {"turn"}
  BY DoingBusy
<1>4. k \in 0 .. Now(ss) /\ k < Now(ss)
  BY DoingBusy
<1>5. /\ Played(ss, R, g, k, k + 1) /\ Len(g.list) = g.st.turn_count + 1
      /\ ss.log[k + 1] \in ToSet(g.list[Len(g.list)])
  BY DoingBusy
<1> DEFINE a == Head(f.todo).act
           n == Effect(g, a)
           h == Settled(x, a)
<1>6. /\ f.todo # <<>> /\ a = ss.log[k + 1]
      /\ a \in RealAct /\ a.type \in Moves \cup {"turn"}
      /\ k \in 0 .. Now(ss) /\ k < Now(ss)
      /\ Played(ss, R, g, k, k + 1) /\ Len(g.list) = g.st.turn_count + 1
      /\ ss.log[k + 1] \in ToSet(g.list[Len(g.list)])
  BY <1>1, <1>3, <1>4, <1>5, <1>2
<1>7. a \in Act /\ a.type # "gameOver"
  BY <1>6 DEF Act, Moves
<1>7a. x \in Readings(n, a)
  OBVIOUS
<1> HIDE DEF a
<1>8. GameOK(g) /\ R[k] \in St /\ Follows(g.st, R[k]) /\ R[k + 1] = StepOf(R[k], a)
  BY <1>6, RunsParts DEF Played
<1>9. GameOK(n) /\ n.list = g.list /\ n.inProgress = g.inProgress
  BY <1>7, <1>8, EffectParts
<1>10. Follows(n.st, R[k + 1])
  BY <1>6, <1>7, <1>8, EffectFollows
<1> HIDE DEF n
<1>11. Played(ss, R, n, k + 1, k + 1)
  BY <1>6, <1>9, <1>10, Advanced
<1>12. Alike(h, n)
  <2>1. Alike(x, n)
    BY <1>9, <1>7a, ReadingsParts
  <2>2. Alike(h, x)
    BY <2>1, SettledParts DEF Alike
  <2>3. QED
    BY <2>1, <2>2 DEF Alike
<1>13. Played(ss, R, h, k + 1, k + 1) /\ h.list = g.list
  BY <1>9, <1>11, <1>12, PlayedAlike DEF Alike
<1> HIDE DEF h
<1>14. Doing(ss, R, After(f, Head(f.todo)), h, k + 1, m, FALSE)
  BY <1>6, <1>13, DoingAdvanced DEF a
<1>15. a \in ToSet(FlattenSeq(g.list))
  BY DoingBusy DEF a
<1>16. Handled(ss, R, After(f, Head(f.todo)), g, h, a, k + 1, m, FALSE)
  BY <1>13, <1>14, <1>15 DEF Handled
<1>17. QED
  BY <1>16 DEF a, h, n

-----------------------------------------------------------------------------
(* What a rewind still has to insert *)

\* The ranks of the parts of a rewind.
LEMMA PartRanks ==
  /\ \A e \in Entry : PartRank(e.part) \in Nat /\ PartRank(e.part) <= 2
  /\ PartRank("history") = 0 /\ PartRank("insert") = 1
  /\ PartRank("future") = 2 /\ PartRank("last") = 2 /\ PartRank("waited") = 2
  /\ PartRank("restore") = 2
  /\ \A e \in Entry : PartRank(e.part) = 1 <=> e.part = "insert"
  /\ \A e \in Entry : PartRank(e.part) = 0 <=> e.part = "history"
BY DEF PartRank, Entry

\* The parts of a rewind stay in their order.
LEMMA SortedOn ==
  ASSUME NEW todo \in Seq(Entry), todo # <<>>, Sorted(todo)
  PROVE  /\ Sorted(Tail(todo))
         /\ \A i \in 1 .. Len(Tail(todo)) : PartRank(Head(todo).part) <= PartRank(Tail(todo)[i].part)
<1>1. /\ Len(todo) \in Nat \ {0} /\ Len(Tail(todo)) = Len(todo) - 1 /\ Head(todo) = todo[1]
      /\ \A i \in 1 .. Len(todo) - 1 : Tail(todo)[i] = todo[i + 1]
  BY TodoSplit
<1>2. ASSUME NEW i \in 1 .. Len(Tail(todo)), NEW j \in 1 .. Len(Tail(todo)), i < j
      PROVE  PartRank(Tail(todo)[i].part) <= PartRank(Tail(todo)[j].part)
  <2>1. i \in 1 .. Len(todo) - 1 /\ j \in 1 .. Len(todo) - 1
    BY <1>1
  <2>2. i + 1 \in 1 .. Len(todo) /\ j + 1 \in 1 .. Len(todo) /\ i + 1 < j + 1
    BY <1>1, <1>2, <2>1
  <2>3. PartRank(todo[i + 1].part) <= PartRank(todo[j + 1].part)
    BY <2>2 DEF Sorted
  <2>4. QED
    BY <1>1, <2>1, <2>3
<1>3. ASSUME NEW i \in 1 .. Len(Tail(todo))
      PROVE  PartRank(Head(todo).part) <= PartRank(Tail(todo)[i].part)
  <2>1. i \in 1 .. Len(todo) - 1
    BY <1>1
  <2>2. i + 1 \in 1 .. Len(todo) /\ 1 \in 1 .. Len(todo) /\ 1 < i + 1
    BY <1>1, <2>1
  <2>3. PartRank(todo[1].part) <= PartRank(todo[i + 1].part)
    BY <2>2 DEF Sorted
  <2>4. QED
    BY <1>1, <2>1, <2>3
<1>4. QED
  BY <1>2, <1>3 DEF Sorted

\* Something is inserted only before the last list is handled.
LEMMA ClosingOn ==
  ASSUME NEW todo \in Seq(Entry), todo # <<>>, Sorted(todo), Closing(todo),
         NEW i \in 1 .. Len(Tail(todo)), Tail(todo)[i].part = "insert"
  PROVE  Closing(Tail(todo))
<1>1. /\ Len(todo) \in Nat \ {0} /\ Len(Tail(todo)) = Len(todo) - 1 /\ Head(todo) = todo[1]
      /\ \A j \in 1 .. Len(todo) - 1 : Tail(todo)[j] = todo[j + 1]
      /\ Head(todo) \in Entry
  BY TodoSplit
<1>2. PICK h \in 1 .. Len(todo) : todo[h].part = "last" /\ todo[h].act \in RealAct
  BY DEF Closing
<1>3. h # 1
  <2>1. PartRank(Head(todo).part) <= PartRank(Tail(todo)[i].part)
    BY SortedOn
  <2>2. PartRank(Tail(todo)[i].part) = 1
    BY PartRanks
  <2>3. SUFFICES ASSUME h = 1 PROVE FALSE
    OBVIOUS
  <2>4. PartRank(Head(todo).part) = 2
    BY <1>1, <1>2, <2>3, PartRanks
  <2>5. QED
    BY <2>1, <2>2, <2>4
<1>4. h - 1 \in 1 .. Len(todo) - 1 /\ (h - 1) + 1 = h
  BY <1>1, <1>3
<1>5. Tail(todo)[h - 1] = todo[h]
  BY <1>1, <1>4
<1>6. QED
  BY <1>1, <1>2, <1>4, <1>5 DEF Closing

\* The draw of a card that is still to come.
LEMMA ComesOn ==
  ASSUME NEW todo \in Seq(Entry), todo # <<>>, NEW o, Comes(todo, o),
         ~(Head(todo).part = "future" /\ Head(todo).act.type = "draw" /\ Head(todo).act.order = o)
  PROVE  Comes(Tail(todo), o)
<1>1. /\ Len(todo) \in Nat \ {0} /\ Len(Tail(todo)) = Len(todo) - 1 /\ Head(todo) = todo[1]
      /\ \A j \in 1 .. Len(todo) - 1 : Tail(todo)[j] = todo[j + 1]
  BY TodoSplit
<1>2. PICK h \in 1 .. Len(todo) :
        todo[h].part = "future" /\ todo[h].act.type = "draw" /\ todo[h].act.order = o
  BY DEF Comes
<1>3. h # 1
  BY <1>1, <1>2
<1>4. h - 1 \in 1 .. Len(todo) - 1 /\ (h - 1) + 1 = h
  BY <1>1, <1>3
<1>5. Tail(todo)[h - 1] = todo[h]
  BY <1>1, <1>4
<1>6. h - 1 \in 1 .. Len(Tail(todo))
  BY <1>1, <1>4
<1>7. QED
  BY <1>2, <1>5, <1>6 DEF Comes

\* What is to be inserted can still be once an entry is handled.
LEMMA InsertableOn ==
  ASSUME NEW ss, NEW R, SessionOK(ss), Course(ss, R), NEW k, NEW m, k \in 0 .. m, m \in 0 .. Now(ss),
         NEW todo \in Seq(Entry), todo # <<>>, Sorted(todo), Insertable(ss, R, todo, k, m),
         NEW n \in {k, k + 1},
         Head(todo).act \in RealAct => n = k + 1 /\ k < m /\ Head(todo).act = ss.log[k + 1]
  PROVE  Insertable(ss, R, Tail(todo), n, m)
<1>1. /\ Len(todo) \in Nat \ {0} /\ Len(Tail(todo)) = Len(todo) - 1 /\ Head(todo) = todo[1]
      /\ \A j \in 1 .. Len(todo) - 1 : Tail(todo)[j] = todo[j + 1]
      /\ Head(todo) \in Entry
  BY TodoSplit
<1>2. Now(ss) \in Nat /\ k \in Nat /\ m \in Nat /\ k <= n
  BY RunsParts
<1>3. SUFFICES ASSUME NEW j \in 1 .. Len(Tail(todo)), Tail(todo)[j].part = "insert",
                      Tail(todo)[j].act.type = "identify"
               PROVE  LET a == Tail(todo)[j].act
                      IN  \E i \in 1 .. m - 1 :
                            /\ Draws(ss.log[i], a.order, a.playerIndex)
                            /\ \A h \in i .. m - 1 : a.order \in R[h].hands[a.playerIndex]
                            /\ \/ i <= n
                               \/ \E h \in 1 .. Len(Tail(todo)) : Tail(todo)[h].part = "history" /\ Tail(todo)[h].act = ss.log[i]
                               \/ /\ Comes(Tail(todo), a.order)
                                  /\ \A h \in j + 1 .. Len(Tail(todo)) : Tail(todo)[h].part # "insert"
  BY DEF Insertable
<1> DEFINE a == Tail(todo)[j].act
<1>4. j \in 1 .. Len(todo) - 1 /\ j + 1 \in 1 .. Len(todo) /\ Tail(todo)[j] = todo[j + 1]
  BY <1>1
<1>5. PICK i \in 1 .. m - 1 :
        /\ Draws(ss.log[i], a.order, a.playerIndex)
        /\ \A h \in i .. m - 1 : a.order \in R[h].hands[a.playerIndex]
        /\ \/ i <= k
           \/ \E h \in 1 .. Len(todo) : todo[h].part = "history" /\ todo[h].act = ss.log[i]
           \/ /\ Comes(todo, a.order)
              /\ \A h \in (j + 1) + 1 .. Len(todo) : todo[h].part # "insert"
  BY <1>3, <1>4 DEF Insertable
<1> HIDE DEF a
<1>6. SUFFICES \/ i <= n
               \/ \E h \in 1 .. Len(Tail(todo)) : Tail(todo)[h].part = "history" /\ Tail(todo)[h].act = ss.log[i]
               \/ /\ Comes(Tail(todo), a.order)
                  /\ \A h \in j + 1 .. Len(Tail(todo)) : Tail(todo)[h].part # "insert"
  BY <1>5 DEF a
<1>7. CASE i <= k
  BY <1>2, <1>7
<1>8. ASSUME NEW h \in 1 .. Len(todo), todo[h].part = "history", todo[h].act = ss.log[i]
      PROVE  \/ i <= n
             \/ \E x \in 1 .. Len(Tail(todo)) : Tail(todo)[x].part = "history" /\ Tail(todo)[x].act = ss.log[i]
  <2>1. CASE h = 1
    <3>1. Head(todo).act = ss.log[i] /\ ss.log[i].type = "draw"
      BY <1>1, <1>5, <1>8, <2>1 DEF Draws
    <3>2. i \in 1 .. Now(ss)
      BY <1>2
    <3>3. ss.log[i] \in RealAct
      BY <3>2, RunsParts, SeqElements
    <3>4. n = k + 1 /\ k < m /\ Head(todo).act = ss.log[k + 1]
      BY <3>1, <3>3
    <3>5. k + 1 \in 1 .. Now(ss) /\ ss.log[k + 1] = ss.log[i]
      BY <1>2, <3>1, <3>4
    <3>6. k + 1 = i
      BY <3>1, <3>2, <3>5, DrawnOnce
    <3>7. QED
      BY <1>2, <3>4, <3>6
  <2>2. CASE h # 1
    <3>1. h - 1 \in 1 .. Len(todo) - 1 /\ (h - 1) + 1 = h
      BY <1>1, <2>2
    <3>2. Tail(todo)[h - 1] = todo[h]
      BY <1>1, <3>1
    <3>3. h - 1 \in 1 .. Len(Tail(todo))
      BY <1>1, <3>1
    <3>4. QED
      BY <1>8, <3>2, <3>3
  <2>3. QED
    BY <2>1, <2>2
<1>9. ASSUME Comes(todo, a.order), \A h \in (j + 1) + 1 .. Len(todo) : todo[h].part # "insert"
      PROVE  /\ Comes(Tail(todo), a.order)
             /\ \A h \in j + 1 .. Len(Tail(todo)) : Tail(todo)[h].part # "insert"
  <2>1. PartRank(Head(todo).part) <= 1
    <3>1. PartRank(Head(todo).part) <= PartRank(Tail(todo)[j].part)
      BY SortedOn
    <3>2. PartRank(Tail(todo)[j].part) = 1
      BY <1>3, PartRanks
    <3>3. QED
      BY <3>1, <3>2
  <2>2. Head(todo).part # "future"
    BY <2>1, PartRanks
  <2>3. Comes(Tail(todo), a.order)
    BY <1>9, <2>2, ComesOn
  <2>4. ASSUME NEW h \in j + 1 .. Len(Tail(todo))
        PROVE  Tail(todo)[h].part # "insert"
    <3>1. h \in 1 .. Len(todo) - 1 /\ h + 1 \in (j + 1) + 1 .. Len(todo)
      BY <1>1, <1>4
    <3>2. Tail(todo)[h] = todo[h + 1]
      BY <1>1, <3>1
    <3>3. QED
      BY <1>9, <3>1, <3>2
  <2>5. QED
    BY <2>3, <2>4
<1>10. QED
  BY <1>5, <1>7, <1>8, <1>9

\* A frame with an identification that has waited at the front.
LEMMA WaitedFirst ==
  ASSUME NEW f, FrameOK(f), f.todo # <<>>, f.ids # <<>>, Waiting(f),
         NEW n, FrameOK(n), n.ids = Tail(f.ids),
         n.todo = <<[act |-> Head(f.ids), part |-> "waited"]>> \o Tail(f.todo)
  PROVE  /\ \A i \in 1 .. Len(n.todo) : PartRank(n.todo[i].part) = 2 /\ n.todo[i].part # "insert"
         /\ n.ids = <<>>
         /\ ToSet(Acts(f.todo)) \cup ToSet(f.ids) \subseteq
              {Head(f.todo).act} \cup ToSet(Acts(n.todo)) \cup ToSet(n.ids)
<1> DEFINE w == [act |-> Head(f.ids), part |-> "waited"]
<1>1. f.todo \in Seq(Entry) /\ f.ids \in Seq(IdentifyAct) /\ n.todo \in Seq(Entry)
  BY DEF FrameOK
<1>2. /\ Len(f.todo) \in Nat \ {0} /\ Len(Tail(f.todo)) = Len(f.todo) - 1
      /\ \A j \in 1 .. Len(f.todo) - 1 : Tail(f.todo)[j] = f.todo[j + 1]
      /\ Tail(f.todo) \in Seq(Entry)
      /\ ToSet(Acts(f.todo)) = {Head(f.todo).act} \cup ToSet(Acts(Tail(f.todo)))
  BY <1>1, TodoSplit
<1>3. /\ Len(f.ids) = 1 /\ \A i \in 1 .. Len(f.todo) : PartRank(f.todo[i].part) = 2
  BY DEF Waiting
<1>4. /\ Head(f.ids) = f.ids[1] /\ Tail(f.ids) \in Seq(IdentifyAct) /\ Len(Tail(f.ids)) = Len(f.ids) - 1
  BY <1>1, HeadAndTail
<1>5. n.ids = <<>>
  <2>1. Len(Tail(f.ids)) = 0
    BY <1>3, <1>4
  <2>2. Tail(f.ids) = <<>>
    BY <1>4, <2>1, EmptySeq
  <2>3. QED
    BY <2>2
<1> DEFINE E == Entry \cup {w}
<1>6. Tail(f.todo) \in Seq(E) /\ w \in E
  BY <1>2, SeqSubset
<1> HIDE DEF w, E
<1>7. n.todo = <<w>> \o Tail(f.todo)
  BY DEF w
<1>8. /\ Head(n.todo) = w /\ Tail(n.todo) = Tail(f.todo)
      /\ Len(n.todo) = 1 + Len(Tail(f.todo)) /\ Len(Tail(f.todo)) \in Nat
      /\ n.todo[1] = w
      /\ \A h \in 1 .. Len(Tail(f.todo)) : n.todo[h + 1] = Tail(f.todo)[h]
  <2>1. /\ Head(<<w>> \o Tail(f.todo)) = w /\ Tail(<<w>> \o Tail(f.todo)) = Tail(f.todo)
        /\ Len(<<w>> \o Tail(f.todo)) = 1 + Len(Tail(f.todo)) /\ Len(Tail(f.todo)) \in Nat
        /\ (<<w>> \o Tail(f.todo))[1] = w
        /\ \A h \in 1 .. Len(Tail(f.todo)) : (<<w>> \o Tail(f.todo))[h + 1] = Tail(f.todo)[h]
    BY <1>6, ConsParts
  <2>2. QED
    BY <1>7, <2>1, Zenon
<1>9. ASSUME NEW i \in 1 .. Len(n.todo)
      PROVE  PartRank(n.todo[i].part) = 2 /\ n.todo[i].part # "insert"
  <2>1. CASE i = 1
    <3>1. n.todo[i].part = "waited"
      BY <1>8, <2>1 DEF w
    <3>2. QED
      BY <3>1, PartRanks
  <2>2. CASE i # 1
    <3>1. i - 1 \in 1 .. Len(Tail(f.todo)) /\ (i - 1) + 1 = i /\ i - 1 \in 1 .. Len(f.todo) - 1
      BY <1>2, <1>8, <2>2
    <3>2. n.todo[i] = Tail(f.todo)[i - 1] /\ Tail(f.todo)[i - 1] = f.todo[i]
      BY <1>2, <1>8, <3>1
    <3>3. i \in 1 .. Len(f.todo)
      BY <1>2, <3>1
    <3>4. PartRank(n.todo[i].part) = 2
      BY <1>3, <3>2, <3>3
    <3>5. QED
      BY <3>4, PartRanks
  <2>3. QED
    BY <2>1, <2>2
<1>10. ToSet(Acts(n.todo)) = {Head(f.ids)} \cup ToSet(Acts(Tail(f.todo)))
  <2>1. n.todo # <<>>
    BY <1>8
  <2>2. ToSet(Acts(n.todo)) = {Head(n.todo).act} \cup ToSet(Acts(Tail(n.todo)))
    BY <1>1, <2>1, TodoSplit
  <2>3. w.act = Head(f.ids)
    BY DEF w
  <2>4. QED
    BY <1>8, <2>2, <2>3
<1>11. ToSet(f.ids) = {Head(f.ids)}
  <2>1. ToSet(f.ids) = {f.ids[i] : i \in 1 .. Len(f.ids)}
    BY <1>1, SeqElements
  <2>2. \A i \in 1 .. 1 : i = 1
    OBVIOUS
  <2>3. QED
    BY <1>3, <1>4, <2>1, <2>2
<1>12. QED
  BY <1>2, <1>5, <1>9, <1>10, <1>11

\* The entry that restores has no action.
LEMMA NotAnAct ==
  NoAct \notin Act
<1>1. \A a \in Act : a.type # "none"
  <2>1. \A a \in Act : a \in AnyAct /\ (a \in RealAct \/ a \in SpecialAct)
    BY DEF AnyAct, Act
  <2>2. QED
    BY <2>1, ActTypes DEF Specials
<1>2. QED
  BY <1>1 DEF NoAct

\* Nothing that is to be inserted is lost when an entry is handled.
LEMMA KeptOn ==
  ASSUME NEW f, FrameOK(f), f.act \in Seq(SpecialAct), GameOK(f.this), NEW g, NEW h, Kept(f, g),
         NEW a, ToSet(FlattenSeq(g.list)) \subseteq ToSet(FlattenSeq(h.list)),
         a # NoAct => a \in ToSet(FlattenSeq(h.list)),
         NEW n, n.this = f.this, n.act = f.act,
         ToSet(Acts(f.todo)) \cup ToSet(f.ids) \subseteq {a} \cup ToSet(Acts(n.todo)) \cup ToSet(n.ids)
  PROVE  Kept(n, h)
<1>1. NoAct \notin ToSet(FlattenSeq(f.this.list))
  <2>1. FlattenSeq(f.this.list) \in Seq(Act)
    BY FlattenType DEF GameOK
  <2>2. \A x \in ToSet(FlattenSeq(f.this.list)) : x \in Act
    BY <2>1, SeqElements
  <2>3. QED
    BY <2>2, NotAnAct
<1>2. NoAct \notin ToSet(f.act)
  <2>1. \A x \in ToSet(f.act) : x \in SpecialAct
    BY SeqElements
  <2>2. QED
    BY <2>1, NotAnAct DEF Act
<1>3. QED
  BY <1>1, <1>2 DEF Kept

\* A rewind after an entry has been handled, h being its game.
LEMMA RewindingOn ==
  ASSUME NEW ss, NEW R, SessionOK(ss), Course(ss, R), NEW f, NEW g, NEW k, NEW m, NEW busy,
         Doing(ss, R, f, g, k, m, busy), Rewinding(ss, R, f, g, k, m), GameOK(f.this),
         f.todo # <<>>,
         NEW h, ToSet(FlattenSeq(g.list)) \subseteq ToSet(FlattenSeq(h.list)),
         Head(f.todo).act # NoAct => Head(f.todo).act \in ToSet(FlattenSeq(h.list)),
         NEW i \in {k, k + 1}, Head(f.todo).act \in RealAct => i = k + 1
  PROVE  Rewinding(ss, R, After(f, Head(f.todo)), h, i, m)
<1> DEFINE e == Head(f.todo)
           n == After(f, e)
           C == /\ e.part \in {"insert", "future"} /\ e.act.type = "draw"
                /\ f.ids # <<>> /\ Head(f.ids).order = e.act.order
<1>1. /\ FrameOK(f) /\ f.todo \in Seq(Entry) /\ f.ids \in Seq(IdentifyAct)
      /\ k \in 0 .. m /\ m \in 0 .. Now(ss)
  BY DEF Doing, FrameOK
<1>2. /\ FrameOK(n) /\ n.kind = f.kind /\ n.this = f.this /\ n.act = f.act
      /\ \/ n.todo = Tail(f.todo) /\ n.ids = f.ids /\ ~C
         \/ /\ f.ids # <<>> /\ n.ids = Tail(f.ids)
            /\ n.todo = <<[act |-> Head(f.ids), part |-> "waited"]>> \o Tail(f.todo)
  BY <1>1, AfterParts
<1>3. /\ e \in Entry /\ Len(f.todo) \in Nat \ {0} /\ Len(Tail(f.todo)) = Len(f.todo) - 1
      /\ e = f.todo[1] /\ Tail(f.todo) \in Seq(Entry)
      /\ \A j \in 1 .. Len(f.todo) - 1 : Tail(f.todo)[j] = f.todo[j + 1]
      /\ ToSet(Acts(f.todo)) = {e.act} \cup ToSet(Acts(Tail(f.todo)))
  BY <1>1, TodoSplit
<1>4. e.act \in RealAct => i = k + 1 /\ k < m /\ e.act = ss.log[k + 1]
  <2>1. SUFFICES ASSUME e.act \in RealAct PROVE i = k + 1 /\ k < m /\ e.act = ss.log[k + 1]
    OBVIOUS
  <2>2. k < m
    BY <2>1, DoingNext
  <2>3. Head(f.todo).act = ss.log[k + 1]
    BY <2>1, DoingNext, SMTT(30)
  <2>4. QED
    BY <2>1, <2>2, <2>3
<1>5. /\ f.kind \notin {"table", "nav"} /\ f.act \in Seq(SpecialAct)
      /\ \A j \in 1 .. Len(f.todo) : f.todo[j].part \notin {"table", "nav"}
      /\ Kept(f, g) /\ Sorted(f.todo) /\ Insertable(ss, R, f.todo, k, m)
      /\ (\E j \in 1 .. Len(f.todo) : f.todo[j].part = "insert") => Closing(f.todo)
      /\ Waiting(f)
  BY SMTT(30) DEF Rewinding
<1> HIDE DEF n, C
<1>6. CASE n.todo = Tail(f.todo) /\ n.ids = f.ids /\ ~C
  <2>1. \A j \in 1 .. Len(n.todo) : n.todo[j].part \notin {"table", "nav"}
    <3>1. \A j \in 1 .. Len(f.todo) - 1 : j + 1 \in 1 .. Len(f.todo)
      BY <1>3
    <3>2. QED
      BY <1>3, <1>5, <1>6, <3>1
  <2>2. Kept(n, h)
    <3>1. ToSet(Acts(f.todo)) \cup ToSet(f.ids) \subseteq {e.act} \cup ToSet(Acts(n.todo)) \cup ToSet(n.ids)
      BY <1>3, <1>6
    <3>2. QED
      BY <1>1, <1>2, <1>5, <3>1, KeptOn
  <2>3. Sorted(n.todo)
    BY <1>1, <1>5, <1>6, SortedOn
  <2>4. Insertable(ss, R, n.todo, i, m)
    <3>1. Insertable(ss, R, Tail(f.todo), i, m)
      BY <1>1, <1>4, <1>5, InsertableOn
    <3>2. QED
      BY <1>6, <3>1
  <2>5. (\E j \in 1 .. Len(n.todo) : n.todo[j].part = "insert") => Closing(n.todo)
    <3>1. SUFFICES ASSUME NEW j \in 1 .. Len(Tail(f.todo)), Tail(f.todo)[j].part = "insert"
                   PROVE  Closing(Tail(f.todo))
      BY <1>6
    <3>2. j + 1 \in 1 .. Len(f.todo) /\ f.todo[j + 1].part = "insert"
      BY <1>3, <3>1
    <3>3. Closing(f.todo)
      BY <1>5, <3>2
    <3>4. QED
      BY <1>1, <1>5, <3>1, <3>3, ClosingOn
  <2>6. Waiting(n)
    <3>1. SUFFICES ASSUME f.ids # <<>>
                   PROVE  /\ Len(f.ids) = 1 /\ Comes(Tail(f.todo), f.ids[1].order)
                          /\ \A j \in 1 .. Len(Tail(f.todo)) : PartRank(Tail(f.todo)[j].part) = 2
      BY <1>6 DEF Waiting
    <3>2. /\ Len(f.ids) = 1 /\ Comes(f.todo, f.ids[1].order)
          /\ \A j \in 1 .. Len(f.todo) : PartRank(f.todo[j].part) = 2
      BY <1>5, <3>1 DEF Waiting
    <3>3. Head(f.ids) = f.ids[1]
      BY <1>1, <3>1, HeadAndTail
    <3>4. ~(e.part = "future" /\ e.act.type = "draw" /\ e.act.order = f.ids[1].order)
      BY <1>6, <3>1, <3>3 DEF C
    <3>5. Comes(Tail(f.todo), f.ids[1].order)
      BY <1>1, <3>2, <3>4, ComesOn, SMTT(30)
    <3>6. \A j \in 1 .. Len(f.todo) - 1 : j + 1 \in 1 .. Len(f.todo)
      BY <1>3
    <3>7. QED
      BY <1>3, <3>2, <3>5, <3>6
  <2>7. QED
    BY <1>2, <1>5, <2>1, <2>2, <2>3, <2>4, <2>5, <2>6 DEF Rewinding, n
<1>7. CASE /\ f.ids # <<>> /\ n.ids = Tail(f.ids)
           /\ n.todo = <<[act |-> Head(f.ids), part |-> "waited"]>> \o Tail(f.todo)
  <2>1. /\ \A j \in 1 .. Len(n.todo) : PartRank(n.todo[j].part) = 2 /\ n.todo[j].part # "insert"
        /\ n.ids = <<>>
        /\ ToSet(Acts(f.todo)) \cup ToSet(f.ids) \subseteq {e.act} \cup ToSet(Acts(n.todo)) \cup ToSet(n.ids)
    BY <1>1, <1>2, <1>5, <1>7, WaitedFirst
  <2>2. Kept(n, h)
    BY <1>1, <1>2, <1>5, <2>1, KeptOn
  <2>3. Sorted(n.todo)
    BY <2>1 DEF Sorted
  <2>4. Insertable(ss, R, n.todo, i, m)
    BY <2>1 DEF Insertable
  <2>5. Waiting(n)
    BY <2>1 DEF Waiting
  <2>6. \A j \in 1 .. Len(n.todo) : n.todo[j].part \notin {"table", "nav"}
    <3>1. n.todo \in Seq(Entry) /\ Len(n.todo) = 1 + Len(Tail(f.todo)) /\ n.todo[1].part = "waited"
          /\ \A j \in 1 .. Len(Tail(f.todo)) : n.todo[j + 1] = Tail(f.todo)[j]
      <4> DEFINE w == [act |-> Head(f.ids), part |-> "waited"]
                 E == Entry \cup {w}
      <4>1. w \in E /\ Tail(f.todo) \in Seq(E) /\ w.part = "waited"
        BY <1>3, SeqSubset
      <4>2. n.todo = <<w>> \o Tail(f.todo)
        BY <1>7
      <4> HIDE DEF w, E
      <4>3. /\ Len(<<w>> \o Tail(f.todo)) = 1 + Len(Tail(f.todo))
            /\ (<<w>> \o Tail(f.todo))[1] = w
            /\ \A j \in 1 .. Len(Tail(f.todo)) : (<<w>> \o Tail(f.todo))[j + 1] = Tail(f.todo)[j]
        BY <4>1, ConsParts
      <4>4. /\ Len(n.todo) = 1 + Len(Tail(f.todo)) /\ n.todo[1] = w
            /\ \A j \in 1 .. Len(Tail(f.todo)) : n.todo[j + 1] = Tail(f.todo)[j]
        BY <4>2, <4>3, Zenon
      <4>5. n.todo \in Seq(Entry)
        BY <1>2 DEF FrameOK
      <4>6. QED
        BY <4>1, <4>4, <4>5
    <3>2. ASSUME NEW j \in 1 .. Len(n.todo) PROVE n.todo[j].part \notin {"table", "nav"}
      <4>1. CASE j = 1
        BY <3>1, <4>1
      <4>2. CASE j # 1
        <5>1. j - 1 \in 1 .. Len(Tail(f.todo)) /\ (j - 1) + 1 = j /\ j \in 1 .. Len(f.todo)
              /\ j - 1 \in 1 .. Len(f.todo) - 1
          BY <1>3, <3>1, <4>2
        <5>2. n.todo[j] = f.todo[j]
          BY <1>3, <3>1, <5>1
        <5>3. QED
          BY <1>5, <5>1, <5>2
      <4>3. QED
        BY <4>1, <4>2
    <3>3. QED
      BY <3>2
  <2>7. QED
    BY <1>2, <1>5, <2>1, <2>2, <2>3, <2>4, <2>5, <2>6 DEF Rewinding, n
<1>8. QED
  BY <1>2, <1>6, <1>7

\* Nothing remains to be inserted before anything of the server is handled that
\* would not be left after it.
LEMMA ClosingReal ==
  ASSUME NEW ss, NEW R, SessionOK(ss), Course(ss, R), NEW f, NEW g, NEW k, NEW m, NEW busy,
         Doing(ss, R, f, g, k, m, busy), Closing(f.todo)
  PROVE  k < m
<1>1. /\ FrameOK(f) /\ f.todo \in Seq(Entry)
      /\ k \in 0 .. m /\ m \in 0 .. Now(ss) /\ Real(Acts(f.todo)) = SubSeq(ss.log, k + 1, m)
  BY DEF Doing, FrameOK
<1>2. PICK h \in 1 .. Len(f.todo) : f.todo[h].act \in RealAct
  BY DEF Closing
<1>3. Acts(f.todo) \in Seq(AnyAct) /\ f.todo[h].act \in ToSet(Acts(f.todo))
  BY <1>1, ActsParts
<1>4. Real(Acts(f.todo)) # <<>>
  BY <1>2, <1>3, RealKeeps
<1>5. Now(ss) \in Nat /\ Now(ss) = Len(ss.log) /\ ss.log \in Seq(RealAct)
  BY RunsParts
<1>6. k # m
  <2>1. SUFFICES ASSUME k = m PROVE FALSE
    OBVIOUS
  <2>2. m \in 0 .. Len(ss.log)
    BY <1>1, <1>5
  <2>3. SubSeq(ss.log, m + 1, m) = <<>>
    BY <1>5, <2>2, PartWhole
  <2>4. QED
    BY <1>1, <1>4, <2>1, <2>3
<1>7. QED
  BY <1>1, <1>5, <1>6

\* An identification of a card that is not in hand waits for its draw, alone.
LEMMA RewindingWaits ==
  ASSUME NEW ss, NEW R, SessionOK(ss), Course(ss, R), NEW f, NEW g, NEW k, NEW m,
         Doing(ss, R, f, g, k, m, FALSE), Rewinding(ss, R, f, g, k, m), GameOK(f.this),
         f.todo # <<>>, Head(f.todo).part = "insert", Head(f.todo).act.type = "identify",
         ~InHand(g, Head(f.todo).act)
  PROVE  LET n == [f EXCEPT !.todo = Tail(@), !.ids = Append(@, Head(f.todo).act)]
         IN  /\ FrameOK(n) /\ n.this = f.this /\ n.todo = Tail(f.todo)
             /\ Head(f.todo).act \notin RealAct
             /\ Rewinding(ss, R, n, g, k, m)
<1> DEFINE e == Head(f.todo)
           n == [f EXCEPT !.todo = Tail(@), !.ids = Append(@, e.act)]
<1>1. /\ FrameOK(f) /\ f.todo \in Seq(Entry) /\ f.ids \in Seq(IdentifyAct)
      /\ k \in 0 .. m /\ m \in 0 .. Now(ss) /\ Played(ss, R, g, k, k)
  BY DEF Doing, FrameOK
<1>2. /\ e \in Entry /\ Len(f.todo) \in Nat \ {0} /\ Len(Tail(f.todo)) = Len(f.todo) - 1
      /\ e = f.todo[1] /\ Tail(f.todo) \in Seq(Entry)
      /\ \A j \in 1 .. Len(f.todo) - 1 : Tail(f.todo)[j] = f.todo[j + 1]
      /\ ToSet(Acts(f.todo)) = {e.act} \cup ToSet(Acts(Tail(f.todo)))
  BY <1>1, TodoSplit
<1>3. e.act \in IdentifyAct /\ e.act \notin RealAct
  <2>1. e.act \in SpecialAct
    BY <1>2 DEF Entry
  <2>2. e.act \in AnyAct
    BY <2>1 DEF AnyAct, Act
  <2>3. QED
    BY <2>2, ActTypes DEF Specials
<1>4. /\ f.kind \notin {"table", "nav"} /\ f.act \in Seq(SpecialAct)
      /\ \A j \in 1 .. Len(f.todo) : f.todo[j].part \notin {"table", "nav"}
      /\ Kept(f, g) /\ Sorted(f.todo) /\ Insertable(ss, R, f.todo, k, m)
      /\ (\E j \in 1 .. Len(f.todo) : f.todo[j].part = "insert") => Closing(f.todo)
      /\ Waiting(f)
  BY DEF Rewinding
<1>5. 1 \in 1 .. Len(f.todo) /\ Now(ss) \in Nat
  BY <1>2, RunsParts
<1>6. f.ids = <<>>
  <2>1. SUFFICES ASSUME f.ids # <<>> PROVE FALSE
    OBVIOUS
  <2>2. PartRank(f.todo[1].part) = 2
    BY <1>4, <1>5, <2>1 DEF Waiting
  <2>3. QED
    BY <1>2, <2>2, PartRanks
<1>7. k < m
  BY <1>2, <1>4, <1>5, ClosingReal
<1>8. Comes(f.todo, e.act.order) /\ \A h \in 1 + 1 .. Len(f.todo) : f.todo[h].part # "insert"
  <2>1. PICK i \in 1 .. m - 1 :
          /\ \A h \in i .. m - 1 : e.act.order \in R[h].hands[e.act.playerIndex]
          /\ \/ i <= k
             \/ \E h \in 1 .. Len(f.todo) : f.todo[h].part = "history" /\ f.todo[h].act = ss.log[i]
             \/ /\ Comes(f.todo, e.act.order)
                /\ \A h \in 1 + 1 .. Len(f.todo) : f.todo[h].part # "insert"
    BY <1>2, <1>4, <1>5 DEF Insertable
  <2>2. ~(i <= k)
    <3>1. SUFFICES ASSUME i <= k PROVE FALSE
      OBVIOUS
    <3>2. k \in i .. m - 1
      BY <1>1, <1>5, <1>7, <3>1
    <3>3. e.act.order \in R[k].hands[e.act.playerIndex]
      BY <2>1, <3>2
    <3>4. k \in 0 .. Now(ss)
      BY <1>1, <1>5
    <3>5. g.st.hands = R[k].hands
      BY <1>1, <3>4, PlayedParts
    <3>6. QED
      BY <3>3, <3>5 DEF InHand
  <2>3. ASSUME NEW h \in 1 .. Len(f.todo), f.todo[h].part = "history" PROVE FALSE
    <3>1. CASE h = 1
      BY <1>2, <2>3, <3>1
    <3>2. CASE h # 1
      <4>1. 1 < h
        BY <3>2
      <4>2. PartRank(f.todo[1].part) <= PartRank(f.todo[h].part)
        BY <1>4, <1>5, <4>1 DEF Sorted
      <4>3. PartRank(f.todo[1].part) = 1 /\ PartRank(f.todo[h].part) = 0
        BY <1>2, <2>3, PartRanks
      <4>4. QED
        BY <4>2, <4>3
    <3>3. QED
      BY <3>1, <3>2
  <2>4. QED
    BY <2>1, <2>2, <2>3
<1> DEFINE w == Append(f.ids, e.act)
           rest == Tail(f.todo)
<1>9. w \in Seq(IdentifyAct) /\ Len(w) = 1 /\ w[1] = e.act /\ ToSet(w) = ToSet(f.ids) \cup {e.act}
  <2>1. Len(f.ids) = 0
    BY <1>6, EmptySeq
  <2>2. /\ Append(f.ids, e.act) \in Seq(IdentifyAct) /\ Len(Append(f.ids, e.act)) = Len(f.ids) + 1
        /\ Append(f.ids, e.act)[Len(f.ids) + 1] = e.act
    BY <1>1, <1>3, AppendParts
  <2>3. ToSet(Append(f.ids, e.act)) = ToSet(f.ids) \cup {e.act}
    BY <1>1, <1>3, AppendSet
  <2>4. QED
    BY <2>1, <2>2, <2>3
<1>10. n = [f EXCEPT !.todo = rest, !.ids = w]
  OBVIOUS
<1>11. \A j \in 1 .. Len(rest) : PartRank(rest[j].part) = 2 /\ rest[j].part \notin {"insert", "table", "nav"}
  <2>1. SUFFICES ASSUME NEW j \in 1 .. Len(rest)
                 PROVE  PartRank(rest[j].part) = 2 /\ rest[j].part \notin {"insert", "table", "nav"}
    OBVIOUS
  <2>2. j \in 1 .. Len(f.todo) - 1 /\ j + 1 \in 1 + 1 .. Len(f.todo) /\ j + 1 \in 1 .. Len(f.todo)
        /\ rest[j] = f.todo[j + 1]
    BY <1>2
  <2>3. rest[j].part # "insert" /\ rest[j].part \notin {"table", "nav"}
    BY <1>4, <1>8, <2>2
  <2>4. PartRank(e.part) <= PartRank(rest[j].part)
    BY <1>1, <1>4, SortedOn
  <2>5. rest[j] \in Entry
    BY <1>2, SeqElements
  <2>6. PartRank(rest[j].part) = 2
    BY <2>3, <2>4, <2>5, PartRanks
  <2>7. QED
    BY <2>3, <2>6
<1>12. Comes(rest, e.act.order)
  <2>1. e.part # "future"
    OBVIOUS
  <2>2. QED
    BY <1>1, <1>8, <2>1, ComesOn
<1>13. rest \in Seq(Entry) /\ ToSet(Acts(f.todo)) = {e.act} \cup ToSet(Acts(rest))
       /\ Sorted(rest)
  BY <1>1, <1>2, <1>4, SortedOn
<1> HIDE DEF n, w, rest, e
<1>14. n.kind = f.kind /\ n.this = f.this /\ n.act = f.act /\ n.todo = rest /\ n.ids = w
  BY <1>1, <1>10 DEF FrameOK
<1>15. FrameOK(n)
  BY <1>1, <1>9, <1>10, <1>13, <1>14 DEF FrameOK
<1>16. Kept(n, g)
  BY <1>4, <1>9, <1>13, <1>14 DEF Kept
<1>17. Waiting(n)
  BY <1>9, <1>11, <1>12, <1>14 DEF Waiting
<1>18. Insertable(ss, R, rest, k, m)
  BY <1>11 DEF Insertable
<1>19. Rewinding(ss, R, n, g, k, m)
  BY <1>4, <1>11, <1>13, <1>14, <1>16, <1>17, <1>18 DEF Rewinding
<1>20. QED
  BY <1>3, <1>14, <1>15, <1>19 DEF n, e, rest

-----------------------------------------------------------------------------
(* The stack of calls *)

\* Only whether a call is busy matters.
LEMMA BusyOrNot ==
  ASSUME NEW ss, NEW R, NEW pos, NEW f, NEW g, NEW k, NEW m, NEW b, NEW c, b <=> c
  PROVE  /\ Doing(ss, R, f, g, k, m, b) => Doing(ss, R, f, g, k, m, c)
         /\ Called(ss, R, f, k, b) => Called(ss, R, f, k, c)
<1>1. Doing(ss, R, f, g, k, m, b) => Doing(ss, R, f, g, k, m, c)
  <2>1. CASE b
    BY <2>1 DEF Doing
  <2>2. CASE ~b
    BY <2>2 DEF Doing
  <2>3. QED
    BY <2>1, <2>2
<1>2. Called(ss, R, f, k, b) => Called(ss, R, f, k, c)
  BY DEF Called, Navigating
<1>3. QED
  BY <1>1, <1>2

\* What the invariant says of the innermost call, and of its caller.
LEMMA TopCall ==
  ASSUME NEW ss, NEW R, SessionOK(ss), Course(ss, R), NEW pos, NEW cs, NEW g, NEW busy,
         InCalls(ss, R, pos, cs, g, busy)
  PROVE  /\ Len(cs) \in Nat \ {0} /\ pos[Len(cs)] \in Nat
         /\ Doing(ss, R, cs[Len(cs)], g, pos[Len(cs)], Goal(ss, pos, Len(cs)), busy)
         /\ Len(cs) # 1 => Rewinding(ss, R, cs[Len(cs)], g, pos[Len(cs)], Goal(ss, pos, Len(cs)))
         /\ Len(cs) = 1 => Called(ss, R, cs[Len(cs)], pos[Len(cs)], busy)
         /\ Len(cs) # 1 => GameOK(cs[Len(cs)].this)
<1> DEFINE L == Len(cs)
<1>1. L \in Nat \ {0} /\ L \in 1 .. L /\ pos \in [1 .. L -> Nat]
  BY DEF InCalls
<1>2. pos[L] \in Nat
  BY <1>1
<1>3. Doing(ss, R, cs[L], GameOf(cs, g, L), pos[L], Goal(ss, pos, L), L < L \/ busy)
  BY <1>1 DEF InCalls
<1>4. GameOf(cs, g, L) = g
  BY DEF GameOf
<1>5. Doing(ss, R, cs[L], g, pos[L], Goal(ss, pos, L), busy)
  <2>1. (L < L \/ busy) <=> busy
    BY <1>1
  <2>2. Doing(ss, R, cs[L], g, pos[L], Goal(ss, pos, L), L < L \/ busy)
    BY <1>3, <1>4
  <2>3. QED
    BY <2>1, <2>2, BusyOrNot, ZenonT(60)
<1>6. ASSUME L # 1
      PROVE  Rewinding(ss, R, cs[L], g, pos[L], Goal(ss, pos, L)) /\ GameOK(cs[L].this)
  <2> HIDE DEF L
  <2>1. L \in 2 .. L /\ L - 1 \in 1 .. L /\ (L - 1) + 1 = L /\ L - 1 # L
    BY <1>1, <1>6, SMTT(30)
  <2> USE DEF L
  <2>2. Rewinding(ss, R, cs[L], GameOf(cs, g, L), pos[L], Goal(ss, pos, L))
    BY <2>1, ZenonT(60) DEF InCalls
  <2>3. GameOf(cs, g, L - 1) = cs[L].this
    BY <2>1 DEF GameOf
  <2>4. Doing(ss, R, cs[L - 1], GameOf(cs, g, L - 1), pos[L - 1], Goal(ss, pos, L - 1), L - 1 < L \/ busy)
    BY <2>1 DEF InCalls
  <2>5. GameOK(GameOf(cs, g, L - 1))
    BY <2>4 DEF Doing, Played
  <2>6. QED
    BY <1>4, <2>2, <2>3, <2>5
<1>7. ASSUME L = 1 PROVE Called(ss, R, cs[L], pos[L], busy)
  <2>1. Called(ss, R, cs[1], pos[1], 1 < L \/ busy)
    BY DEF InCalls
  <2>2. (1 < L \/ busy) <=> busy
    BY <1>1, <1>7
  <2>3. Called(ss, R, cs[1], pos[1], busy)
    BY <2>1, <2>2, BusyOrNot
  <2>4. QED
    BY <1>7, <2>3
<1>8. QED
  BY <1>2, <1>1, <1>5, <1>6, <1>7

\* A function on 1 .. n is a stack of n calls.
LEMMA IsStack ==
  ASSUME NEW n \in Nat, NEW c, c = [i \in 1 .. n |-> c[i]]
  PROVE  Len(c) = n /\ c \in Seq({c[i] : i \in 1 .. n})
<1> DEFINE S == {c[i] : i \in 1 .. n}
<1>1. c \in [1 .. n -> S]
  OBVIOUS
<1> HIDE DEF S
<1>2. c \in Seq(S) /\ Len(c) = n
  BY <1>1, FunctionIsSeq
<1>3. QED
  BY <1>2 DEF S

\* The innermost frame is changed, a call is made, a call returns.
LEMMA StackParts ==
  ASSUME NEW cs, Len(cs) \in Nat \ {0}, cs = [n \in 1 .. Len(cs) |-> cs[n]], NEW f
  PROVE  /\ LET c == [cs EXCEPT ![Len(cs)] = f]
            IN  /\ Len(c) = Len(cs) /\ c = [n \in 1 .. Len(cs) |-> c[n]]
                /\ \A n \in 1 .. Len(cs) : c[n] = IF n = Len(cs) THEN f ELSE cs[n]
         /\ LET c == Append(cs, f)
            IN  /\ Len(c) = Len(cs) + 1 /\ c = [n \in 1 .. Len(cs) + 1 |-> c[n]]
                /\ \A n \in 1 .. Len(cs) + 1 : c[n] = IF n = Len(cs) + 1 THEN f ELSE cs[n]
         /\ Len(cs) # 1 =>
              LET c == SubSeq(cs, 1, Len(cs) - 1)
              IN  /\ Len(c) = Len(cs) - 1 /\ c = [n \in 1 .. Len(cs) - 1 |-> c[n]]
                  /\ \A n \in 1 .. Len(cs) - 1 : c[n] = cs[n]
                  /\ Append(SubSeq(cs, 1, Len(cs) - 2), f) = [c EXCEPT ![Len(c)] = f]
<1> DEFINE L == Len(cs)
           S == {cs[n] : n \in 1 .. L} \cup {f}
<1>1. L \in Nat \ {0}
  OBVIOUS
<1>2. cs \in Seq(S) /\ f \in S /\ cs \in [1 .. L -> S]
  <2>1. cs \in Seq({cs[n] : n \in 1 .. L})
    BY IsStack
  <2>2. cs \in Seq(S)
    BY <2>1, SeqSubset
  <2>3. QED
    BY <2>2
<1>3. cs = [n \in 1 .. L |-> cs[n]]
  OBVIOUS
<1> HIDE DEF S
<1>4. LET c == [cs EXCEPT ![Len(cs)] = f]
      IN  /\ Len(c) = Len(cs) /\ c = [n \in 1 .. Len(cs) |-> c[n]]
          /\ \A n \in 1 .. Len(cs) : c[n] = IF n = Len(cs) THEN f ELSE cs[n]
  <2> DEFINE c == [cs EXCEPT ![L] = f]
  <2> HIDE DEF L
  <2>1. c = [n \in 1 .. L |-> c[n]] /\ \A n \in 1 .. L : c[n] = IF n = L THEN f ELSE cs[n]
    BY <1>1, <1>2
  <2> HIDE DEF c
  <2>2. Len(c) = L
    BY <1>1, <2>1, IsStack
  <2>3. QED
    BY <2>1, <2>2 DEF L, c
<1>5. LET c == Append(cs, f)
      IN  /\ Len(c) = Len(cs) + 1 /\ c = [n \in 1 .. Len(cs) + 1 |-> c[n]]
          /\ \A n \in 1 .. Len(cs) + 1 : c[n] = IF n = Len(cs) + 1 THEN f ELSE cs[n]
  <2> DEFINE c == Append(cs, f)
  <2>1. /\ c \in Seq(S) /\ Len(c) = L + 1
        /\ \A i \in 1 .. L : c[i] = cs[i]
        /\ c[L + 1] = f
    BY <1>2, AppendParts
  <2> HIDE DEF c, L
  <2>2. c = [n \in 1 .. L + 1 |-> c[n]]
    BY <2>1, SeqElements
  <2>3. \A n \in 1 .. L + 1 : c[n] = IF n = L + 1 THEN f ELSE cs[n]
    BY <1>1, <2>1
  <2>4. QED
    BY <2>1, <2>2, <2>3 DEF c, L
<1>6. ASSUME L # 1
      PROVE  LET c == SubSeq(cs, 1, Len(cs) - 1)
             IN  /\ Len(c) = Len(cs) - 1 /\ c = [n \in 1 .. Len(cs) - 1 |-> c[n]]
                 /\ \A n \in 1 .. Len(cs) - 1 : c[n] = cs[n]
                 /\ Append(SubSeq(cs, 1, Len(cs) - 2), f) = [c EXCEPT ![Len(c)] = f]
  <2> DEFINE c == SubSeq(cs, 1, L - 1)
             d == SubSeq(cs, 1, L - 2)
             e == Append(d, f)
             x == [c EXCEPT ![Len(c)] = f]
  <2> HIDE DEF L
  <2>1. L - 1 \in Nat \ {0} /\ L - 2 \in Nat /\ L - 2 <= L /\ L - 1 <= L /\ (L - 2) + 1 = L - 1
    BY <1>1, <1>6
  <2>2. Len(cs) = L
    BY DEF L
  <2>3. c \in Seq(S) /\ Len(c) = L - 1 /\ \A i \in 1 .. L - 1 : c[i] = cs[i]
    <3>1. SubSeq(cs, 0 + 1, L - 1) \in Seq(S) /\ Len(SubSeq(cs, 0 + 1, L - 1)) = (L - 1) - 0
          /\ \A h \in 1 .. (L - 1) - 0 : SubSeq(cs, 0 + 1, L - 1)[h] = cs[0 + h]
      <4>1. 0 \in Nat /\ L - 1 \in Nat /\ 0 <= L - 1 /\ L - 1 <= Len(cs)
        BY <2>1, <2>2
      <4>2. QED
        BY <1>2, <4>1, PartOf
    <3>2. QED
      BY <2>1, <3>1
  <2>4. d \in Seq(S) /\ Len(d) = L - 2 /\ \A i \in 1 .. L - 2 : d[i] = cs[i]
    <3>1. SubSeq(cs, 0 + 1, L - 2) \in Seq(S) /\ Len(SubSeq(cs, 0 + 1, L - 2)) = (L - 2) - 0
          /\ \A h \in 1 .. (L - 2) - 0 : SubSeq(cs, 0 + 1, L - 2)[h] = cs[0 + h]
      <4>1. 0 \in Nat /\ L - 2 \in Nat /\ 0 <= L - 2 /\ L - 2 <= Len(cs)
        BY <2>1, <2>2
      <4>2. QED
        BY <1>2, <4>1, PartOf
    <3>2. QED
      BY <2>1, <3>1
  <2> HIDE DEF c, d
  <2>5. /\ e \in Seq(S) /\ Len(e) = (L - 2) + 1
        /\ \A i \in 1 .. L - 2 : e[i] = d[i]
        /\ e[(L - 2) + 1] = f
    BY <1>2, <2>4, AppendParts
  <2> HIDE DEF e
  <2>6. c = [n \in 1 .. L - 1 |-> c[n]] /\ e = [n \in 1 .. L - 1 |-> e[n]]
    BY <2>1, <2>3, <2>5, SeqElements
  <2>7. x = [n \in 1 .. L - 1 |-> x[n]]
    BY <2>3, <2>6
  <2>8. ASSUME NEW n \in 1 .. L - 1 PROVE x[n] = e[n]
    <3>1. CASE n = L - 1
      <4>1. x[n] = f
        BY <2>3, <2>6, <3>1
      <4>2. e[n] = f
        BY <2>1, <2>5, <3>1
      <4>3. QED
        BY <4>1, <4>2
    <3>2. CASE n # L - 1
      <4>1. x[n] = c[n]
        BY <2>3, <2>6, <3>2
      <4>2. n \in 1 .. L - 2
        BY <2>1, <3>2
      <4>3. e[n] = c[n]
        BY <2>3, <2>4, <2>5, <4>2
      <4>4. QED
        BY <4>1, <4>3
    <3>3. QED
      BY <3>1, <3>2
  <2> HIDE DEF x
  <2>9. x = e
    BY <2>6, <2>7, <2>8
  <2>10. QED
    BY <2>3, <2>6, <2>9 DEF x, e, c, d, L
<1>7. QED
  BY <1>4, <1>5, <1>6

\* The innermost call goes on with the frame f, its game h where the log had k
\* actions.
LEMMA CallGoesOn ==
  ASSUME NEW ss, NEW R, NEW pos, NEW cs, NEW g, NEW busy, InCalls(ss, R, pos, cs, g, busy),
         NEW f, NEW h, NEW k \in Nat, NEW b \in BOOLEAN,
         Doing(ss, R, f, h, k, Goal(ss, pos, Len(cs)), b),
         Len(cs) # 1 => f.this = cs[Len(cs)].this /\ Rewinding(ss, R, f, h, k, Goal(ss, pos, Len(cs))),
         Len(cs) = 1 => Called(ss, R, f, k, b)
  PROVE  InCalls(ss, R, [pos EXCEPT ![Len(cs)] = k], [cs EXCEPT ![Len(cs)] = f], h, b)
<1> DEFINE L == Len(cs)
           c == [cs EXCEPT ![L] = f]
           p == [pos EXCEPT ![L] = k]
<1>1. L \in Nat \ {0} /\ L \in 1 .. L /\ pos \in [1 .. L -> Nat] /\ cs = [n \in 1 .. L |-> cs[n]]
  BY DEF InCalls
<1>2. /\ Len(c) = L /\ c = [n \in 1 .. L |-> c[n]]
      /\ \A n \in 1 .. L : c[n] = IF n = L THEN f ELSE cs[n]
  BY <1>1, StackParts
<1>3. p \in [1 .. L -> Nat] /\ \A n \in 1 .. L : p[n] = IF n = L THEN k ELSE pos[n]
  BY <1>1
<1>4. c[L] = f /\ p[L] = k
  BY <1>1, <1>2, <1>3
<1> HIDE DEF c, p
<1>5. \A n \in 1 .. L : Goal(ss, p, n) = Goal(ss, pos, n)
  <2>1. SUFFICES ASSUME NEW n \in 1 .. L PROVE Goal(ss, p, n) = Goal(ss, pos, n)
    OBVIOUS
  <2>2. CASE n = 1
    BY <2>2 DEF Goal
  <2>3. CASE n # 1
    <3> HIDE DEF L
    <3>1. n - 1 \in 1 .. L /\ n - 1 # L
      BY <1>1, <2>3
    <3>2. p[n - 1] = pos[n - 1]
      BY <1>3, <3>1
    <3>3. QED
      BY <2>3, <3>2 DEF Goal
  <2>4. QED
    BY <2>2, <2>3
<1>6. ASSUME NEW n \in 1 .. L, n # L
      PROVE  /\ c[n] = cs[n] /\ p[n] = pos[n] /\ GameOf(c, h, n) = GameOf(cs, g, n)
             /\ (n < L) = TRUE
  <2> DEFINE N == L
  <2> HIDE DEF N
  <2>1. n + 1 \in 1 .. N /\ n # N /\ n < N /\ n \in 1 .. N
    BY <1>1, <1>6 DEF N
  <2>2. c[n] = cs[n] /\ p[n] = pos[n]
    BY <1>2, <1>3, <1>6
  <2>3. GameOf(c, h, n) = c[n + 1].this /\ GameOf(cs, g, n) = cs[n + 1].this
    BY <1>2, <1>6 DEF GameOf
  <2>4. c[n + 1].this = cs[n + 1].this
    <3>1. CASE n + 1 = N
      <4>1. L # 1 /\ n + 1 = L
        BY <2>1, <3>1 DEF N
      <4>2. c[n + 1] = f /\ cs[n + 1] = cs[L]
        BY <1>4, <4>1
      <4>3. QED
        BY <4>1, <4>2
    <3>2. CASE n + 1 # N
      BY <1>2, <2>1, <3>2 DEF N
    <3>3. QED
      BY <3>1, <3>2
  <2>5. (n < L) = TRUE
    BY <2>1 DEF N
  <2>6. QED
    BY <2>2, <2>3, <2>4, <2>5
<1>7. GameOf(c, h, L) = h
  BY <1>2 DEF GameOf
<1>8. ASSUME NEW n \in 1 .. L
      PROVE  Doing(ss, R, c[n], GameOf(c, h, n), p[n], Goal(ss, p, n), n < L \/ b)
  <2>1. CASE n = L
    <3>1. Doing(ss, R, c[n], GameOf(c, h, n), p[n], Goal(ss, p, n), b)
      BY <1>4, <1>5, <1>7, <2>1
    <3>2. b <=> (n < L \/ b)
      BY <1>1, <2>1
    <3>3. QED
      BY <3>1, <3>2, BusyOrNot
  <2>2. CASE n # L
    <3>1. Doing(ss, R, cs[n], GameOf(cs, g, n), pos[n], Goal(ss, pos, n), n < L \/ busy)
      BY <1>8 DEF InCalls
    <3>2. (n < L \/ busy) <=> (n < L \/ b)
      BY <1>6, <2>2
    <3>3. Doing(ss, R, cs[n], GameOf(cs, g, n), pos[n], Goal(ss, pos, n), n < L \/ b)
      BY <3>1, <3>2, BusyOrNot
    <3>4. QED
      BY <1>5, <1>6, <2>2, <3>3
  <2>3. QED
    BY <2>1, <2>2
<1>9. ASSUME NEW n \in 2 .. L
      PROVE  Rewinding(ss, R, c[n], GameOf(c, h, n), p[n], Goal(ss, p, n))
  <2>1. n \in 1 .. L /\ (n = L => L # 1)
    BY <1>1, <1>9
  <2>2. CASE n = L
    <3>1. Rewinding(ss, R, f, h, k, Goal(ss, pos, L))
      BY <2>1, <2>2
    <3>2. QED
      BY <1>1, <1>4, <1>5, <1>7, <2>2, <3>1
  <2>3. CASE n # L
    <3>1. Rewinding(ss, R, cs[n], GameOf(cs, g, n), pos[n], Goal(ss, pos, n))
      BY <1>9 DEF InCalls
    <3>2. QED
      BY <1>5, <1>6, <2>1, <2>3, <3>1
  <2>4. QED
    BY <2>2, <2>3
<1>10. Called(ss, R, c[1], p[1], 1 < L \/ b)
  <2>1. CASE L = 1
    <3>1. Called(ss, R, c[1], p[1], b)
      BY <1>4, <2>1
    <3>2. b <=> (1 < L \/ b)
      BY <2>1
    <3>3. QED
      BY <3>1, <3>2, BusyOrNot
  <2>2. CASE L # 1
    <3>1. 1 \in 1 .. L /\ 1 # L
      BY <1>1, <2>2
    <3>2. Called(ss, R, cs[1], pos[1], 1 < L \/ busy)
      BY DEF InCalls
    <3>3. (1 < L \/ busy) <=> (1 < L \/ b)
      BY <1>6, <3>1
    <3>4. Called(ss, R, cs[1], pos[1], 1 < L \/ b)
      BY <3>2, <3>3, BusyOrNot
    <3>5. QED
      BY <1>6, <3>1, <3>4
  <2>3. QED
    BY <2>1, <2>2
<1>11. InCalls(ss, R, p, c, h, b)
  BY <1>1, <1>2, <1>3, <1>8, <1>9, <1>10 DEF InCalls
<1>12. QED
  BY <1>11 DEF p, c

\* A busy call does not look at the notes of its game.
LEMMA CallAlike ==
  ASSUME NEW ss, NEW R, SessionOK(ss), Course(ss, R), NEW pos, NEW cs, NEW g,
         InCalls(ss, R, pos, cs, g, TRUE), NEW h, Alike(h, g)
  PROVE  InCalls(ss, R, pos, cs, h, TRUE)
<1> DEFINE L == Len(cs)
<1>1. /\ L \in Nat \ {0} /\ pos[L] \in Nat
      /\ Doing(ss, R, cs[L], g, pos[L], Goal(ss, pos, L), TRUE)
      /\ L # 1 => Rewinding(ss, R, cs[L], g, pos[L], Goal(ss, pos, L))
      /\ L = 1 => Called(ss, R, cs[L], pos[L], TRUE)
  BY TopCall
<1>2. Doing(ss, R, cs[L], h, pos[L], Goal(ss, pos, L), TRUE)
  BY <1>1, DoingAlike
<1>3. L # 1 => Rewinding(ss, R, cs[L], h, pos[L], Goal(ss, pos, L))
  <2>1. h.list = g.list
    BY DEF Alike
  <2>2. QED
    BY <1>1, <2>1 DEF Rewinding, Kept
<1>4. InCalls(ss, R, [pos EXCEPT ![L] = pos[L]], [cs EXCEPT ![L] = cs[L]], h, TRUE)
  <2> DEFINE f == cs[L]
             k == pos[L]
  <2>1. f = cs[L] /\ k = pos[L] /\ k \in Nat /\ f.this = cs[L].this
    BY <1>1
  <2> HIDE DEF f, k
  <2>2. Doing(ss, R, f, h, k, Goal(ss, pos, Len(cs)), TRUE)
    BY <1>2, <2>1
  <2>3. Len(cs) # 1 => f.this = cs[Len(cs)].this /\ Rewinding(ss, R, f, h, k, Goal(ss, pos, Len(cs)))
    BY <1>3, <2>1
  <2>4. Len(cs) = 1 => Called(ss, R, f, k, TRUE)
    BY <1>1, <2>1
  <2>5. InCalls(ss, R, [pos EXCEPT ![Len(cs)] = k], [cs EXCEPT ![Len(cs)] = f], h, TRUE)
    BY <2>1, <2>2, <2>3, <2>4, CallGoesOn
  <2>6. QED
    BY <2>5 DEF f, k
<1>5. [pos EXCEPT ![L] = pos[L]] = pos /\ [cs EXCEPT ![L] = cs[L]] = cs
  <2>1. pos \in [1 .. L -> Nat] /\ cs = [n \in 1 .. L |-> cs[n]]
    BY DEF InCalls
  <2>2. QED
    BY <2>1
<1>6. QED
  BY <1>4, <1>5

\* The innermost call, whose game is d, calls rewind.
LEMMA CallMade ==
  ASSUME NEW ss, NEW R, NEW pos, NEW cs, NEW f, InCalls(ss, R, pos, cs, f.this, TRUE),
         NEW h, Doing(ss, R, f, h, 0, pos[Len(cs)] + 1, FALSE),
         Rewinding(ss, R, f, h, 0, pos[Len(cs)] + 1)
  PROVE  InCalls(ss, R, [n \in 1 .. Len(cs) + 1 |-> IF n = Len(cs) + 1 THEN 0 ELSE pos[n]],
                 Append(cs, f), h, FALSE)
<1> DEFINE L == Len(cs)
           c == Append(cs, f)
           p == [n \in 1 .. L + 1 |-> IF n = L + 1 THEN 0 ELSE pos[n]]
<1>1. L \in Nat \ {0} /\ L \in 1 .. L /\ pos \in [1 .. L -> Nat] /\ cs = [n \in 1 .. L |-> cs[n]]
  BY DEF InCalls
<1>2. /\ Len(c) = L + 1 /\ c = [n \in 1 .. L + 1 |-> c[n]]
      /\ \A n \in 1 .. L + 1 : c[n] = IF n = L + 1 THEN f ELSE cs[n]
  BY <1>1, StackParts, ZenonT(60)
<1>3. /\ p \in [1 .. L + 1 -> Nat]
      /\ \A n \in 1 .. L + 1 : p[n] = IF n = L + 1 THEN 0 ELSE pos[n]
  <2> HIDE DEF L
  <2>1. \A n \in 1 .. L + 1 : n # L + 1 => n \in 1 .. L
    BY <1>1
  <2>2. QED
    BY <1>1, <2>1
<1> HIDE DEF c, p, L
<1>4. L + 1 \in 1 .. L + 1 /\ c[L + 1] = f /\ p[L + 1] = 0
  <2>1. L + 1 \in 1 .. L + 1
    BY <1>1
  <2>2. c[L + 1] = f
    BY <1>2, <2>1
  <2>3. p[L + 1] = 0
    BY <1>3, <2>1
  <2>4. QED
    BY <2>1, <2>2, <2>3
<1>5. ASSUME NEW n \in 1 .. L
      PROVE  /\ n \in 1 .. L + 1 /\ n # L + 1 /\ c[n] = cs[n] /\ p[n] = pos[n]
             /\ Goal(ss, p, n) = Goal(ss, pos, n)
             /\ GameOf(c, h, n) = GameOf(cs, f.this, n)
  <2>1. n \in 1 .. L + 1 /\ n # L + 1
    BY <1>1
  <2>2. c[n] = cs[n] /\ p[n] = pos[n]
    BY <1>2, <1>3, <2>1
  <2>3. Goal(ss, p, n) = Goal(ss, pos, n)
    <3>1. CASE n = 1
      BY <3>1 DEF Goal
    <3>2. CASE n # 1
      <4>1. n - 1 \in 1 .. L + 1 /\ n - 1 # L + 1
        BY <1>1, <3>2
      <4>2. p[n - 1] = pos[n - 1]
        BY <1>3, <4>1
      <4>3. QED
        BY <3>2, <4>2 DEF Goal
    <3>3. QED
      BY <3>1, <3>2
  <2>4. GameOf(c, h, n) = c[n + 1].this
    BY <1>2, <2>1 DEF GameOf
  <2>5. GameOf(cs, f.this, n) = c[n + 1].this
    <3>1. CASE n = L
      BY <1>4, <3>1 DEF GameOf, L
    <3>2. CASE n # L
      <4>1. n + 1 \in 1 .. L + 1 /\ n + 1 # L + 1
        BY <1>1, <3>2
      <4>2. c[n + 1] = cs[n + 1]
        BY <1>2, <4>1
      <4>3. QED
        BY <3>2, <4>2 DEF GameOf, L
    <3>3. QED
      BY <3>1, <3>2
  <2>6. QED
    BY <2>1, <2>2, <2>3, <2>4, <2>5
<1>6. GameOf(c, h, L + 1) = h /\ Goal(ss, p, L + 1) = pos[L] + 1
  <2>1. (L + 1) - 1 = L /\ L + 1 # 1
    BY <1>1
  <2>2. p[L] = pos[L]
    BY <1>1, <1>5
  <2>3. QED
    BY <1>2, <2>1, <2>2 DEF GameOf, Goal
<1>7. ASSUME NEW n \in 1 .. L + 1
      PROVE  Doing(ss, R, c[n], GameOf(c, h, n), p[n], Goal(ss, p, n), n < L + 1 \/ FALSE)
  <2>1. CASE n = L + 1
    <3>1. Doing(ss, R, c[n], GameOf(c, h, n), p[n], Goal(ss, p, n), FALSE)
      BY <1>4, <1>6, <2>1 DEF L
    <3>2. FALSE <=> (n < L + 1 \/ FALSE)
      BY <1>1, <2>1
    <3>3. QED
      BY <3>1, <3>2, BusyOrNot
  <2>2. CASE n # L + 1
    <3>1. n \in 1 .. L
      BY <1>1, <2>2
    <3>2. Doing(ss, R, cs[n], GameOf(cs, f.this, n), pos[n], Goal(ss, pos, n), n < Len(cs) \/ TRUE)
      BY <3>1 DEF InCalls, L
    <3>3. (n < Len(cs) \/ TRUE) <=> (n < L + 1 \/ FALSE)
      BY <1>1, <3>1
    <3>4. Doing(ss, R, cs[n], GameOf(cs, f.this, n), pos[n], Goal(ss, pos, n), n < L + 1 \/ FALSE)
      BY <3>2, <3>3, BusyOrNot
    <3>5. QED
      BY <1>5, <3>1, <3>4
  <2>3. QED
    BY <2>1, <2>2
<1>8. ASSUME NEW n \in 2 .. L + 1
      PROVE  Rewinding(ss, R, c[n], GameOf(c, h, n), p[n], Goal(ss, p, n))
  <2>1. CASE n = L + 1
    BY <1>4, <1>6, <2>1 DEF L
  <2>2. CASE n # L + 1
    <3>1. n \in 1 .. L /\ n \in 2 .. L
      BY <1>1, <1>8, <2>2
    <3>2. Rewinding(ss, R, cs[n], GameOf(cs, f.this, n), pos[n], Goal(ss, pos, n))
      BY <3>1 DEF InCalls, L
    <3>3. QED
      BY <1>5, <3>1, <3>2
  <2>3. QED
    BY <2>1, <2>2
<1>9. Called(ss, R, c[1], p[1], 1 < L + 1 \/ FALSE)
  <2>1. 1 \in 1 .. L /\ 1 < L + 1
    BY <1>1
  <2>2. Called(ss, R, cs[1], pos[1], 1 < Len(cs) \/ TRUE)
    BY DEF InCalls
  <2>3. (1 < Len(cs) \/ TRUE) <=> (1 < L + 1 \/ FALSE)
    BY <2>1
  <2>4. Called(ss, R, cs[1], pos[1], 1 < L + 1 \/ FALSE)
    BY <2>2, <2>3, BusyOrNot
  <2>5. QED
    BY <1>5, <2>1, <2>4
<1>10. InCalls(ss, R, p, c, h, FALSE)
  <2>1. L + 1 \in Nat \ {0}
    BY <1>1
  <2>2. QED
    BY <1>2, <1>3, <1>7, <1>8, <1>9, <2>1 DEF InCalls
<1>11. QED
  BY <1>10 DEF p, c, L

\* The innermost call returns: its caller still has the game it had.
LEMMA CallReturns ==
  ASSUME NEW ss, NEW R, NEW pos, NEW cs, NEW g, NEW busy, InCalls(ss, R, pos, cs, g, busy),
         Len(cs) # 1
  PROVE  InCalls(ss, R, [n \in 1 .. Len(cs) - 1 |-> pos[n]], SubSeq(cs, 1, Len(cs) - 1),
                 cs[Len(cs)].this, TRUE)
<1> DEFINE L == Len(cs)
           c == SubSeq(cs, 1, L - 1)
           p == [n \in 1 .. L - 1 |-> pos[n]]
           h == cs[L].this
<1>1. L \in Nat \ {0, 1} /\ pos \in [1 .. L -> Nat] /\ cs = [n \in 1 .. L |-> cs[n]]
  BY DEF InCalls
<1>2. /\ Len(c) = L - 1 /\ c = [n \in 1 .. L - 1 |-> c[n]]
      /\ \A n \in 1 .. L - 1 : c[n] = cs[n]
  BY <1>1, StackParts
<1> HIDE DEF L
<1>3. p \in [1 .. L - 1 -> Nat] /\ \A n \in 1 .. L - 1 : p[n] = pos[n]
  BY <1>1
<1> HIDE DEF c, p
<1>4. L - 1 \in Nat \ {0}
  BY <1>1
<1>5. ASSUME NEW n \in 1 .. L - 1
      PROVE  /\ n \in 1 .. L /\ n < L /\ c[n] = cs[n] /\ p[n] = pos[n]
             /\ Goal(ss, p, n) = Goal(ss, pos, n)
             /\ GameOf(c, h, n) = GameOf(cs, g, n)
  <2>1. n \in 1 .. L /\ n < L /\ n # L
    BY <1>1
  <2>2. c[n] = cs[n] /\ p[n] = pos[n]
    BY <1>2, <1>3
  <2>3. Goal(ss, p, n) = Goal(ss, pos, n)
    <3>1. CASE n = 1
      BY <3>1 DEF Goal
    <3>2. CASE n # 1
      <4>1. n - 1 \in 1 .. L - 1
        BY <1>1, <3>2
      <4>2. p[n - 1] = pos[n - 1]
        BY <1>3, <4>1
      <4>3. QED
        BY <3>2, <4>2 DEF Goal
    <3>3. QED
      BY <3>1, <3>2
  <2>4. GameOf(cs, g, n) = cs[n + 1].this
    BY <2>1 DEF GameOf, L
  <2>5. GameOf(c, h, n) = cs[n + 1].this
    <3>1. CASE n = L - 1
      <4>1. n + 1 = L
        BY <1>1, <3>1
      <4>2. QED
        BY <1>2, <3>1, <4>1 DEF GameOf
    <3>2. CASE n # L - 1
      <4>1. n + 1 \in 1 .. L - 1
        BY <1>1, <3>2
      <4>2. c[n + 1] = cs[n + 1]
        BY <1>2, <4>1
      <4>3. QED
        BY <1>2, <3>2, <4>2 DEF GameOf
    <3>3. QED
      BY <3>1, <3>2
  <2>6. QED
    BY <2>1, <2>2, <2>3, <2>4, <2>5
<1>6. ASSUME NEW n \in 1 .. L - 1
      PROVE  Doing(ss, R, c[n], GameOf(c, h, n), p[n], Goal(ss, p, n), n < L - 1 \/ TRUE)
  <2>1. Doing(ss, R, cs[n], GameOf(cs, g, n), pos[n], Goal(ss, pos, n), n < Len(cs) \/ busy)
    BY <1>5 DEF InCalls, L
  <2>2. (n < Len(cs) \/ busy) <=> (n < L - 1 \/ TRUE)
    BY <1>5 DEF L
  <2>3. Doing(ss, R, cs[n], GameOf(cs, g, n), pos[n], Goal(ss, pos, n), n < L - 1 \/ TRUE)
    BY <2>1, <2>2, BusyOrNot
  <2>4. QED
    BY <1>5, <2>3
<1>7. ASSUME NEW n \in 2 .. L - 1
      PROVE  Rewinding(ss, R, c[n], GameOf(c, h, n), p[n], Goal(ss, p, n))
  <2>1. n \in 1 .. L - 1 /\ n \in 2 .. L
    BY <1>1, <1>7
  <2>2. Rewinding(ss, R, cs[n], GameOf(cs, g, n), pos[n], Goal(ss, pos, n))
    BY <2>1 DEF InCalls, L
  <2>3. QED
    BY <1>5, <2>1, <2>2
<1>8. Called(ss, R, c[1], p[1], 1 < L - 1 \/ TRUE)
  <2>1. 1 \in 1 .. L - 1 /\ 1 < L
    BY <1>1
  <2>2. Called(ss, R, cs[1], pos[1], 1 < Len(cs) \/ busy)
    BY DEF InCalls
  <2>3. (1 < Len(cs) \/ busy) <=> (1 < L - 1 \/ TRUE)
    BY <2>1 DEF L
  <2>4. Called(ss, R, cs[1], pos[1], 1 < L - 1 \/ TRUE)
    BY <2>2, <2>3, BusyOrNot
  <2>5. QED
    BY <1>5, <2>1, <2>4
<1>9. InCalls(ss, R, p, c, h, TRUE)
  BY <1>2, <1>3, <1>4, <1>6, <1>7, <1>8 DEF InCalls
<1>10. QED
  BY <1>9 DEF p, c, h, L

-----------------------------------------------------------------------------
(* Entries are handled *)

\* The outermost call after an entry has been handled.
LEMMA CalledOn ==
  ASSUME NEW ss, NEW R, NEW f, FrameOK(f), f.todo # <<>>, NEW k \in Nat, NEW busy,
         Called(ss, R, f, k, busy), NEW i \in {k, k + 1},
         f.kind = "nav" /\ i = k + 1 => R[k].turn_count < f.act
  PROVE  Called(ss, R, After(f, Head(f.todo)), i, FALSE)
<1> DEFINE e == Head(f.todo)
           n == After(f, e)
<1>1. f.todo \in Seq(Entry)
  BY DEF FrameOK
<1>2. /\ Len(f.todo) \in Nat \ {0} /\ Len(Tail(f.todo)) = Len(f.todo) - 1 /\ e = f.todo[1]
      /\ \A j \in 1 .. Len(f.todo) - 1 : Tail(f.todo)[j] = f.todo[j + 1]
  BY <1>1, TodoSplit
<1>3. 1 \in 1 .. Len(f.todo) /\ \A j \in 1 .. Len(f.todo) - 1 : j + 1 \in 1 .. Len(f.todo)
  BY <1>2
<1>4. e.part \notin {"insert", "future"}
  BY <1>2, <1>3 DEF Called, Navigating
<1>5. /\ n.kind = f.kind /\ n.this = f.this /\ n.act = f.act
      /\ n.todo = Tail(f.todo) /\ n.ids = f.ids
  BY <1>4, AfterParts
<1> HIDE DEF n, e
<1>6. f.ids = <<>>
  BY DEF Called
<1>7. CASE f.kind = "table" /\ ss.shown = 0 /\ \A j \in 1 .. Len(f.todo) : f.todo[j].part = "table"
  <2>1. \A j \in 1 .. Len(Tail(f.todo)) : Tail(f.todo)[j].part = "table"
    BY <1>2, <1>3, <1>7
  <2>2. QED
    BY <1>5, <1>6, <1>7, <2>1 DEF Called, n, e
<1>8. CASE Navigating(ss, R, f, k, busy)
  <2>1. \A j \in 1 .. Len(Tail(f.todo)) : Tail(f.todo)[j].part = "nav"
    BY <1>2, <1>3, <1>8 DEF Navigating
  <2>2. f.kind = "nav"
    BY <1>8 DEF Navigating
  <2>3. i = 0 \/ R[i - 1].turn_count < f.act
    <3>1. CASE i = k
      BY <1>8, <3>1 DEF Navigating
    <3>2. CASE i = k + 1
      <4>1. i - 1 = k
        BY <3>2
      <4>2. QED
        BY <2>2, <3>2, <4>1
    <3>3. QED
      BY <3>1, <3>2
  <2>4. Navigating(ss, R, n, i, FALSE)
    BY <1>5, <1>8, <2>1, <2>3 DEF Navigating
  <2>5. QED
    BY <1>5, <1>6, <2>4 DEF Called, n, e
<1>9. QED
  BY <1>7, <1>8 DEF Called

\* The innermost call has handled an entry.
LEMMA CallAdvances ==
  ASSUME NEW ss, NEW R, SessionOK(ss), Course(ss, R), NEW pos, NEW cs, NEW g, NEW busy,
         InCalls(ss, R, pos, cs, g, busy), NEW f, f = cs[Len(cs)], f.todo # <<>>,
         NEW k, k = pos[Len(cs)], NEW h, NEW i \in {k, k + 1},
         Head(f.todo).act \in RealAct => i = k + 1,
         Doing(ss, R, After(f, Head(f.todo)), h, i, Goal(ss, pos, Len(cs)), FALSE),
         ToSet(FlattenSeq(g.list)) \subseteq ToSet(FlattenSeq(h.list)),
         Head(f.todo).act # NoAct => Head(f.todo).act \in ToSet(FlattenSeq(h.list)),
         f.kind = "nav" /\ i = k + 1 => R[k].turn_count < f.act
  PROVE  \E q : InCalls(ss, R, q, [cs EXCEPT ![Len(cs)] = After(f, Head(f.todo))], h, FALSE)
<1> DEFINE L == Len(cs)
           n == After(f, Head(f.todo))
           m == Goal(ss, pos, L)
<1>1. /\ L \in Nat \ {0} /\ k \in Nat
      /\ Doing(ss, R, f, g, k, m, busy)
      /\ L # 1 => Rewinding(ss, R, f, g, k, m)
      /\ L = 1 => Called(ss, R, f, k, busy)
      /\ L # 1 => GameOK(f.this)
  BY TopCall
<1>2. FrameOK(f)
  BY <1>1 DEF Doing
<1>3. n.this = f.this
  BY <1>2, AfterParts
<1> HIDE DEF m
<1>4. ASSUME L # 1 PROVE Rewinding(ss, R, n, h, i, m)
  BY <1>1, <1>4, RewindingOn
<1>5. ASSUME L = 1 PROVE Called(ss, R, n, i, FALSE)
  BY <1>1, <1>2, <1>5, CalledOn
<1>6. i \in Nat
  BY <1>1
<1>7. Doing(ss, R, n, h, i, Goal(ss, pos, Len(cs)), FALSE)
  OBVIOUS
<1> HIDE DEF n
<1>8. Len(cs) # 1 => n.this = cs[Len(cs)].this /\ Rewinding(ss, R, n, h, i, Goal(ss, pos, Len(cs)))
  BY <1>3, <1>4 DEF m
<1>9. Len(cs) = 1 => Called(ss, R, n, i, FALSE)
  BY <1>5
<1>10. InCalls(ss, R, [pos EXCEPT ![Len(cs)] = i], [cs EXCEPT ![Len(cs)] = n], h, FALSE)
  BY <1>6, <1>7, <1>8, <1>9, CallGoesOn
<1>11. QED
  BY <1>10 DEF n

\* The old settings are taken over again before the last list is handled.
LEMMA HandleRestore ==
  ASSUME NEW ss, NEW R, SessionOK(ss), Course(ss, R), NEW pos, NEW cs, NEW g,
         InCalls(ss, R, pos, cs, g, FALSE), NEW f, f = cs[Len(cs)], f.todo # <<>>,
         Head(f.todo).part = "restore"
  PROVE  \E q : InCalls(ss, R, q, [cs EXCEPT ![Len(cs)] = [f EXCEPT !.todo = Tail(@)]],
                        Resumed(g, f.this), FALSE)
<1> DEFINE L == Len(cs)
           k == pos[L]
           m == Goal(ss, pos, L)
           h == Resumed(g, f.this)
<1>1. k \in Nat /\ Doing(ss, R, f, g, k, m, FALSE)
  BY TopCall
<1>2. FrameOK(f) /\ f.todo \in Seq(Entry) /\ Played(ss, R, g, k, k) /\ m \in 0 .. Now(ss) /\ k \in 0 .. m
  BY <1>1 DEF Doing, FrameOK
<1>3. Head(f.todo) \in Entry
  BY <1>2, TodoSplit
<1>4. Head(f.todo).act = NoAct /\ NoAct \notin RealAct
  <2>1. Head(f.todo).act = NoAct
    BY <1>3 DEF Entry
  <2>2. NoAct \notin RealAct
    BY NotAnAct DEF Act
  <2>3. QED
    BY <2>1, <2>2
<1>5. Alike(h, g)
  <2>1. GameOK(g)
    BY <1>2 DEF Played
  <2>2. QED
    BY <2>1, SMTT(30) DEF Resumed, Alike, GameOK
<1>6. Played(ss, R, h, k, k) /\ h.list = g.list
  BY <1>2, <1>5, PlayedAlike DEF Alike
<1>7. After(f, Head(f.todo)) = [f EXCEPT !.todo = Tail(@)]
  BY DEF After
<1>8. /\ FrameOK(After(f, Head(f.todo)))
      /\ Real(Acts(After(f, Head(f.todo)).todo)) = Real(Acts(Tail(f.todo)))
  BY <1>2, AfterParts
<1>9. Doing(ss, R, After(f, Head(f.todo)), h, k, m, FALSE)
  BY <1>1, <1>4, <1>6, <1>8, DoingSame
<1>10. k = pos[Len(cs)] /\ k \in {k, k + 1} /\ k # k + 1
  BY <1>1
<1> HIDE DEF k, h
<1>11. \E q : InCalls(ss, R, q, [cs EXCEPT ![Len(cs)] = After(f, Head(f.todo))], h, FALSE)
  BY <1>4, <1>6, <1>9, <1>10, CallAdvances
<1>12. QED
  BY <1>7, <1>11 DEF h

\* An identification of a card that is not in hand has to wait.
LEMMA HandleWait ==
  ASSUME NEW ss, NEW R, SessionOK(ss), Course(ss, R), NEW pos, NEW cs, NEW g,
         InCalls(ss, R, pos, cs, g, FALSE), NEW f, f = cs[Len(cs)], f.todo # <<>>,
         Head(f.todo).part = "insert", Head(f.todo).act.type = "identify",
         ~InHand(g, Head(f.todo).act)
  PROVE  \E q : InCalls(ss, R, q,
                  [cs EXCEPT ![Len(cs)] = [f EXCEPT !.todo = Tail(@), !.ids = Append(@, Head(f.todo).act)]],
                  g, FALSE)
<1> DEFINE L == Len(cs)
           k == pos[L]
           m == Goal(ss, pos, L)
           n == [f EXCEPT !.todo = Tail(@), !.ids = Append(@, Head(f.todo).act)]
<1>1. /\ k \in Nat /\ Doing(ss, R, f, g, k, m, FALSE)
      /\ L # 1 => Rewinding(ss, R, f, g, k, m)
      /\ L = 1 => Called(ss, R, f, k, FALSE)
      /\ L # 1 => GameOK(f.this)
  BY TopCall
<1>2. f.todo \in Seq(Entry) /\ Played(ss, R, g, k, k)
  BY <1>1 DEF Doing, FrameOK
<1>3. L # 1
  <2>1. Len(f.todo) \in Nat \ {0} /\ Head(f.todo) = f.todo[1]
    BY <1>2, TodoSplit
  <2>2. 1 \in 1 .. Len(f.todo)
    BY <2>1
  <2>3. SUFFICES ASSUME L = 1 PROVE FALSE
    OBVIOUS
  <2>4. f.todo[1].part \in {"table", "nav"}
    BY <1>1, <2>2, <2>3 DEF Called, Navigating
  <2>5. QED
    BY <2>1, <2>4
<1>4. /\ FrameOK(n) /\ n.this = f.this /\ n.todo = Tail(f.todo)
      /\ Head(f.todo).act \notin RealAct
      /\ Rewinding(ss, R, n, g, k, m)
  BY <1>1, <1>3, RewindingWaits
<1>5. Real(Acts(n.todo)) = Real(Acts(Tail(f.todo)))
  BY <1>4
<1>6. k = pos[Len(cs)]
  OBVIOUS
<1> HIDE DEF n, k
<1>7. Doing(ss, R, n, g, k, Goal(ss, pos, Len(cs)), FALSE)
  BY <1>1, <1>2, <1>4, <1>5, DoingSame
<1>8. Len(cs) # 1 => n.this = cs[Len(cs)].this /\ Rewinding(ss, R, n, g, k, Goal(ss, pos, Len(cs)))
  BY <1>4
<1>9. Len(cs) = 1 => Called(ss, R, n, k, FALSE)
  BY <1>3
<1>10. InCalls(ss, R, [pos EXCEPT ![Len(cs)] = k], [cs EXCEPT ![Len(cs)] = n], g, FALSE)
  BY <1>1, <1>7, <1>8, <1>9, CallGoesOn
<1>11. QED
  BY <1>10 DEF n

\* No card that is drawn is in the hand already.
LEMMA DrawnAfresh ==
  ASSUME NEW ss, NEW R, SessionOK(ss), Course(ss, R), NEW f, NEW g, NEW k, NEW m,
         Doing(ss, R, f, g, k, m, FALSE), f.todo # <<>>, Head(f.todo).act.type = "draw"
  PROVE  ~InHand(g, Head(f.todo).act)
<1> DEFINE a == Head(f.todo).act
<1>2. f.todo \in Seq(Entry) /\ Played(ss, R, g, k, k)
  BY DEF Doing, FrameOK
<1>3. a \in DrawAct /\ a \in RealAct
  <2>1. a \in AnyAct
    BY <1>2, TodoSplit DEF Entry, AnyAct
  <2>2. QED
    BY <2>1, ActTypes DEF RealAct
<1>4. k \in 0 .. Now(ss) /\ k < Now(ss)
  BY <1>3, DoingNext
<1>5. k < m /\ Head(f.todo).act = ss.log[k + 1]
  BY <1>3, DoingNext
<1> HIDE DEF a
<1>6. k + 1 \in 1 .. Now(ss) /\ (k + 1) - 1 = k /\ R[k] \in St
  BY <1>4, RunsParts
<1>7. ss.log[k + 1].type = "draw"
  BY <1>3, <1>5 DEF DrawAct
<1>8. ss.log[k + 1].order = R[(k + 1) - 1].cardOrder + 1
  BY <1>6, <1>7, DrawnNext
<1>9. a.order = R[k].cardOrder + 1
  BY <1>5, <1>6, <1>8 DEF a
<1>10. a.order \in Orders /\ a.playerIndex \in Players
  BY <1>3 DEF DrawAct
<1>11. g.st.hands = R[k].hands
  BY <1>2, <1>4, PlayedParts
<1>12. SUFFICES ASSUME a.order \in R[k].hands[a.playerIndex] PROVE FALSE
  BY <1>11 DEF InHand, a
<1>13. a.order <= R[k].cardOrder
  BY <1>4, <1>10, <1>12, FreshOrder
<1>14. R[k].cardOrder \in Int
  <2>1. R[k].cardOrder \in Orders \cup {-1}
    BY <1>6, StParts
  <2>2. \A o \in Orders \cup {-1} : o \in Int
    BY Identities
  <2>3. QED
    BY <2>1, <2>2
<1>15. QED
  BY <1>9, <1>13, <1>14

\* No draw is skipped: the card of the next draw is not in a hand yet.
LEMMA NothingSkipped ==
  ASSUME NEW ss, NEW R, SessionOK(ss), Course(ss, R), NEW pos, NEW cs, NEW g,
         InCalls(ss, R, pos, cs, g, FALSE), NEW f, f = cs[Len(cs)], f.todo # <<>>,
         Head(f.todo).act.type = "draw"
  PROVE  ~InHand(g, Head(f.todo).act)
BY TopCall, DrawnAfresh

\* A call begins to interpret a move or a turn.
LEMMA DoingMove ==
  ASSUME NEW ss, NEW R, SessionOK(ss), Course(ss, R), NEW f, NEW g, NEW k, NEW m,
         Doing(ss, R, f, g, k, m, FALSE), f.todo # <<>>,
         NEW a, a = Head(f.todo).act, a.type \in Moves \cup {"turn"}, NEW h, h = Record(g, a)
  PROVE  Handled(ss, R, f, g, h, a, k, m, TRUE)
<1>1. f.todo \in Seq(Entry) /\ Played(ss, R, g, k, k) /\ FrameOK(f)
  BY DEF Doing, FrameOK
<1>2. a \in RealAct
  <2>1. a \in AnyAct
    BY <1>1, TodoSplit DEF Entry, AnyAct
  <2>2. QED
    BY <2>1, ActTypes DEF Specials, Moves
<1>3. k \in 0 .. Now(ss) /\ k < Now(ss) /\ k < m
  BY <1>2, DoingNext
<1>4. k < m /\ a = ss.log[k + 1] /\ f.todo[1].act = ss.log[k + 1]
  BY <1>2, DoingNext
<1>6. /\ Played(ss, R, h, k, k + 1)
      /\ Len(h.list) = h.st.turn_count + 1
      /\ a \in ToSet(h.list[Len(h.list)])
      /\ ToSet(FlattenSeq(h.list)) = ToSet(FlattenSeq(g.list)) \cup {a}
  <2> DEFINE r == Record(g, a)
  <2>1. r = Record(g, a) /\ r = h
    OBVIOUS
  <2>2. k < m /\ a = ss.log[k + 1]
    BY <1>4
  <2>3. Played(ss, R, g, k, k)
    BY <1>1
  <2>4. k \in 0 .. Now(ss) /\ k < Now(ss)
    BY <1>3
  <2> HIDE DEF r
  <2>5. /\ Played(ss, R, r, k, k + 1)
        /\ Len(r.list) = r.st.turn_count + 1
        /\ a \in ToSet(r.list[Len(r.list)])
        /\ ToSet(FlattenSeq(r.list)) = ToSet(FlattenSeq(g.list)) \cup {a}
    BY <2>1, <2>2, <2>3, <2>4, RecordReal
  <2>6. QED
    BY <2>1, <2>5
<1>7. ss.log[k + 1].type \in Moves \cup {"turn"} /\ ss.log[k + 1] \in ToSet(h.list[Len(h.list)])
  BY <1>4, <1>6
<1>8. Doing(ss, R, f, h, k, m, TRUE)
  BY <1>1, <1>3, <1>4, <1>6, <1>7 DEF Doing
<1>9. QED
  BY <1>4, <1>6, <1>8 DEF Handled

\* A draw or the end of the game is handled at once.
LEMMA DoingAtOnce ==
  ASSUME NEW ss, NEW R, SessionOK(ss), Course(ss, R), NEW f, NEW g, NEW k, NEW m,
         Doing(ss, R, f, g, k, m, FALSE), f.todo # <<>>,
         NEW a \in RealAct, a = Head(f.todo).act, NEW h, h = Effect(Record(g, a), a)
  PROVE  Handled(ss, R, After(f, Head(f.todo)), g, h, a, k + 1, m, FALSE)
<1> DEFINE r == Record(g, a)
<1>1. Played(ss, R, g, k, k)
  BY DEF Doing
<1>2. k \in 0 .. Now(ss) /\ k < Now(ss)
  BY DoingNext
<1>3. k < m /\ a = ss.log[k + 1]
  BY DoingNext
<1>4. a \in Act /\ r = Record(g, a) /\ h = Effect(r, a)
  BY DEF Act
<1> HIDE DEF r
<1>5. /\ Played(ss, R, r, k, k + 1)
      /\ Len(r.list) = r.st.turn_count + 1
      /\ a \in ToSet(r.list[Len(r.list)])
      /\ ToSet(FlattenSeq(r.list)) = ToSet(FlattenSeq(g.list)) \cup {a}
  BY <1>1, <1>2, <1>3, <1>4, RecordReal
<1>6. GameOK(r) /\ Follows(r.st, R[k])
  BY <1>5 DEF Played
<1>7. GameOK(h) /\ h.list = r.list /\ (a.type # "gameOver" => h.inProgress = r.inProgress)
  <2>1. /\ GameOK(Effect(r, a)) /\ Effect(r, a).list = r.list
        /\ a.type # "gameOver" => Effect(r, a).inProgress = r.inProgress
    BY <1>4, <1>6, EffectParts
  <2>2. QED
    BY <1>4, <2>1
<1>8. Follows(h.st, R[k + 1])
  <2>1. R[k] \in St /\ R[k + 1] = StepOf(R[k], ss.log[k + 1])
    BY <1>2, RunsParts
  <2>2. Follows(h.st, StepOf(R[k], a))
    BY <1>4, <1>6, <2>1, EffectFollows
  <2>3. QED
    BY <1>3, <2>1, <2>2
<1>9. /\ ss.log[k + 1].type # "gameOver" => h.inProgress = r.inProgress
      /\ ss.log[k + 1] \in ToSet(r.list[Len(r.list)])
  BY <1>3, <1>5, <1>7
<1>10. Played(ss, R, h, k + 1, k + 1)
  BY <1>2, <1>5, <1>7, <1>8, <1>9, Advanced
<1>11. Doing(ss, R, After(f, Head(f.todo)), h, k + 1, m, FALSE)
  BY <1>10, DoingAdvanced
<1>12. QED
  BY <1>3, <1>5, <1>7, <1>11 DEF Handled

\* What a rewind inserts is recorded and has its effect.
LEMMA DoingSpecial ==
  ASSUME NEW ss, NEW R, SessionOK(ss), Course(ss, R), NEW f, NEW g, NEW k, NEW m,
         Doing(ss, R, f, g, k, m, FALSE), f.todo # <<>>,
         NEW a \in SpecialAct, a = Head(f.todo).act, NEW h, h = Effect(Record(g, a), a)
  PROVE  Handled(ss, R, After(f, Head(f.todo)), g, h, a, k, m, FALSE)
<1>1. Played(ss, R, g, k, k) /\ FrameOK(f) /\ k \in 0 .. m /\ m \in 0 .. Now(ss)
  BY DEF Doing
<1>2. k \in 0 .. Now(ss)
  <2>1. Now(ss) \in Nat
    BY RunsParts
  <2>2. QED
    BY <1>1, <2>1
<1>3. Played(ss, R, h, k, k) /\ ToSet(FlattenSeq(h.list)) = ToSet(FlattenSeq(g.list)) \cup {a}
  BY <1>1, <1>2, RecordSpecial
<1>4. a \notin RealAct
  <2>1. a \in AnyAct
    BY DEF AnyAct, Act
  <2>2. QED
    BY <2>1, ActTypes
<1>5. /\ FrameOK(After(f, Head(f.todo)))
      /\ Real(Acts(After(f, Head(f.todo)).todo)) = Real(Acts(Tail(f.todo)))
  BY <1>1, AfterParts
<1>6. Doing(ss, R, After(f, Head(f.todo)), h, k, m, FALSE)
  BY <1>3, <1>4, <1>5, DoingSame
<1>7. QED
  BY <1>3, <1>6 DEF Handled

\* A move or a turn is recorded, and its interpretation begins.
LEMMA HandleMove ==
  ASSUME NEW ss, NEW R, SessionOK(ss), Course(ss, R), NEW pos, NEW cs, NEW g,
         InCalls(ss, R, pos, cs, g, FALSE), NEW f, f = cs[Len(cs)], f.todo # <<>>,
         NEW a, a = Head(f.todo).act, a.type \in Moves \cup {"turn"}, NEW h, h = Record(g, a),
         Len(cs) = 1 /\ f.kind = "nav" => ~(g.st.turn_count >= f.act)
  PROVE  InCalls(ss, R, pos, cs, h, TRUE)
<1> DEFINE L == Len(cs)
           k == pos[L]
           m == Goal(ss, pos, L)
<1>1. /\ L \in Nat \ {0} /\ k \in Nat /\ Doing(ss, R, f, g, k, m, FALSE)
      /\ L # 1 => Rewinding(ss, R, f, g, k, m)
      /\ L = 1 => Called(ss, R, f, k, FALSE)
  BY TopCall
<1>2. pos \in [1 .. L -> Nat] /\ cs = [n \in 1 .. L |-> cs[n]]
  BY DEF InCalls
<1> HIDE DEF m
<1>3. /\ Doing(ss, R, f, h, k, m, TRUE)
      /\ ToSet(FlattenSeq(g.list)) \subseteq ToSet(FlattenSeq(h.list))
  <2> HIDE DEF k
  <2>1. Handled(ss, R, f, g, h, a, k, m, TRUE)
    BY <1>1, DoingMove
  <2>2. QED
    BY <2>1 DEF Handled
<1>5. ASSUME L # 1 PROVE Rewinding(ss, R, f, h, k, m)
  <2>1. Rewinding(ss, R, f, g, k, m)
    BY <1>1, <1>5
  <2>2. Kept(f, h)
    BY <1>3, <2>1 DEF Rewinding, Kept
  <2>3. QED
    BY <2>1, <2>2 DEF Rewinding
<1>6. ASSUME L = 1 PROVE Called(ss, R, f, k, TRUE)
  <2>1. Called(ss, R, f, k, FALSE)
    BY <1>1, <1>6
  <2>2. ASSUME Navigating(ss, R, f, k, FALSE) PROVE Navigating(ss, R, f, k, TRUE)
    <3>1. f.kind = "nav" /\ f.act \in Nat
      BY <2>2 DEF Navigating
    <3>2. Played(ss, R, g, k, k) /\ k \in 0 .. Now(ss)
      <4>1. m \in 0 .. Now(ss) /\ k \in 0 .. m /\ Now(ss) \in Nat
        BY <1>1, RunsParts DEF Doing
      <4>2. QED
        BY <1>1, <4>1 DEF Doing
    <3>3. g.st.turn_count = R[k].turn_count /\ g.st.turn_count \in Nat
      BY <3>2, PlayedParts
    <3>4. R[k].turn_count < f.act
      BY <1>6, <3>1, <3>3
    <3>5. QED
      BY <2>2, <3>4 DEF Navigating
  <2>3. QED
    BY <2>1, <2>2 DEF Called
<1>7. k = pos[Len(cs)] /\ f.this = cs[Len(cs)].this /\ k \in Nat
  BY <1>1
<1> HIDE DEF k
<1>8. Doing(ss, R, f, h, k, Goal(ss, pos, Len(cs)), TRUE)
  BY <1>3 DEF m
<1>9. Len(cs) # 1 => f.this = cs[Len(cs)].this /\ Rewinding(ss, R, f, h, k, Goal(ss, pos, Len(cs)))
  BY <1>5, <1>7 DEF m
<1>10. Len(cs) = 1 => Called(ss, R, f, k, TRUE)
  BY <1>6
<1>11. InCalls(ss, R, [pos EXCEPT ![Len(cs)] = k], [cs EXCEPT ![Len(cs)] = f], h, TRUE)
  BY <1>7, <1>8, <1>9, <1>10, CallGoesOn
<1>12. [pos EXCEPT ![Len(cs)] = k] = pos /\ [cs EXCEPT ![Len(cs)] = f] = cs
  BY <1>2, <1>7
<1>13. QED
  BY <1>11, <1>12

\* A draw, the end of the game or an insertion is handled.
LEMMA HandleOther ==
  ASSUME NEW ss, NEW R, SessionOK(ss), Course(ss, R), NEW pos, NEW cs, NEW g,
         InCalls(ss, R, pos, cs, g, FALSE), NEW f, f = cs[Len(cs)], f.todo # <<>>,
         NEW a \in Act, a = Head(f.todo).act, NEW h, h = Effect(Record(g, a), a),
         Len(cs) = 1 /\ f.kind = "nav" => ~(g.st.turn_count >= f.act)
  PROVE  \E q : InCalls(ss, R, q, [cs EXCEPT ![Len(cs)] = After(f, Head(f.todo))], h, FALSE)
<1> DEFINE k == pos[Len(cs)]
           m == Goal(ss, pos, Len(cs))
<1>1. /\ Len(cs) \in Nat \ {0} /\ k \in Nat /\ Doing(ss, R, f, g, k, m, FALSE)
      /\ Len(cs) # 1 => Rewinding(ss, R, f, g, k, m)
      /\ Len(cs) = 1 => Called(ss, R, f, k, FALSE)
  BY TopCall
<1>2. Played(ss, R, g, k, k) /\ k \in 0 .. Now(ss)
  <2>1. m \in 0 .. Now(ss) /\ k \in 0 .. m /\ Now(ss) \in Nat
    BY <1>1, RunsParts DEF Doing
  <2>2. QED
    BY <1>1, <2>1 DEF Doing
<1>3. f.kind = "nav" => R[k].turn_count < f.act
  <2>1. SUFFICES ASSUME f.kind = "nav" PROVE R[k].turn_count < f.act
    OBVIOUS
  <2>2. Len(cs) = 1
    BY <1>1, <2>1 DEF Rewinding
  <2>3. f.act \in Nat
    BY <1>1, <2>1, <2>2 DEF Called, Navigating
  <2>4. g.st.turn_count = R[k].turn_count /\ g.st.turn_count \in Nat
    BY <1>2, PlayedParts, SMTT(30)
  <2>5. QED
    BY <2>1, <2>2, <2>3, <2>4
<1>4. k = pos[Len(cs)] /\ k \in {k, k + 1} /\ k + 1 \in {k, k + 1} /\ k # k + 1
  BY <1>1, SMTT(30)
<1> HIDE DEF k, m
<1>5. CASE a \in RealAct
  <2>1. /\ Doing(ss, R, After(f, Head(f.todo)), h, k + 1, m, FALSE)
        /\ ToSet(FlattenSeq(g.list)) \subseteq ToSet(FlattenSeq(h.list))
        /\ a \in ToSet(FlattenSeq(h.list))
    <3>1. Handled(ss, R, After(f, Head(f.todo)), g, h, a, k + 1, m, FALSE)
      BY <1>1, <1>5, DoingAtOnce, ZenonT(60)
    <3>2. QED
      BY <3>1 DEF Handled
  <2>2. /\ ToSet(FlattenSeq(g.list)) \subseteq ToSet(FlattenSeq(h.list))
        /\ Head(f.todo).act \in ToSet(FlattenSeq(h.list))
    BY <2>1, SMTT(30)
  <2>3. QED
    BY <1>3, <1>4, <2>1, <2>2, CallAdvances DEF m
<1>6. CASE a \in SpecialAct
  <2>1. /\ a \notin RealAct
        /\ Doing(ss, R, After(f, Head(f.todo)), h, k, m, FALSE)
        /\ ToSet(FlattenSeq(g.list)) \subseteq ToSet(FlattenSeq(h.list))
        /\ a \in ToSet(FlattenSeq(h.list))
    <3>1. Handled(ss, R, After(f, Head(f.todo)), g, h, a, k, m, FALSE)
      BY <1>1, <1>6, DoingSpecial
    <3>2. a \in AnyAct
      BY DEF AnyAct
    <3>3. a \notin RealAct
      BY <1>6, <3>2, ActTypes, SMTT(30)
    <3>4. QED
      BY <3>1, <3>3 DEF Handled
  <2>2. /\ ToSet(FlattenSeq(g.list)) \subseteq ToSet(FlattenSeq(h.list))
        /\ Head(f.todo).act \in ToSet(FlattenSeq(h.list))
    BY <2>1
  <2>3. QED
    BY <1>4, <2>1, <2>2, CallAdvances DEF m
<1>7. QED
  BY <1>5, <1>6 DEF Act

\* The next entry of the innermost call is handled.
LEMMA HandleKeeps ==
  ASSUME NEW R, NEW pos, Alive(session, R, pos, stack, game, pc),
         Handle, ~(Len(stack) = 1 /\ Top.kind = "nav" /\ Arrived)
  PROVE  \E q : Alive(session', R, q, stack', game', pc')
<1> DEFINE e == Head(Top.todo)
<1>1. pc = "handle" /\ Top.todo # <<>> /\ session' = session
  BY DEF Handle
<1>2. /\ SessionOK(session) /\ Course(session, R)
      /\ InCalls(session, R, pos, stack, game, FALSE)
  BY <1>1 DEF Alive
<1>3. SUFFICES \E q : \/ pc' = "handle" /\ InCalls(session, R, q, stack', game', FALSE)
                      \/ pc' = "interpret" /\ InCalls(session, R, q, stack', game', TRUE)
  BY <1>1, <1>2 DEF Alive
<1>4. e \in Entry
  <2>1. Top.todo \in Seq(Entry)
    BY <1>2, TopCall DEF Doing, FrameOK, Top
  <2>2. QED
    BY <1>1, <2>1, TodoSplit
<1>5. Len(stack) = 1 /\ Top.kind = "nav" => ~(game.st.turn_count >= Top.act)
  BY DEF Arrived
<1>6. CASE e.part = "restore"
  <2>1. game' = Resumed(game, Top.this) /\ stack' = SetTop([Top EXCEPT !.todo = Tail(@)]) /\ pc' = pc
    <3>1. e.act.type \notin Moves \cup {"turn"}
      BY <1>4, <1>6 DEF Entry, NoAct, Moves
    <3>2. ~Waits(e) /\ ~Skipped(e)
      BY <1>6 DEF Waits, Skipped
    <3>3. QED
      BY <1>6, <3>1, <3>2 DEF Handle
  <2>2. \E q : InCalls(session, R, q, stack', game', FALSE)
    BY <1>1, <1>2, <1>6, <2>1, HandleRestore DEF Top, SetTop
  <2>3. QED
    BY <1>1, <2>1, <2>2
<1>7. CASE e.part # "restore" /\ Waits(e)
  <2>1. game' = game /\ stack' = SetTop([Top EXCEPT !.todo = Tail(@), !.ids = Append(@, e.act)]) /\ pc' = pc
    <3>1. e.act.type \notin Moves \cup {"turn"}
      BY <1>7 DEF Waits, Moves
    <3>2. ~Skipped(e)
      BY <1>7, SMTT(30) DEF Waits, Skipped
    <3>3. QED
      BY <1>7, <3>1, <3>2 DEF Handle
  <2>2. \E q : InCalls(session, R, q, stack', game', FALSE)
    BY <1>1, <1>2, <1>7, <2>1, HandleWait DEF Top, SetTop, Waits
  <2>3. QED
    BY <1>1, <2>1, <2>2
<1>8. CASE e.part # "restore" /\ ~Waits(e)
  <2>1. ~Skipped(e)
    BY <1>1, <1>2, NothingSkipped DEF Skipped, Top
  <2>2. CASE e.act.type \in Moves \cup {"turn"}
    <3>1. game' = Record(game, e.act) /\ pc' = "interpret" /\ stack' = stack
      BY <1>8, <2>1, <2>2 DEF Handle
    <3>2. InCalls(session, R, pos, stack, game', TRUE)
      BY <1>1, <1>2, <1>5, <2>2, <3>1, HandleMove DEF Top
    <3>3. QED
      BY <3>1, <3>2
  <2>3. CASE e.act.type \notin Moves \cup {"turn"}
    <3>1. game' = Effect(Record(game, e.act), e.act) /\ stack' = SetTop(After(Top, e)) /\ pc' = pc
      BY <1>8, <2>1, <2>3 DEF Handle
    <3>2. e.act \in Act
      BY <1>4, <1>8 DEF Entry
    <3>3. \E q : InCalls(session, R, q, stack', game', FALSE)
      BY <1>1, <1>2, <1>5, <3>1, <3>2, HandleOther DEF Top, SetTop
    <3>4. QED
      BY <1>1, <3>1, <3>3
  <2>4. QED
    BY <2>2, <2>3
<1>9. QED
  BY <1>6, <1>7, <1>8

\* The interpretation of the innermost call has ended with the game h.
LEMMA CallDone ==
  ASSUME NEW ss, NEW R, SessionOK(ss), Course(ss, R), NEW pos, NEW cs, NEW g,
         InCalls(ss, R, pos, cs, g, TRUE), NEW f, f = cs[Len(cs)], NEW k, k = pos[Len(cs)], NEW h,
         Handled(ss, R, After(f, Head(f.todo)), g, h, Head(f.todo).act, k + 1,
                 Goal(ss, pos, Len(cs)), FALSE)
  PROVE  \E q : InCalls(ss, R, q, [cs EXCEPT ![Len(cs)] = After(f, Head(f.todo))], h, FALSE)
<1> DEFINE m == Goal(ss, pos, Len(cs))
<1>1. /\ Len(cs) \in Nat \ {0} /\ k \in Nat /\ Doing(ss, R, f, g, k, m, TRUE)
      /\ Len(cs) # 1 => Rewinding(ss, R, f, g, k, m)
      /\ Len(cs) = 1 => Called(ss, R, f, k, TRUE)
  BY TopCall
<1>2. f.kind = "nav" => R[k].turn_count < f.act
  <2>1. SUFFICES ASSUME f.kind = "nav" PROVE R[k].turn_count < f.act
    OBVIOUS
  <2>2. Len(cs) = 1
    BY <1>1, <2>1 DEF Rewinding
  <2>3. QED
    BY <1>1, <2>1, <2>2 DEF Called, Navigating
<1>3. f.todo # <<>> /\ k + 1 \in {k, k + 1}
  BY <1>1, DoingBusy
<1>4. /\ Doing(ss, R, After(f, Head(f.todo)), h, k + 1, Goal(ss, pos, Len(cs)), FALSE)
      /\ ToSet(FlattenSeq(g.list)) \subseteq ToSet(FlattenSeq(h.list))
      /\ Head(f.todo).act \in ToSet(FlattenSeq(h.list))
  BY DEF Handled
<1> HIDE DEF m
<1>5. QED
  BY <1>2, <1>3, <1>4, CallAdvances

\* The interpretation is content.
LEMMA CompleteKeeps ==
  ASSUME NEW R, NEW pos, Alive(session, R, pos, stack, game, pc), Complete
  PROVE  \E q : Alive(session', R, q, stack', game', pc')
<1> DEFINE e == Head(Top.todo)
<1>1. /\ pc = "interpret" /\ pc' = "handle" /\ session' = session
      /\ stack' = SetTop(After(Top, e))
  BY DEF Complete
<1>1a. PICK x \in Readings(Effect(game, e.act), e.act) : game' = Settled(x, e.act)
  BY DEF Complete
<1>2. /\ SessionOK(session) /\ Course(session, R)
      /\ InCalls(session, R, pos, stack, game, TRUE)
  BY <1>1 DEF Alive
<1>3. SUFFICES \E q : InCalls(session, R, q, stack', game', FALSE)
  BY <1>1, <1>2 DEF Alive
<1>4. Doing(session, R, Top, game, pos[Len(stack)], Goal(session, pos, Len(stack)), TRUE)
  BY <1>2, TopCall DEF Top
<1>5. Handled(session, R, After(Top, Head(Top.todo)), game, game', Head(Top.todo).act,
              pos[Len(stack)] + 1, Goal(session, pos, Len(stack)), FALSE)
  BY <1>1a, <1>2, <1>4, DoneWith
<1>6. QED
  BY <1>1, <1>2, <1>5, CallDone DEF Top, SetTop

\* A call with nothing left to do is where it had to go.
LEMMA NothingLeft ==
  ASSUME NEW ss, NEW R, SessionOK(ss), Course(ss, R), NEW f, NEW g, NEW k, NEW m,
         Doing(ss, R, f, g, k, m, FALSE), f.todo = <<>>
  PROVE  k = m /\ Played(ss, R, g, m, m) /\ m \in 0 .. Now(ss)
<1>1. f.todo \in Seq(Entry) /\ Played(ss, R, g, k, k) /\ k \in 0 .. m /\ m \in 0 .. Now(ss)
      /\ Real(Acts(f.todo)) = SubSeq(ss.log, k + 1, m)
  BY DEF Doing, FrameOK
<1>2. Len(f.todo) = 0 /\ Acts(f.todo) = <<>>
  <2>1. Len(f.todo) = 0
    OBVIOUS
  <2>2. Acts(f.todo) \in Seq(AnyAct) /\ Len(Acts(f.todo)) = 0
    BY <1>1, <2>1, ActsParts
  <2>3. QED
    BY <2>1, <2>2, EmptySeq
<1>3. k = m
  <2>1. Now(ss) \in Nat /\ ss.log \in Seq(RealAct) /\ Now(ss) = Len(ss.log)
    BY RunsParts
  <2>2. k \in Nat /\ m \in Nat /\ k <= m /\ m <= Len(ss.log)
    BY <1>1, <2>1
  <2>3. Len(SubSeq(ss.log, k + 1, m)) = m - k
    BY <2>1, <2>2, PartOf
  <2>4. Real(Acts(f.todo)) = <<>>
    BY <1>2, RealType
  <2>5. m - k = 0
    BY <1>1, <2>3, <2>4
  <2>6. QED
    BY <2>2, <2>5
<1>4. QED
  BY <1>1, <1>3

\* A call of rewind with nothing left to do has brought its game to where the
\* caller is, and has lost nothing that was in the list or was to be inserted.
LEMMA RewindDone ==
  ASSUME NEW ss, NEW R, SessionOK(ss), Course(ss, R), NEW f, NEW g, NEW k, NEW m,
         Doing(ss, R, f, g, k, m, FALSE), Rewinding(ss, R, f, g, k, m), f.todo = <<>>
  PROVE  /\ Played(ss, R, g, m, m)
         /\ ToSet(FlattenSeq(f.this.list)) \cup ToSet(f.act) \subseteq ToSet(FlattenSeq(g.list))
<1>1. Len(f.todo) = 0
  OBVIOUS
<1>2. Acts(f.todo) = <<>>
  <2>1. f.todo \in Seq(Entry)
    BY DEF Doing, FrameOK
  <2>2. Acts(f.todo) \in Seq(AnyAct) /\ Len(Acts(f.todo)) = 0
    BY <1>1, <2>1, ActsParts
  <2>3. QED
    BY <2>2, EmptySeq
<1>3. k = m /\ Played(ss, R, g, m, m)
  BY NothingLeft
<1>4. f.ids = <<>>
  BY <1>1 DEF Rewinding, Waiting, Comes
<1>5. ToSet(Acts(f.todo)) = {} /\ ToSet(f.ids) = {}
  BY <1>2, <1>4 DEF ToSet
<1>6. QED
  BY <1>3, <1>5 DEF Rewinding, Kept

\* A call of rewind returns, and its caller makes the new game h its result.
LEMMA CallReturned ==
  ASSUME NEW ss, NEW R, SessionOK(ss), Course(ss, R), NEW pos, NEW cs, NEW g,
         InCalls(ss, R, pos, cs, g, FALSE), Len(cs) # 1, cs[Len(cs)].todo = <<>>,
         NEW h, Alike(h, g), NEW f, f = cs[Len(cs) - 1]
  PROVE  \E q : InCalls(ss, R, q, Append(SubSeq(cs, 1, Len(cs) - 2), After(f, Head(f.todo))), h, FALSE)
<1> DEFINE L == Len(cs)
           top == cs[L]
           this == top.this
           c == SubSeq(cs, 1, L - 1)
           p == [n \in 1 .. L - 1 |-> pos[n]]
           k == p[Len(c)]
           m == Goal(ss, p, Len(c))
<1>1. /\ L \in Nat \ {0} /\ cs = [n \in 1 .. L |-> cs[n]]
      /\ Doing(ss, R, top, g, pos[L], Goal(ss, pos, L), FALSE)
      /\ Rewinding(ss, R, top, g, pos[L], Goal(ss, pos, L))
  BY TopCall DEF InCalls
<1>2. InCalls(ss, R, p, c, this, TRUE)
  BY CallReturns
<1>3. /\ Len(c) = L - 1 /\ c[L - 1] = f
      /\ Append(SubSeq(cs, 1, L - 2), After(f, Head(f.todo))) = [c EXCEPT ![Len(c)] = After(f, Head(f.todo))]
  <2>1. /\ Len(c) = L - 1 /\ \A n \in 1 .. L - 1 : c[n] = cs[n]
        /\ Append(SubSeq(cs, 1, L - 2), After(f, Head(f.todo))) = [c EXCEPT ![Len(c)] = After(f, Head(f.todo))]
    BY <1>1, StackParts
  <2>2. L - 1 \in 1 .. L - 1
    BY <1>1
  <2>3. c[L - 1] = f
    BY <2>1, <2>2
  <2>4. QED
    BY <2>1, <2>3
<1>4. Goal(ss, pos, L) = k + 1
  <2>1. L - 1 \in 1 .. L - 1
    BY <1>1
  <2>2. k = pos[L - 1]
    BY <1>3, <2>1
  <2>3. QED
    BY <2>2 DEF Goal
<1>5. /\ Played(ss, R, g, k + 1, k + 1)
      /\ ToSet(FlattenSeq(this.list)) \cup ToSet(top.act) \subseteq ToSet(FlattenSeq(g.list))
  <2>1. /\ Played(ss, R, g, Goal(ss, pos, L), Goal(ss, pos, L))
        /\ ToSet(FlattenSeq(this.list)) \cup ToSet(top.act) \subseteq ToSet(FlattenSeq(g.list))
    BY <1>1, RewindDone
  <2>2. QED
    BY <1>4, <2>1
<1>6. Played(ss, R, h, k + 1, k + 1) /\ h.list = g.list
  BY <1>5, PlayedAlike DEF Alike
<1>7. f = c[Len(c)] /\ k = p[Len(c)] /\ m = Goal(ss, p, Len(c))
  BY <1>3
<1>8. Doing(ss, R, f, this, k, m, TRUE)
  BY <1>2, <1>7, TopCall
<1> HIDE DEF p, c, k, m, this, top
<1>9. f.todo # <<>> /\ Head(f.todo).act \in RealAct
  BY <1>8, DoingBusy
<1>10. Head(f.todo).act \in ToSet(FlattenSeq(this.list))
  BY <1>8, DoingBusy
<1>11. Doing(ss, R, After(f, Head(f.todo)), h, k + 1, m, FALSE)
  BY <1>6, <1>8, <1>9, DoingAdvanced
<1>12. Handled(ss, R, After(f, Head(f.todo)), this, h, Head(f.todo).act, k + 1, Goal(ss, p, Len(c)), FALSE)
  BY <1>5, <1>6, <1>7, <1>10, <1>11 DEF Handled
<1>13. \E q : InCalls(ss, R, q, [c EXCEPT ![Len(c)] = After(f, Head(f.todo))], h, FALSE)
  BY <1>2, <1>7, <1>12, CallDone
<1>14. QED
  BY <1>3, <1>13

\* A rewind is done.
LEMMA ReturnKeeps ==
  ASSUME NEW R, NEW pos, Alive(session, R, pos, stack, game, pc), Return
  PROVE  \E q : Alive(session', R, q, stack', game', pc')
<1> DEFINE f == stack[Len(stack) - 1]
           g == Returned(Top.kind, Restore(game, Top.this), Top.this)
<1>1. pc = "handle" /\ Len(stack) > 1 /\ Top.todo = <<>> /\ session' = session
  BY DEF Return
<1>2. /\ SessionOK(session) /\ Course(session, R)
      /\ InCalls(session, R, pos, stack, game, FALSE)
  BY <1>1 DEF Alive
<1>3. Len(stack) # 1 /\ GameOK(Top.this)
  <2>1. Len(stack) \in Nat \ {0}
    BY <1>2, TopCall
  <2>2. Len(stack) # 1
    <3>1. Len(stack) > 1
      BY <1>1
    <3>2. \A n \in Nat : n > 1 => n # 1
      OBVIOUS
    <3>3. QED
      BY <2>1, <3>1, <3>2
  <2>3. QED
    BY <1>2, <2>2, TopCall DEF Top
<1>4. GameOK(game)
  BY <1>2, TopCall DEF Doing, Played
<1>5. CASE Top.kind = "fix"
  <2>1. game' = g /\ stack' = Pop /\ pc' = "interpret"
    BY <1>5 DEF Return
  <2>2. Alike(g, Top.this)
    BY <1>3, <1>4, <1>5, ReturnedParts
  <2>3. InCalls(session, R, [n \in 1 .. Len(stack) - 1 |-> pos[n]], SubSeq(stack, 1, Len(stack) - 1),
                Top.this, TRUE)
    BY <1>2, <1>3, CallReturns DEF Top
  <2> HIDE DEF g
  <2>4. InCalls(session, R, [n \in 1 .. Len(stack) - 1 |-> pos[n]], SubSeq(stack, 1, Len(stack) - 1),
                g, TRUE)
    BY <1>2, <2>2, <2>3, CallAlike
  <2>5. QED
    BY <1>1, <1>2, <2>1, <2>4 DEF Alive, Pop
<1>6. CASE Top.kind # "fix"
  <2> DEFINE h == Settled(g, Head(f.todo).act)
  <2>1. /\ game' = h /\ pc' = "handle"
        /\ stack' = Append(SubSeq(stack, 1, Len(stack) - 2), After(f, Head(f.todo)))
    BY <1>6 DEF Return
  <2>2. Alike(g, game)
    BY <1>3, <1>4, <1>6, ReturnedParts
  <2> HIDE DEF g
  <2>3. Alike(h, g)
    BY <2>2, SettledParts DEF Alike
  <2> HIDE DEF h, f
  <2>4. Alike(h, game)
    BY <2>2, <2>3 DEF Alike
  <2>5. \E q : InCalls(session, R, q, Append(SubSeq(stack, 1, Len(stack) - 2), After(f, Head(f.todo))), h, FALSE)
    BY <1>1, <1>2, <1>3, <2>4, CallReturned DEF Top, f
  <2>6. QED
    BY <1>1, <1>2, <2>1, <2>5 DEF Alive
<1>7. QED
  BY <1>5, <1>6

-----------------------------------------------------------------------------
(* What the requests and the catching up of a session do not change *)

SameSession(tt, ss) ==
  /\ tt.log = ss.log /\ tt.table = ss.table /\ tt.phase = ss.phase /\ tt.moves = ss.moves
  /\ tt.live = ss.live /\ tt.made = ss.made /\ tt.shown = ss.shown /\ tt.begun = ss.begun

\* The course of the game, but for what comes next.
LEMMA SameCourse ==
  ASSUME NEW ss, NEW tt, NEW R, Course(ss, R), Ahead(tt),
         tt.log = ss.log, tt.table = ss.table, tt.phase = ss.phase, tt.begun = ss.begun
  PROVE  Course(tt, R)
<1>1. Now(tt) = Now(ss)
  BY DEF Now
<1>2. tt.log = ss.log /\ tt.table = ss.table /\ tt.phase = ss.phase /\ tt.begun = ss.begun
  OBVIOUS
<1>3. Runs(tt, R)
  BY <1>1, <1>2 DEF Course, Runs
<1>4. Truth(tt, R) /\ Onward(tt, R)
  BY <1>1 DEF Course, Truth, Onward
<1>5. Orderly(tt, R)
  BY <1>1, <1>2 DEF Course, Orderly
<1>6. Held(tt, R)
  BY <1>1, <1>2 DEF Course, Held
<1>7. Began(tt, R)
  BY <1>1, <1>2 DEF Course, Began
<1>8. QED
  BY <1>3, <1>4, <1>5, <1>6, <1>7 DEF Course

\* How far a game was played.
LEMMA SamePlayed ==
  ASSUME NEW ss, NEW tt, NEW R, SameSession(tt, ss), NEW g, NEW k, NEW n, Played(ss, R, g, k, n)
  PROVE  Played(tt, R, g, k, n)
BY DEF SameSession, Played, Filed

\* Where a call is, and where it has to go.
LEMMA SameDoing ==
  ASSUME NEW ss, NEW tt, NEW R, SameSession(tt, ss),
         NEW f, NEW g, NEW k, NEW m, NEW busy, Doing(ss, R, f, g, k, m, busy)
  PROVE  Doing(tt, R, f, g, k, m, busy)
<1>1. Now(tt) = Now(ss) /\ tt.log = ss.log
  BY DEF SameSession, Now
<1>2. Played(tt, R, g, k, IF busy THEN k + 1 ELSE k)
  BY SamePlayed DEF Doing
<1>3. QED
  BY <1>1, <1>2 DEF Doing

\* A call of rewind.
LEMMA SameRewinding ==
  ASSUME NEW ss, NEW tt, NEW R, SameSession(tt, ss),
         NEW f, NEW g, NEW k, NEW m, Rewinding(ss, R, f, g, k, m)
  PROVE  Rewinding(tt, R, f, g, k, m)
<1>1. Insertable(tt, R, f.todo, k, m)
  BY DEF SameSession, Rewinding, Insertable
<1>2. QED
  BY <1>1 DEF Rewinding

\* A call from outside.
LEMMA SameCalled ==
  ASSUME NEW ss, NEW tt, NEW R, SameSession(tt, ss),
         NEW f, NEW k, NEW busy, Called(ss, R, f, k, busy)
  PROVE  Called(tt, R, f, k, busy)
BY DEF SameSession, Called, Navigating

\* The calls in progress.
LEMMA SameCalls ==
  ASSUME NEW ss, NEW tt, NEW R, SameSession(tt, ss),
         NEW pos, NEW cs, NEW g, NEW busy, InCalls(ss, R, pos, cs, g, busy)
  PROVE  InCalls(tt, R, pos, cs, g, busy)
<1>1. Now(tt) = Now(ss)
  BY DEF SameSession, Now
<1>2. ASSUME NEW n PROVE Goal(tt, pos, n) = Goal(ss, pos, n)
  BY <1>1 DEF Goal
<1>3. ASSUME NEW n \in 1 .. Len(cs)
      PROVE  Doing(tt, R, cs[n], GameOf(cs, g, n), pos[n], Goal(tt, pos, n), n < Len(cs) \/ busy)
  <2>1. Doing(ss, R, cs[n], GameOf(cs, g, n), pos[n], Goal(ss, pos, n), n < Len(cs) \/ busy)
    BY DEF InCalls
  <2> DEFINE b == n < Len(cs) \/ busy
  <2>2. Doing(ss, R, cs[n], GameOf(cs, g, n), pos[n], Goal(ss, pos, n), b)
    BY <2>1
  <2> HIDE DEF b
  <2>3. Doing(tt, R, cs[n], GameOf(cs, g, n), pos[n], Goal(ss, pos, n), b)
    BY <2>2, SameDoing
  <2>4. Doing(tt, R, cs[n], GameOf(cs, g, n), pos[n], Goal(tt, pos, n), b)
    BY <1>2, <2>3
  <2>5. QED
    BY <2>4 DEF b
<1>4. ASSUME NEW n \in 2 .. Len(cs)
      PROVE  Rewinding(tt, R, cs[n], GameOf(cs, g, n), pos[n], Goal(tt, pos, n))
  <2>1. Rewinding(ss, R, cs[n], GameOf(cs, g, n), pos[n], Goal(ss, pos, n))
    BY DEF InCalls
  <2>2. Rewinding(tt, R, cs[n], GameOf(cs, g, n), pos[n], Goal(ss, pos, n))
    BY <2>1, SameRewinding
  <2>3. QED
    BY <1>2, <2>2
<1>5. Called(tt, R, cs[1], pos[1], 1 < Len(cs) \/ busy)
  <2> DEFINE b == 1 < Len(cs) \/ busy
  <2>1. Called(ss, R, cs[1], pos[1], b)
    BY DEF InCalls
  <2> HIDE DEF b
  <2>2. Called(tt, R, cs[1], pos[1], b)
    BY <2>1, SameCalled
  <2>3. QED
    BY <2>2 DEF b
<1>6. QED
  BY <1>3, <1>4, <1>5 DEF InCalls

\* What is so between the calls.
LEMMA SameEase ==
  ASSUME NEW ss, NEW tt, NEW R, SameSession(tt, ss), NEW g, AtEase(ss, R, g)
  PROVE  AtEase(tt, R, g)
<1>1. Now(tt) = Now(ss) /\ tt.log = ss.log /\ tt.live = ss.live /\ tt.phase = ss.phase /\ tt.shown = ss.shown
  BY DEF SameSession, Now
<1>2. ss.shown = 0 => Played(tt, R, g, Now(tt), Now(tt))
  BY <1>1, SamePlayed DEF AtEase
<1>3. QED
  BY <1>1, <1>2 DEF AtEase

-----------------------------------------------------------------------------
(* Calls from outside end *)

\* The game of which nothing is left to do has handled the whole log.
LEMMA PlayedAll ==
  ASSUME NEW ss, NEW R, SessionOK(ss), Course(ss, R), NEW g, Played(ss, R, g, Now(ss), Now(ss)),
         ss.shown = 0
  PROVE  AtEase(ss, R, g)
<1>1. SubSeq(ss.log, 1, Now(ss)) = ss.log
  BY RunsParts, PartWhole
<1>2. QED
  BY <1>1 DEF AtEase, Played

\* handle_action is done.
LEMMA DoneKeeps ==
  ASSUME NEW R, NEW pos, Alive(session, R, pos, stack, game, pc), Done
  PROVE  Alive(session', R, pos, stack', game', pc')
<1>1. /\ pc = "handle" /\ Len(stack) = 1 /\ Top.kind = "table" /\ Top.todo = <<>>
      /\ session' = session /\ stack' = <<>> /\ pc' = "idle" /\ game' = [game EXCEPT !.queued = <<>>]
  BY DEF Done
<1>2. /\ SessionOK(session) /\ Course(session, R)
      /\ InCalls(session, R, pos, stack, game, FALSE)
  BY <1>1 DEF Alive
<1>3. /\ Doing(session, R, Top, game, pos[Len(stack)], Goal(session, pos, Len(stack)), FALSE)
      /\ Called(session, R, Top, pos[Len(stack)], FALSE)
  BY <1>1, <1>2, TopCall DEF Top
<1>4. Goal(session, pos, Len(stack)) = Now(session)
  BY <1>1 DEF Goal
<1>5. Played(session, R, game, Now(session), Now(session))
  <2> DEFINE k == pos[Len(stack)]
  <2>1. Doing(session, R, Top, game, k, Now(session), FALSE)
    BY <1>3, <1>4
  <2> HIDE DEF k
  <2>2. k = Now(session) /\ Played(session, R, game, Now(session), Now(session))
    BY <1>1, <1>2, <2>1, NothingLeft
  <2>3. QED
    BY <2>2
<1>6. session.shown = 0
  BY <1>1, <1>3 DEF Called, Navigating
<1>7. Alike(game', game)
  <2>1. GameOK(game)
    BY <1>5 DEF Played
  <2> DEFINE h == [game EXCEPT !.queued = <<>>]
  <2>2. Alike(h, game)
    BY <2>1 DEF Alike, GameOK
  <2>3. QED
    BY <1>1, <2>2
<1>8. Played(session, R, game', Now(session), Now(session))
  BY <1>5, <1>7, PlayedAlike
<1>9. AtEase(session, R, game')
  BY <1>2, <1>6, <1>8, PlayedAll
<1>10. QED
  BY <1>1, <1>2, <1>9 DEF Alive

\* navigate is done.
LEMMA ShownKeeps ==
  ASSUME NEW R, NEW pos, Alive(session, R, pos, stack, game, pc), Shown
  PROVE  Alive(session', R, pos, stack', game', pc')
<1> DEFINE k == pos[Len(stack)]
           list == Stripped(Top.this.list)
<1>1. /\ pc = "handle" /\ Len(stack) = 1 /\ Top.kind = "nav" /\ (Arrived \/ Top.todo = <<>>)
      /\ session' = session /\ stack' = <<>> /\ pc' = "idle"
      /\ game' = [Resumed(game, Top.this) EXCEPT !.list = list]
  BY DEF Shown
<1>2. /\ SessionOK(session) /\ Course(session, R)
      /\ InCalls(session, R, pos, stack, game, FALSE)
  BY <1>1 DEF Alive
<1>3. /\ Doing(session, R, Top, game, k, Goal(session, pos, Len(stack)), FALSE)
      /\ Called(session, R, Top, k, FALSE)
  BY <1>1, <1>2, TopCall DEF Top
<1>4. Goal(session, pos, Len(stack)) = Now(session)
  BY <1>1 DEF Goal
<1> HIDE DEF k
<1>5. Navigating(session, R, Top, k, FALSE)
  BY <1>1, <1>3 DEF Called
<1>6. /\ session.shown = Top.act /\ Top.act \in Nat \ {0} /\ session.phase = "over"
      /\ GameOK(Top.this) /\ Real(FlattenSeq(Top.this.list)) = session.log
      /\ k = 0 \/ R[k - 1].turn_count < Top.act
  BY <1>5 DEF Navigating
<1>7. Played(session, R, game, k, k) /\ k \in 0 .. Now(session)
  BY <1>3, <1>4 DEF Doing
<1>8. list \in Seq(Seq(Act)) /\ Real(FlattenSeq(list)) = session.log
  <2>1. Top.this.list \in Seq(Seq(Act))
    BY <1>6 DEF GameOK
  <2>2. QED
    BY <1>6, <2>1, StrippedReal
<1> HIDE DEF list
<1>9. GameOK(game') /\ game'.list = list /\ game'.st = game.st
  <2>1. GameOK(game)
    BY <1>7 DEF Played
  <2> DEFINE r == Resumed(game, Top.this)
             h == [r EXCEPT !.list = list]
  <2>2. GameOK(r) /\ r.st = game.st
    BY <2>1 DEF Resumed, GameOK
  <2> HIDE DEF r
  <2>3. /\ h = [st |-> r.st, list |-> list, notes |-> r.notes, rewinds |-> r.rewinds,
               depth |-> r.depth, catchup |-> r.catchup, inProgress |-> r.inProgress,
               status |-> r.status, rewinded |-> r.rewinded, ignored |-> r.ignored,
               queued |-> r.queued]
        /\ r.st \in St
    BY <2>2 DEF GameOK
  <2> HIDE DEF h
  <2>4. GameOK(h) /\ h.list = list /\ h.st = r.st
    BY <1>8, <2>3 DEF GameOK
  <2>5. QED
    BY <1>1, <2>2, <2>4 DEF h, r
<1>10. Follows(game'.st, R[k])
  BY <1>7, <1>9 DEF Played
<1>11. k = Now(session) \/ R[k].turn_count >= session.shown
  <2>1. CASE Top.todo = <<>>
    BY <1>2, <1>3, <1>4, <2>1, NothingLeft
  <2>2. CASE Arrived
    <3>1. game.st.turn_count = R[k].turn_count
      BY <1>2, <1>7, PlayedParts
    <3>2. QED
      BY <1>6, <2>2, <3>1 DEF Arrived
  <2>3. QED
    BY <1>1, <2>1, <2>2
<1>12. AtEase(session, R, game')
  BY <1>6, <1>7, <1>8, <1>9, <1>10, <1>11 DEF AtEase
<1>13. QED
  BY <1>1, <1>2, <1>12 DEF Alive

-----------------------------------------------------------------------------
(* A rewind begins *)

NoEntry == [act |-> NoAct, part |-> "restore"]

\* What a rewind is to replay, past being what comes before the insertions.
Plan(past, acts, rest, last) ==
  Entries(past, "history") \o Entries(acts, "insert") \o Entries(rest, "future")
    \o <<NoEntry>> \o Entries(last, "last")

\* u is s, of length m, with t after it.
Chained(S, u, s, t, m, n) ==
  /\ u \in Seq(S) /\ Len(u) = n
  /\ \A i \in 1 .. m : u[i] = s[i]
  /\ \A i \in m + 1 .. n : u[i] = t[i - m]

\* A concatenation by its elements.
LEMMA ConcatAt ==
  ASSUME NEW S, NEW s \in Seq(S), NEW t \in Seq(S), NEW u, u = s \o t,
         NEW m, m = Len(s), NEW n, n = m + Len(t)
  PROVE  Chained(S, u, s, t, m, n)
<1>1. Len(s) \in Nat /\ Len(t) \in Nat
  OBVIOUS
<1>2. /\ u \in Seq(S) /\ Len(u) = Len(s) + Len(t)
      /\ \A i \in 1 .. Len(s) + Len(t) : u[i] = IF i <= Len(s) THEN s[i] ELSE t[i - Len(s)]
  OBVIOUS
<1>3. ASSUME NEW i \in 1 .. m PROVE u[i] = s[i]
  BY <1>1, <1>2
<1>4. ASSUME NEW i \in m + 1 .. n PROVE u[i] = t[i - m]
  BY <1>1, <1>2
<1>5. QED
  BY <1>2, <1>3, <1>4 DEF Chained

\* The entries of a plan, one after the other.
Planned(todo, past, acts, rest, last, a, b, c, n) ==
  /\ todo \in Seq(Entry) /\ Len(todo) = n
  /\ a \in Nat /\ b \in Nat /\ c \in Nat /\ n \in Nat /\ a <= b /\ b <= c /\ c < n
  /\ \A i \in 1 .. a : todo[i].act = past[i] /\ todo[i].part = "history"
  /\ \A i \in a + 1 .. b : todo[i].act = acts[i - a] /\ todo[i].part = "insert"
  /\ \A i \in b + 1 .. c : todo[i].act = rest[i - b] /\ todo[i].part = "future"
  /\ todo[c + 1] = NoEntry
  /\ \A i \in c + 2 .. n : todo[i].act = last[i - (c + 1)] /\ todo[i].part = "last"

\* Those are the entries of a plan.
LEMMA PlanAt ==
  ASSUME NEW past \in Seq(Act), NEW acts \in Seq(SpecialAct), NEW rest \in Seq(Act), NEW last \in Seq(Act),
         NEW todo, todo = Plan(past, acts, rest, last),
         NEW a, a = Len(past), NEW b, b = a + Len(acts), NEW c, c = b + Len(rest), NEW n, n = c + 1 + Len(last)
  PROVE  Planned(todo, past, acts, rest, last, a, b, c, n)
<1> DEFINE e1 == Entries(past, "history")
           e2 == Entries(acts, "insert")
           e3 == Entries(rest, "future")
           e4 == <<NoEntry>>
           e5 == Entries(last, "last")
           s2 == e1 \o e2
           s3 == s2 \o e3
           s4 == s3 \o e4
           s5 == s4 \o e5
<1>1. e1 \in Seq(Entry) /\ Len(e1) = Len(past) /\ \A i \in 1 .. Len(past) : e1[i] = [act |-> past[i], part |-> "history"]
  BY EntriesParts DEF Parts
<1>2. e2 \in Seq(Entry) /\ Len(e2) = Len(acts) /\ \A i \in 1 .. Len(acts) : e2[i] = [act |-> acts[i], part |-> "insert"]
  <2>1. acts \in Seq(Act)
    BY SeqSubset DEF Act
  <2>2. QED
    BY <2>1, EntriesParts DEF Parts
<1>3. e3 \in Seq(Entry) /\ Len(e3) = Len(rest) /\ \A i \in 1 .. Len(rest) : e3[i] = [act |-> rest[i], part |-> "future"]
  BY EntriesParts DEF Parts
<1>4. e4 \in Seq(Entry) /\ Len(e4) = 1 /\ e4[1] = NoEntry
  <2>1. NoEntry \in Entry
    BY DEF NoEntry, Entry, Parts
  <2>2. QED
    BY <2>1
<1>5. e5 \in Seq(Entry) /\ Len(e5) = Len(last) /\ \A i \in 1 .. Len(last) : e5[i] = [act |-> last[i], part |-> "last"]
  BY EntriesParts DEF Parts
<1>6. todo = s5
  BY DEF Plan
<1>7. Len(past) \in Nat /\ Len(acts) \in Nat /\ Len(rest) \in Nat /\ Len(last) \in Nat
  OBVIOUS
<1> HIDE DEF e1, e2, e3, e4, e5
<1>8. /\ s2 \in Seq(Entry) /\ Len(s2) = b
      /\ \A i \in 1 .. a : s2[i] = e1[i]
      /\ \A i \in a + 1 .. b : s2[i] = e2[i - a]
  <2>1. s2 = e1 \o e2 /\ a = Len(e1) /\ b = a + Len(e2)
    BY <1>1, <1>2
  <2> HIDE DEF s2
  <2>2. Chained(Entry, s2, e1, e2, a, b)
    BY <1>1, <1>2, <2>1, ConcatAt
  <2>3. QED
    BY <2>2 DEF Chained
<1> HIDE DEF s2
<1>9. /\ s3 \in Seq(Entry) /\ Len(s3) = c
      /\ \A i \in 1 .. b : s3[i] = s2[i]
      /\ \A i \in b + 1 .. c : s3[i] = e3[i - b]
  <2>1. s3 = s2 \o e3 /\ b = Len(s2) /\ c = b + Len(e3)
    BY <1>3, <1>8
  <2> HIDE DEF s3
  <2>2. Chained(Entry, s3, s2, e3, b, c)
    BY <1>3, <1>8, <2>1, ConcatAt
  <2>3. QED
    BY <2>2 DEF Chained
<1> HIDE DEF s3
<1>10. /\ s4 \in Seq(Entry) /\ Len(s4) = c + 1
       /\ \A i \in 1 .. c : s4[i] = s3[i]
       /\ \A i \in c + 1 .. c + 1 : s4[i] = e4[i - c]
  <2>1. s4 = s3 \o e4 /\ c = Len(s3) /\ c + 1 = c + Len(e4)
    BY <1>4, <1>9
  <2> HIDE DEF s4
  <2>2. Chained(Entry, s4, s3, e4, c, c + 1)
    BY <1>4, <1>9, <2>1, ConcatAt
  <2>3. QED
    BY <2>2 DEF Chained
<1> HIDE DEF s4
<1>11. /\ s5 \in Seq(Entry) /\ Len(s5) = n
       /\ \A i \in 1 .. c + 1 : s5[i] = s4[i]
       /\ \A i \in (c + 1) + 1 .. n : s5[i] = e5[i - (c + 1)]
  <2>1. s5 = s4 \o e5 /\ c + 1 = Len(s4) /\ n = c + 1 + Len(e5)
    BY <1>5, <1>10
  <2> HIDE DEF s5
  <2>2. Chained(Entry, s5, s4, e5, c + 1, n)
    BY <1>5, <1>10, <2>1, ConcatAt
  <2>3. QED
    BY <2>2 DEF Chained
<1> HIDE DEF s5
<1>12. a \in Nat /\ b \in Nat /\ c \in Nat /\ n \in Nat /\ a <= b /\ b <= c /\ c < n
  BY <1>7
<1>13. ASSUME NEW i \in 1 .. a PROVE todo[i].act = past[i] /\ todo[i].part = "history"
  <2>1. i \in 1 .. b /\ i \in 1 .. c /\ i \in 1 .. c + 1
    BY <1>12
  <2>2. todo[i] = s2[i]
    BY <1>6, <1>9, <1>10, <1>11, <2>1
  <2>3. s2[i] = e1[i]
    BY <1>8
  <2>4. e1[i] = [act |-> past[i], part |-> "history"]
    BY <1>1
  <2>5. QED
    BY <2>2, <2>3, <2>4
<1>14. ASSUME NEW i \in a + 1 .. b PROVE todo[i].act = acts[i - a] /\ todo[i].part = "insert"
  <2>1. i \in 1 .. b /\ i \in 1 .. c /\ i \in 1 .. c + 1 /\ i - a \in 1 .. Len(acts)
    BY <1>7, <1>12
  <2>2. todo[i] = s2[i]
    BY <1>6, <1>9, <1>10, <1>11, <2>1, SMTT(30)
  <2>3. s2[i] = e2[i - a]
    BY <1>8
  <2>4. e2[i - a] = [act |-> acts[i - a], part |-> "insert"]
    BY <1>2, <2>1
  <2>5. QED
    BY <2>2, <2>3, <2>4
<1>15. ASSUME NEW i \in b + 1 .. c PROVE todo[i].act = rest[i - b] /\ todo[i].part = "future"
  <2>1. i \in 1 .. c /\ i \in 1 .. c + 1 /\ i - b \in 1 .. Len(rest)
    BY <1>7, <1>12
  <2>2. todo[i] = s3[i]
    BY <1>6, <1>10, <1>11, <2>1
  <2>3. s3[i] = e3[i - b]
    BY <1>9
  <2>4. e3[i - b] = [act |-> rest[i - b], part |-> "future"]
    BY <1>3, <2>1
  <2>5. QED
    BY <2>2, <2>3, <2>4
<1>16. todo[c + 1] = NoEntry
  <2>1. c + 1 \in 1 .. c + 1 /\ c + 1 \in c + 1 .. c + 1 /\ (c + 1) - c = 1
    BY <1>12
  <2>2. QED
    BY <1>4, <1>6, <1>10, <1>11, <2>1
<1>17. ASSUME NEW i \in c + 2 .. n PROVE todo[i].act = last[i - (c + 1)] /\ todo[i].part = "last"
  <2>1. i \in (c + 1) + 1 .. n /\ i - (c + 1) \in 1 .. Len(last)
    BY <1>7, <1>12
  <2>2. todo[i] = e5[i - (c + 1)]
    BY <1>6, <1>11, <2>1
  <2>3. e5[i - (c + 1)] = [act |-> last[i - (c + 1)], part |-> "last"]
    BY <1>5, <2>1
  <2>4. QED
    BY <2>2, <2>3
<1>18. QED
  BY <1>6, <1>11, <1>12, <1>13, <1>14, <1>15, <1>16, <1>17 DEF Planned

\* What a plan has of the actions it is made from, and in which order.
PlanFacts(todo, past, acts, rest, last) ==
  /\ todo \in Seq(Entry) /\ Sorted(todo)
  /\ \A i \in 1 .. Len(todo) : todo[i].part \in {"history", "insert", "future", "restore", "last"}
  /\ \A x \in ToSet(past) : \E h \in 1 .. Len(todo) : todo[h].part = "history" /\ todo[h].act = x
  /\ \A x \in ToSet(rest) : \E h \in 1 .. Len(todo) : todo[h].part = "future" /\ todo[h].act = x
  /\ \A x \in ToSet(last) : \E h \in 1 .. Len(todo) : todo[h].part = "last" /\ todo[h].act = x
  /\ \A i \in 1 .. Len(todo) : todo[i].part = "insert" =>
       \E j \in 1 .. Len(acts) :
         /\ todo[i].act = acts[j]
         /\ j = Len(acts) => \A h \in i + 1 .. Len(todo) : todo[h].part # "insert"
  /\ ToSet(past) \cup ToSet(acts) \cup ToSet(rest) \cup ToSet(last) \subseteq ToSet(Acts(todo))

\* They follow from where its parts lie.
LEMMA PlanParts ==
  ASSUME NEW past \in Seq(Act), NEW acts \in Seq(SpecialAct), NEW rest \in Seq(Act), NEW last \in Seq(Act),
         NEW todo, todo = Plan(past, acts, rest, last)
  PROVE  PlanFacts(todo, past, acts, rest, last)
<1> DEFINE a == Len(past)
           b == a + Len(acts)
           c == b + Len(rest)
           n == c + 1 + Len(last)
<1>1. /\ todo \in Seq(Entry) /\ Len(todo) = n
      /\ a \in Nat /\ b \in Nat /\ c \in Nat /\ n \in Nat /\ a <= b /\ b <= c /\ c < n
      /\ \A i \in 1 .. a : todo[i].act = past[i] /\ todo[i].part = "history"
      /\ \A i \in a + 1 .. b : todo[i].act = acts[i - a] /\ todo[i].part = "insert"
      /\ \A i \in b + 1 .. c : todo[i].act = rest[i - b] /\ todo[i].part = "future"
      /\ todo[c + 1] = NoEntry
      /\ \A i \in c + 2 .. n : todo[i].act = last[i - (c + 1)] /\ todo[i].part = "last"
  <2>1. a = Len(past) /\ b = a + Len(acts) /\ c = b + Len(rest) /\ n = c + 1 + Len(last)
    OBVIOUS
  <2> HIDE DEF a, b, c, n
  <2>2. Planned(todo, past, acts, rest, last, a, b, c, n)
    BY <2>1, PlanAt
  <2>3. QED
    BY <2>2 DEF Planned
<1>2. /\ a = Len(past) /\ Len(acts) = b - a /\ Len(rest) = c - b /\ Len(last) = n - (c + 1)
      /\ ToSet(past) = {past[i] : i \in 1 .. a} /\ ToSet(acts) = {acts[i] : i \in 1 .. b - a}
      /\ ToSet(rest) = {rest[i] : i \in 1 .. c - b} /\ ToSet(last) = {last[i] : i \in 1 .. n - (c + 1)}
  <2>1. Len(past) \in Nat /\ Len(acts) \in Nat /\ Len(rest) \in Nat /\ Len(last) \in Nat
    OBVIOUS
  <2>2. Len(acts) = b - a /\ Len(rest) = c - b /\ Len(last) = n - (c + 1)
    BY <2>1
  <2> HIDE DEF a, b, c, n
  <2>3. ToSet(past) = {past[i] : i \in 1 .. a}
    BY SeqElements DEF a
  <2>4. ToSet(acts) = {acts[i] : i \in 1 .. Len(acts)}
    BY SeqElements
  <2>5. ToSet(rest) = {rest[i] : i \in 1 .. Len(rest)}
    BY SeqElements
  <2>6. ToSet(last) = {last[i] : i \in 1 .. Len(last)}
    BY SeqElements
  <2>7. QED
    BY <2>2, <2>3, <2>4, <2>5, <2>6 DEF a
<1> HIDE DEF a, b, c, n
<1>3. /\ \A i \in 1 .. a : todo[i].part = "history" /\ PartRank(todo[i].part) = 0
      /\ \A i \in a + 1 .. b : todo[i].part = "insert" /\ PartRank(todo[i].part) = 1
      /\ \A i \in b + 1 .. c : todo[i].part = "future" /\ PartRank(todo[i].part) = 2
      /\ \A i \in c + 1 .. c + 1 : todo[i].part = "restore" /\ PartRank(todo[i].part) = 2
      /\ \A i \in c + 2 .. n : todo[i].part = "last" /\ PartRank(todo[i].part) = 2
  <2>1. ASSUME NEW i \in 1 .. a PROVE todo[i].part = "history"
    BY <1>1
  <2>2. ASSUME NEW i \in a + 1 .. b PROVE todo[i].part = "insert"
    BY <1>1
  <2>3. ASSUME NEW i \in b + 1 .. c PROVE todo[i].part = "future"
    BY <1>1
  <2>4. ASSUME NEW i \in c + 1 .. c + 1 PROVE todo[i].part = "restore"
    <3>1. i = c + 1
      BY <1>1
    <3>2. QED
      BY <1>1, <3>1 DEF NoEntry
  <2>5. ASSUME NEW i \in c + 2 .. n PROVE todo[i].part = "last"
    BY <1>1
  <2>6. QED
    BY <2>1, <2>2, <2>3, <2>4, <2>5, PartRanks
<1>4. \A i \in 1 .. n : i \in 1 .. a \/ i \in a + 1 .. b \/ i \in b + 1 .. c \/ i \in c + 1 .. c + 1 \/ i \in c + 2 .. n
  BY <1>1
<1>5. Sorted(todo)
  <2>1. SUFFICES ASSUME NEW i \in 1 .. n, NEW j \in 1 .. n, i < j
                 PROVE  PartRank(todo[i].part) <= PartRank(todo[j].part)
    BY <1>1 DEF Sorted
  <2>2. CASE i \in 1 .. a
    BY <1>3, <1>4, <2>2
  <2>3. CASE i \in a + 1 .. b
    <3>1. j \notin 1 .. a
      BY <1>1, <2>1, <2>3
    <3>2. QED
      BY <1>3, <1>4, <2>3, <3>1
  <2>4. CASE i \notin 1 .. b
    <3>1. j \notin 1 .. a /\ j \notin a + 1 .. b
      BY <1>1, <2>1, <2>4
    <3>2. i \notin 1 .. a /\ i \notin a + 1 .. b
      BY <1>1, <2>4
    <3>3. PartRank(todo[i].part) = 2
      BY <1>3, <1>4, <3>2
    <3>4. PartRank(todo[j].part) = 2
      BY <1>3, <1>4, <3>1
    <3>5. QED
      BY <3>3, <3>4
  <2>5. QED
    BY <1>1, <2>2, <2>3, <2>4
<1>6. ASSUME NEW i \in 1 .. Len(todo)
      PROVE  todo[i].part \in {"history", "insert", "future", "restore", "last"}
  BY <1>1, <1>3, <1>4
<1>7. ASSUME NEW x \in ToSet(past)
      PROVE  \E h \in 1 .. Len(todo) : todo[h].part = "history" /\ todo[h].act = x
  <2>1. PICK i \in 1 .. a : x = past[i]
    BY <1>2
  <2>2. i \in 1 .. Len(todo) /\ todo[i].act = past[i] /\ todo[i].part = "history"
    BY <1>1
  <2>3. QED
    BY <2>1, <2>2
<1>8. ASSUME NEW x \in ToSet(rest)
      PROVE  \E h \in 1 .. Len(todo) : todo[h].part = "future" /\ todo[h].act = x
  <2>1. PICK i \in 1 .. c - b : x = rest[i]
    BY <1>2
  <2>2. b + i \in b + 1 .. c /\ b + i \in 1 .. Len(todo) /\ (b + i) - b = i
    BY <1>1
  <2>3. todo[b + i].act = rest[i] /\ todo[b + i].part = "future"
    BY <1>1, <2>2
  <2>4. QED
    BY <2>1, <2>2, <2>3
<1>9. ASSUME NEW x \in ToSet(last)
      PROVE  \E h \in 1 .. Len(todo) : todo[h].part = "last" /\ todo[h].act = x
  <2>1. PICK i \in 1 .. n - (c + 1) : x = last[i]
    BY <1>2
  <2>2. (c + 1) + i \in c + 2 .. n /\ (c + 1) + i \in 1 .. Len(todo) /\ ((c + 1) + i) - (c + 1) = i
    BY <1>1
  <2>3. todo[(c + 1) + i].act = last[i] /\ todo[(c + 1) + i].part = "last"
    BY <1>1, <2>2
  <2>4. QED
    BY <2>1, <2>2, <2>3
<1>10. ASSUME NEW i \in 1 .. Len(todo), todo[i].part = "insert"
       PROVE  \E j \in 1 .. Len(acts) :
                /\ todo[i].act = acts[j]
                /\ j = Len(acts) => \A h \in i + 1 .. Len(todo) : todo[h].part # "insert"
  <2>1. i \in a + 1 .. b
    BY <1>1, <1>3, <1>4, <1>10
  <2>2. i - a \in 1 .. Len(acts) /\ todo[i].act = acts[i - a]
    <3>1. i - a \in 1 .. b - a
      BY <1>1, <2>1
    <3>2. todo[i].act = acts[i - a] /\ todo[i].part = "insert"
      BY <1>1, <2>1
    <3>3. QED
      BY <1>2, <3>1, <3>2
  <2>3. ASSUME i - a = Len(acts), NEW h \in i + 1 .. Len(todo) PROVE todo[h].part # "insert"
    <3>1. h \in 1 .. n /\ h \notin 1 .. a /\ h \notin a + 1 .. b
      BY <1>1, <1>2, <2>1, <2>3
    <3>2. QED
      BY <1>3, <1>4, <3>1
  <2>4. QED
    BY <2>2, <2>3
<1>11. ASSUME NEW x \in ToSet(acts) PROVE \E h \in 1 .. Len(todo) : todo[h].act = x
  <2>1. PICK i \in 1 .. b - a : x = acts[i]
    BY <1>2
  <2>2. a + i \in a + 1 .. b /\ a + i \in 1 .. Len(todo) /\ (a + i) - a = i
    BY <1>1
  <2>3. todo[a + i].act = acts[i] /\ todo[a + i].part = "insert"
    BY <1>1, <2>2
  <2>4. QED
    BY <2>1, <2>2, <2>3
<1>12. ToSet(Acts(todo)) = {todo[h].act : h \in 1 .. Len(todo)}
  BY <1>1, ActsParts
<1>13. ToSet(past) \cup ToSet(acts) \cup ToSet(rest) \cup ToSet(last) \subseteq ToSet(Acts(todo))
  <2>1. SUFFICES ASSUME NEW x \in ToSet(past) \cup ToSet(acts) \cup ToSet(rest) \cup ToSet(last)
                 PROVE  \E h \in 1 .. Len(todo) : todo[h].act = x
    BY <1>12
  <2>2. CASE x \in ToSet(past)
    BY <1>7, <2>2
  <2>3. CASE x \in ToSet(acts)
    BY <1>11, <2>3
  <2>4. CASE x \in ToSet(rest)
    BY <1>8, <2>4
  <2>5. CASE x \in ToSet(last)
    BY <1>9, <2>5
  <2>6. QED
    BY <2>1, <2>2, <2>3, <2>4, <2>5
<1>14. QED
  BY <1>1, <1>5, <1>6, <1>7, <1>8, <1>9, <1>10, <1>13 DEF PlanFacts

\* The real actions of a plan are those of its parts.
LEMMA PlanReal ==
  ASSUME NEW past \in Seq(Act), NEW acts \in Seq(SpecialAct), NEW rest \in Seq(Act), NEW last \in Seq(Act)
  PROVE  Real(Acts(Plan(past, acts, rest, last))) = Real(past \o (rest \o last))
<1> DEFINE e1 == Entries(past, "history")
           e2 == Entries(acts, "insert")
           e3 == Entries(rest, "future")
           e4 == <<NoEntry>>
           e5 == Entries(last, "last")
<1>1. acts \in Seq(Act)
  BY SeqSubset DEF Act
<1>2. /\ e1 \in Seq(Entry) /\ Acts(e1) = past
      /\ e2 \in Seq(Entry) /\ Acts(e2) = acts
      /\ e3 \in Seq(Entry) /\ Acts(e3) = rest
      /\ e5 \in Seq(Entry) /\ Acts(e5) = last
  BY <1>1, EntriesParts DEF Parts
<1>3. e4 \in Seq(Entry) /\ Acts(e4) = <<NoAct>>
  <2>1. NoEntry \in Entry /\ NoEntry.act = NoAct
    BY DEF NoEntry, Entry, Parts
  <2>2. QED
    BY <2>1, OneEntry
<1> HIDE DEF e1, e2, e3, e4, e5
<1>4. e1 \o e2 \in Seq(Entry) /\ Acts(e1 \o e2) = past \o acts
  BY <1>2, ActsConcat
<1>5. e1 \o e2 \o e3 \in Seq(Entry) /\ Acts(e1 \o e2 \o e3) = past \o acts \o rest
  BY <1>2, <1>4, ActsConcat
<1>6. e1 \o e2 \o e3 \o e4 \in Seq(Entry) /\ Acts(e1 \o e2 \o e3 \o e4) = past \o acts \o rest \o <<NoAct>>
  BY <1>3, <1>5, ActsConcat
<1>7. Acts(e1 \o e2 \o e3 \o e4 \o e5) = past \o acts \o rest \o <<NoAct>> \o last
  BY <1>2, <1>6, ActsConcat
<1>8. /\ past \in Seq(AnyAct) /\ acts \in Seq(AnyAct) /\ rest \in Seq(AnyAct) /\ last \in Seq(AnyAct)
      /\ <<NoAct>> \in Seq(AnyAct)
  <2>1. Act \subseteq AnyAct /\ NoAct \in AnyAct
    BY DEF AnyAct
  <2>2. QED
    BY <1>1, <2>1, SeqSubset
<1>9. Real(acts) = <<>> /\ Real(<<NoAct>>) = <<>>
  <2>1. Real(acts) = <<>>
    BY RealType
  <2>2. NoAct \notin RealAct
    BY NotAnAct DEF Act
  <2>3. NoAct \in AnyAct /\ <<>> \in Seq(AnyAct) /\ Append(<<>>, NoAct) = <<NoAct>>
    BY DEF AnyAct
  <2>4. Real(Append(<<>>, NoAct)) = Real(<<>>)
    BY <2>2, <2>3, RealAppend
  <2>5. QED
    BY <2>1, <2>3, <2>4, RealType
<1>10. Real(past) \in Seq(RealAct) /\ Real(rest) \in Seq(RealAct) /\ Real(last) \in Seq(RealAct)
  BY <1>8, RealType
<1> DEFINE A == Real(past)
           B == Real(rest)
           C == Real(last)
<1>11. A = Real(past) /\ B = Real(rest) /\ C = Real(last)
  OBVIOUS
<1> HIDE DEF A, B, C
<1>12. /\ \A s, t \in Seq(AnyAct) : Real(s \o t) = Real(s) \o Real(t)
      /\ \A s, t \in Seq(AnyAct) : s \o t \in Seq(AnyAct)
  BY RealConcat, SMTT(30)
<1> DEFINE s2 == past \o acts
           s3 == s2 \o rest
           s4 == s3 \o <<NoAct>>
<1>13. s2 \in Seq(AnyAct) /\ s3 \in Seq(AnyAct) /\ s4 \in Seq(AnyAct)
  BY <1>8, <1>12
<1>14. Real(s2) = A \o <<>>
  <2>1. Real(past \o acts) = Real(past) \o Real(acts)
    BY <1>8, <1>12
  <2>2. QED
    BY <1>9, <1>11, <2>1, Zenon
<1> HIDE DEF s2
<1>15. Real(s3) = A \o <<>> \o B
  <2>1. Real(s2 \o rest) = Real(s2) \o Real(rest)
    BY <1>8, <1>12, <1>13
  <2>2. QED
    BY <1>14, <1>11, <2>1, Zenon
<1> HIDE DEF s3
<1>16. Real(s4) = A \o <<>> \o B \o <<>>
  <2> DEFINE e == <<NoAct>>
  <2>1. e \in Seq(AnyAct) /\ Real(e) = <<>> /\ s4 = s3 \o e
    BY <1>8, <1>9
  <2> HIDE DEF e, s4
  <2>2. Real(s3 \o e) = Real(s3) \o Real(e)
    BY <1>12, <1>13, <2>1
  <2>3. QED
    BY <1>15, <2>1, <2>2, Zenon
<1> HIDE DEF s4
<1>17. Real(s4 \o last) = A \o <<>> \o B \o <<>> \o C
  <2>1. Real(s4 \o last) = Real(s4) \o Real(last)
    BY <1>8, <1>12, <1>13
  <2>2. QED
    BY <1>16, <1>11, <2>1, Zenon
<1>18. Real(rest \o last) = B \o C /\ rest \o last \in Seq(AnyAct)
  <2>1. Real(rest \o last) = Real(rest) \o Real(last)
    BY <1>8, <1>12
  <2>2. rest \o last \in Seq(AnyAct)
    BY <1>8, <1>12
  <2>3. QED
    BY <1>11, <2>1, <2>2, Zenon
<1>19. Real(past \o (rest \o last)) = A \o (B \o C)
  <2> DEFINE t == rest \o last
  <2>1. t \in Seq(AnyAct) /\ Real(t) = B \o C
    BY <1>18
  <2> HIDE DEF t
  <2>2. Real(past \o t) = Real(past) \o Real(t)
    BY <1>8, <1>12, <2>1
  <2>3. QED
    BY <1>11, <2>1, <2>2, Zenon DEF t
<1>20. A \o <<>> \o B \o <<>> \o C = A \o (B \o C)
  <2>1. A \in Seq(RealAct) /\ B \in Seq(RealAct) /\ C \in Seq(RealAct)
    BY <1>10, <1>11
  <2>2. A \o <<>> = A
    BY <2>1, ConcatEmptySeq
  <2>3. A \o B \in Seq(RealAct) /\ A \o B \o <<>> = A \o B
    BY <2>1, ConcatEmptySeq
  <2>4. A \o B \o C = A \o (B \o C)
    BY <2>1, ConcatAssociative, SMTT(30)
  <2>5. QED
    BY <2>2, <2>3, <2>4
<1>21. QED
  BY <1>7, <1>17, <1>19, <1>20, Zenon DEF Plan, e1, e2, e3, e4, e5, s2, s3, s4

\* The list of a game, split at a turn and before the last one.
Split(list, index, past, rest, last) ==
  /\ past \in Seq(Act) /\ rest \in Seq(Act) /\ last \in Seq(Act)
  /\ FlattenSeq(list) = past \o (rest \o last)
  /\ \A t \in 1 .. index : ToSet(list[t]) \subseteq ToSet(past)
  /\ \A t \in index + 1 .. Len(list) - 1 : ToSet(list[t]) \subseteq ToSet(rest)

\* The parts make up the list.
LEMMA ListSplit ==
  ASSUME NEW list \in Seq(Seq(Act)), NEW index \in 0 .. Len(list) - 1
  PROVE  Split(list, index, FlattenSeq(SubSeq(list, 1, index)),
               FlattenSeq(SubSeq(list, index + 1, Len(list) - 1)), list[Len(list)])
<1> DEFINE n == Len(list) - 1
           s == SubSeq(list, 1, index)
           t == SubSeq(list, index + 1, n)
           l == SubSeq(list, 1, n)
           last == list[Len(list)]
<1>1. Len(list) \in Nat /\ n \in Nat /\ index \in Nat /\ index <= n /\ n <= Len(list) /\ list # <<>>
  <2>1. Len(list) \in Nat
    OBVIOUS
  <2>2. list # <<>>
    BY <2>1
  <2>3. QED
    BY <2>1, <2>2
<1>2. /\ s \in Seq(Seq(Act)) /\ Len(s) = index /\ \A i \in 1 .. index : s[i] = list[i]
  <2>1. SubSeq(list, 0 + 1, index) = s /\ 0 <= index /\ index <= Len(list) /\ 0 \in Nat /\ index - 0 = index
    BY <1>1
  <2>2. /\ SubSeq(list, 0 + 1, index) \in Seq(Seq(Act)) /\ Len(SubSeq(list, 0 + 1, index)) = index - 0
        /\ \A h \in 1 .. index - 0 : SubSeq(list, 0 + 1, index)[h] = list[0 + h]
    BY <1>1, <2>1, PartOf
  <2>3. QED
    BY <1>1, <2>1, <2>2
<1>3. /\ t \in Seq(Seq(Act)) /\ Len(t) = n - index /\ \A i \in 1 .. n - index : t[i] = list[index + i]
  BY <1>1, PartOf
<1>4. l \in Seq(Seq(Act)) /\ last \in Seq(Act) /\ list = Append(l, last)
  BY <1>1, LastAppended
<1>5. l = s \o t
  <2> HIDE DEF n
  <2>1. 1 \in 1 .. Len(list) + 1 /\ index \in 1 - 1 .. Len(list) /\ n \in index .. Len(list)
    BY <1>1
  <2>2. QED
    BY <2>1, ConcatAdjacentSubSeq
<1>6. FlattenSeq(s) \in Seq(Act) /\ FlattenSeq(t) \in Seq(Act)
  BY <1>2, <1>3, FlattenType
<1>7. FlattenSeq(list) = FlattenSeq(s) \o (FlattenSeq(t) \o last)
  <2> HIDE DEF l, s, t, last
  <2>1. FlattenSeq(s \o t) = FlattenSeq(s) \o FlattenSeq(t)
    BY <1>2, <1>3, FlattenConcat
  <2>2. FlattenSeq(Append(l, last)) = FlattenSeq(l) \o last
    BY <1>4, FlattenGrows
  <2>3. (FlattenSeq(s) \o FlattenSeq(t)) \o last = FlattenSeq(s) \o (FlattenSeq(t) \o last)
    BY <1>4, <1>6, ConcatAssociative, SMTT(30)
  <2>4. QED
    BY <1>4, <1>5, <2>1, <2>2, <2>3, Zenon
<1>8. ASSUME NEW i \in 1 .. index PROVE ToSet(list[i]) \subseteq ToSet(FlattenSeq(s))
  <2>1. i \in 1 .. Len(s) /\ s[i] = list[i]
    BY <1>2
  <2>2. QED
    BY <1>2, <2>1, FlattenHolds
<1>9. ASSUME NEW i \in index + 1 .. n PROVE ToSet(list[i]) \subseteq ToSet(FlattenSeq(t))
  <2>1. i - index \in 1 .. Len(t) /\ i - index \in 1 .. n - index /\ index + (i - index) = i
    BY <1>1, <1>3
  <2>2. t[i - index] = list[i]
    BY <1>3, <2>1
  <2>3. QED
    BY <1>3, <2>1, <2>2, FlattenHolds
<1>10. QED
  BY <1>4, <1>6, <1>7, <1>8, <1>9 DEF Split

\* What a rewind from g, which has handled k actions, to the turn index may be
\* asked to insert: cards in the hand, drawn before that turn; the last of them
\* may be drawn later, but before the turn the game is at.
Asked(ss, R, g, k, index, acts) ==
  \A j \in 1 .. Len(acts) :
    acts[j].type = "identify" =>
      \E i \in 1 .. k, t \in 1 .. Len(g.list) :
        /\ Draws(ss.log[i], acts[j].order, acts[j].playerIndex)
        /\ \A h \in i .. k : acts[j].order \in R[h].hands[acts[j].playerIndex]
        /\ ss.log[i] \in ToSet(g.list[t])
        /\ t <= index \/ (j = Len(acts) /\ t < Len(g.list))

\* What is asked can be inserted.
LEMMA AskedInserted ==
  ASSUME NEW ss, NEW R, NEW g, NEW k \in Nat, NEW index \in 0 .. Len(g.list) - 1,
         NEW acts \in Seq(SpecialAct), Asked(ss, R, g, k, index, acts),
         NEW past, NEW rest, NEW last, Split(g.list, index, past, rest, last), Len(g.list) \in Nat,
         NEW todo, todo = Plan(past, acts, rest, last)
  PROVE  Insertable(ss, R, todo, 0, k + 1)
<1>1. past \in Seq(Act) /\ rest \in Seq(Act) /\ last \in Seq(Act)
  BY DEF Split
<1>2. /\ todo \in Seq(Entry)
      /\ \A x \in ToSet(past) : \E h \in 1 .. Len(todo) : todo[h].part = "history" /\ todo[h].act = x
      /\ \A x \in ToSet(rest) : \E h \in 1 .. Len(todo) : todo[h].part = "future" /\ todo[h].act = x
      /\ \A i \in 1 .. Len(todo) : todo[i].part = "insert" =>
           \E j \in 1 .. Len(acts) :
             /\ todo[i].act = acts[j]
             /\ j = Len(acts) => \A h \in i + 1 .. Len(todo) : todo[h].part # "insert"
  <2>1. PlanFacts(todo, past, acts, rest, last)
    BY <1>1, PlanParts
  <2>2. QED
    BY <2>1 DEF PlanFacts
<1>3. SUFFICES ASSUME NEW e \in 1 .. Len(todo), todo[e].part = "insert", todo[e].act.type = "identify"
               PROVE  \E i \in 1 .. k :
                        /\ Draws(ss.log[i], todo[e].act.order, todo[e].act.playerIndex)
                        /\ \A h \in i .. k : todo[e].act.order \in R[h].hands[todo[e].act.playerIndex]
                        /\ \/ \E h \in 1 .. Len(todo) : todo[h].part = "history" /\ todo[h].act = ss.log[i]
                           \/ /\ Comes(todo, todo[e].act.order)
                              /\ \A h \in e + 1 .. Len(todo) : todo[h].part # "insert"
  <2>1. (k + 1) - 1 = k
    OBVIOUS
  <2>2. QED
    BY <1>3, <2>1 DEF Insertable
<1>4. PICK j \in 1 .. Len(acts) :
        /\ todo[e].act = acts[j]
        /\ j = Len(acts) => \A h \in e + 1 .. Len(todo) : todo[h].part # "insert"
  BY <1>2, <1>3
<1> DEFINE a == todo[e].act
<1>5. PICK i \in 1 .. k, t \in 1 .. Len(g.list) :
        /\ Draws(ss.log[i], a.order, a.playerIndex)
        /\ \A h \in i .. k : a.order \in R[h].hands[a.playerIndex]
        /\ ss.log[i] \in ToSet(g.list[t])
        /\ t <= index \/ (j = Len(acts) /\ t < Len(g.list))
  BY <1>3, <1>4 DEF Asked
<1>6. CASE t <= index
  <2>1. t \in 1 .. index
    BY <1>6
  <2>2. ss.log[i] \in ToSet(past)
    BY <1>5, <2>1 DEF Split
  <2>3. \E h \in 1 .. Len(todo) : todo[h].part = "history" /\ todo[h].act = ss.log[i]
    BY <1>2, <2>2
  <2>4. QED
    BY <1>5, <2>3
<1>7. CASE ~(t <= index)
  <2>1. t \in index + 1 .. Len(g.list) - 1 /\ j = Len(acts)
    BY <1>5, <1>7
  <2>2. ss.log[i] \in ToSet(rest)
    BY <1>5, <2>1 DEF Split
  <2>3. PICK h \in 1 .. Len(todo) : todo[h].part = "future" /\ todo[h].act = ss.log[i]
    BY <1>2, <2>2
  <2>4. Comes(todo, a.order)
    BY <1>5, <2>3 DEF Comes, Draws
  <2>5. QED
    BY <1>4, <1>5, <2>1, <2>4
<1>8. QED
  BY <1>6, <1>7

-----------------------------------------------------------------------------
(* A rewind begins *)

\* What an accepted call of rewind on g starts, at index and with acts to insert.
Launched(ss, R, k, g, kind, acts, index) ==
  LET n == Frame(kind, g, acts, Replay(g, index, acts))
  IN  /\ Doing(ss, R, n, Restarted(g), 0, k + 1, FALSE)
      /\ Rewinding(ss, R, n, Restarted(g), 0, k + 1)

\* The blank game has handled nothing yet.
LEMMA BlankPlayed ==
  ASSUME NEW ss, NEW R, SessionOK(ss), Course(ss, R), NEW k \in 0 .. Now(ss),
         NEW g, GameOK(g), Follows(g.st, R[k]),
         ss.live /\ ss.phase # "over" => g.inProgress = TRUE,
         NEW h, h = Restarted(g)
  PROVE  Played(ss, R, h, 0, 0) /\ h.list = <<>> /\ FlattenSeq(h.list) = <<>>
<1>1. R[k] \in St /\ Known(R[k])
  BY RunsParts
<1>2. /\ GameOK(h) /\ h.list = <<>> /\ h.inProgress = g.inProgress
  BY RestartedParts
<1>3. Follows(h.st, R[0])
  <2>1. R[0] = InitialState
    BY DEF Course, Runs
  <2>2. QED
    BY <1>1, <2>1, RestartedFollows
<1>4. FlattenSeq(h.list) = <<>> /\ Real(FlattenSeq(h.list)) = <<>>
  BY <1>2, FlattenType, RealType
<1>5. SubSeq(ss.log, 1, 0) = <<>>
  BY RunsParts, PartWhole
<1>6. Len(h.list) <= h.st.turn_count + 1
  <2>1. h.st.turn_count \in Nat
    BY <1>2 DEF GameOK, St
  <2>2. Len(h.list) = 0
    BY <1>2
  <2>3. QED
    BY <2>1, <2>2
<1>7. Filed(ss, R, h, 0)
  BY DEF Filed
<1>8. QED
  BY <1>2, <1>3, <1>4, <1>5, <1>6, <1>7 DEF Played

\* A rewind that is asked for as it may be replays what was handled before.
LEMMA Begins ==
  ASSUME NEW ss, NEW R, SessionOK(ss), Course(ss, R), NEW k \in 0 .. Now(ss), k < Now(ss),
         NEW g, Played(ss, R, g, k, k + 1), ss.log[k + 1] \in ToSet(g.list[Len(g.list)]),
         NEW kind, kind \notin {"table", "nav"}, NEW acts \in Seq(SpecialAct),
         NEW index \in 0 .. Len(g.list) - 1, Asked(ss, R, g, k, index, acts)
  PROVE  Launched(ss, R, k, g, kind, acts, index)
<1> DEFINE past == FlattenSeq(SubSeq(g.list, 1, index))
           rest == FlattenSeq(SubSeq(g.list, index + 1, Len(g.list) - 1))
           last == g.list[Len(g.list)]
           todo == Plan(past, acts, rest, last)
           n == Frame(kind, g, acts, todo)
           h == Restarted(g)
<1>1. /\ GameOK(g) /\ g.list \in Seq(Seq(Act)) /\ FlattenSeq(g.list) \in Seq(Act) /\ Len(g.list) \in Nat
      /\ Follows(g.st, R[k]) /\ Real(FlattenSeq(g.list)) = SubSeq(ss.log, 1, k + 1)
      /\ ss.live /\ ss.phase # "over" => g.inProgress = TRUE
  BY PlayedParts DEF Played
<1>2. Split(g.list, index, past, rest, last)
  BY <1>1, ListSplit
<1>3. Replay(g, index, acts) = todo
  BY DEF Replay, Plan, NoEntry, NoAct
<1>4. k \in Nat /\ Now(ss) \in Nat /\ k + 1 \in 0 .. Now(ss) /\ ss.log[k + 1] \in RealAct
  BY RunsParts
<1> HIDE DEF past, rest, last
<1>5. /\ past \in Seq(Act) /\ rest \in Seq(Act) /\ last \in Seq(Act)
      /\ FlattenSeq(g.list) = past \o (rest \o last)
  BY <1>2 DEF Split
<1>6. Real(Acts(todo)) = SubSeq(ss.log, 1, k + 1)
  BY <1>1, <1>5, PlanReal, SMTT(30)
<1>7. Insertable(ss, R, todo, 0, k + 1)
  BY <1>1, <1>2, <1>4, AskedInserted
<1>8. PlanFacts(todo, past, acts, rest, last)
  BY <1>5, PlanParts
<1> HIDE DEF todo
<1>9. /\ todo \in Seq(Entry) /\ Sorted(todo)
      /\ \A i \in 1 .. Len(todo) : todo[i].part \in {"history", "insert", "future", "restore", "last"}
      /\ \A x \in ToSet(last) : \E i \in 1 .. Len(todo) : todo[i].part = "last" /\ todo[i].act = x
      /\ ToSet(past) \cup ToSet(acts) \cup ToSet(rest) \cup ToSet(last) \subseteq ToSet(Acts(todo))
  BY <1>8 DEF PlanFacts
<1>10. n = [kind |-> kind, this |-> g, act |-> acts, todo |-> todo, ids |-> <<>>]
  BY DEF Frame
<1> HIDE DEF n, h
<1>11. FrameOK(n)
  BY <1>9, <1>10 DEF FrameOK
<1>12. Played(ss, R, h, 0, 0) /\ h.list = <<>> /\ FlattenSeq(h.list) = <<>>
  BY <1>1, BlankPlayed DEF h
<1>13. Doing(ss, R, n, h, 0, k + 1, FALSE)
  <2>1. n.todo = todo /\ 0 + 1 = 1 /\ 0 \in 0 .. k + 1
    BY <1>4, <1>10
  <2>2. QED
    BY <1>4, <1>6, <1>11, <1>12, <2>1 DEF Doing
<1>14. Kept(n, h)
  <2>1. ToSet(FlattenSeq(g.list)) = ToSet(past) \cup (ToSet(rest) \cup ToSet(last))
    <3> DEFINE t == rest \o last
    <3>1. t \in Seq(Act) /\ ToSet(t) = ToSet(rest) \cup ToSet(last)
      BY <1>5, ConcatSet
    <3>2. FlattenSeq(g.list) = past \o t
      BY <1>5
    <3> HIDE DEF t
    <3>3. ToSet(past \o t) = ToSet(past) \cup ToSet(t)
      BY <1>5, <3>1, ConcatSet
    <3>4. QED
      BY <3>1, <3>2, <3>3, Zenon
  <2>2. ToSet(FlattenSeq(g.list)) \cup ToSet(acts) \subseteq ToSet(Acts(todo))
    BY <1>9, <2>1
  <2>3. n.this = g /\ n.act = acts /\ n.todo = todo
    BY <1>10
  <2>4. QED
    BY <2>2, <2>3 DEF Kept
<1>15. Closing(todo)
  <2>1. ss.log[k + 1] \in ToSet(last)
    BY DEF last
  <2>2. QED
    BY <1>4, <1>9, <2>1 DEF Closing
<1>16. Waiting(n)
  BY <1>10 DEF Waiting
<1>17. Rewinding(ss, R, n, h, 0, k + 1)
  <2>1. n.kind = kind /\ n.act = acts /\ n.todo = todo
    BY <1>10
  <2>2. \A i \in 1 .. Len(todo) : todo[i].part \notin {"table", "nav"}
    BY <1>9
  <2>3. QED
    BY <1>7, <1>9, <1>14, <1>15, <1>16, <2>1, <2>2 DEF Rewinding
<1>18. QED
  BY <1>3, <1>13, <1>17 DEF Launched, n, h

\* A request is counted.
LEMMA RequestCounted ==
  ASSUME NEW R, SessionOK(session), Course(session, R),
         session' = [session EXCEPT !.requests = @ + 1]
  PROVE  SessionOK(session') /\ Course(session', R) /\ SameSession(session', session)
<1> DEFINE tt == [session EXCEPT !.requests = @ + 1]
<1>1. tt = [moves |-> session.moves, live |-> session.live, catchup |-> session.catchup,
            phase |-> session.phase, log |-> session.log, made |-> session.made,
            table |-> session.table, requests |-> session.requests + 1,
            shown |-> session.shown, begun |-> session.begun, fresh |-> session.fresh]
  BY DEF SessionOK
<1> HIDE DEF tt
<1>2. SessionOK(tt)
  BY <1>1 DEF SessionOK
<1>3. SameSession(tt, session)
  BY <1>1 DEF SameSession
<1>4. Ahead(tt)
  <2>1. Ahead(session)
    BY DEF Course
  <2>2. /\ tt.table = session.table /\ tt.phase = session.phase /\ tt.made = session.made
        /\ tt.moves = session.moves /\ tt.live = session.live /\ tt.catchup = session.catchup
    BY <1>1
  <2>3. QED
    BY <2>1, <2>2 DEF Ahead
<1>5. Course(tt, R)
  BY <1>3, <1>4, SameCourse DEF SameSession
<1>6. QED
  BY <1>2, <1>3, <1>5 DEF tt

\* Counting a rewind and how deep it is.
LEMMA CountedAlike ==
  ASSUME NEW g, GameOK(g)
  PROVE  LET h == [g EXCEPT !.rewinds = @ + 1]
         IN  Alike(h, g) /\ Alike([h EXCEPT !.depth = @ + 1], g)
<1> DEFINE h == [g EXCEPT !.rewinds = @ + 1]
           d == [h EXCEPT !.depth = @ + 1]
<1>1. /\ h = [st |-> g.st, list |-> g.list, notes |-> g.notes, rewinds |-> g.rewinds + 1,
              depth |-> g.depth, catchup |-> g.catchup, inProgress |-> g.inProgress,
              status |-> g.status, rewinded |-> g.rewinded, ignored |-> g.ignored,
              queued |-> g.queued]
      /\ g.st \in St /\ g.list \in Seq(Seq(Act))
  BY DEF GameOK
<1> HIDE DEF h
<1>2. Alike(h, g)
  BY <1>1 DEF Alike, GameOK
<1>3. d = [st |-> h.st, list |-> h.list, notes |-> h.notes, rewinds |-> h.rewinds,
           depth |-> h.depth + 1, catchup |-> h.catchup, inProgress |-> h.inProgress,
           status |-> h.status, rewinded |-> h.rewinded, ignored |-> h.ignored,
           queued |-> h.queued]
  BY <1>1
<1> HIDE DEF d
<1>4. h.st \in St /\ h.list \in Seq(Seq(Act))
  BY <1>2 DEF Alike, GameOK
<1>5. Alike(d, h)
  BY <1>3, <1>4 DEF Alike, GameOK
<1>6. Alike(d, g)
  BY <1>2, <1>5 DEF Alike
<1>7. QED
  BY <1>2, <1>6 DEF h, d

\* What becomes of the call when rewind is called: it died, it went on, or it
\* waits for another.
Outcome(kind, index, acts, d) ==
  \/ pc' \notin {"idle", "handle", "interpret"}
  \/ pc' = pc /\ stack' = stack /\ Alike(game', game)
  \/ /\ ~Invalid(game, index) /\ Alike(d, game)
     /\ game' = Restarted(d) /\ pc' = "handle"
     /\ stack' = Append(stack, Frame(kind, d, acts, Replay(d, index, acts)))

\* Those are the outcomes of rewind.
LEMMA StartCases ==
  ASSUME GameOK(game), NEW kind, NEW index, NEW acts, Start(kind, index, acts)
  PROVE  \E d : Outcome(kind, index, acts, d)
<1> DEFINE g == [game EXCEPT !.rewinds = @ + 1]
           d == [g EXCEPT !.depth = @ + 1]
           spent == g.rewinds > MaxRewinds
           deep == g.depth > MaxDepth
<1>1. Alike(g, game) /\ Alike(d, game)
  BY CountedAlike
<1>2. g.list = game.list
  BY <1>1 DEF Alike
<1>3. CASE spent
  <2>1. pc' = "too many"
    BY <1>3 DEF Start
  <2>2. QED
    BY <2>1 DEF Outcome
<1>4. CASE ~spent /\ deep
  <2>1. pc' = "too deep"
    BY <1>4 DEF Start
  <2>2. QED
    BY <2>1 DEF Outcome
<1>5. CASE ~spent /\ ~deep /\ Invalid(g, index)
  <2>1. game' = g /\ UNCHANGED <<pc, stack>>
    BY <1>5 DEF Start
  <2>2. QED
    BY <1>1, <2>1 DEF Outcome
<1>6. CASE ~spent /\ ~deep /\ ~Invalid(g, index)
  <2>1. ~Invalid(game, index)
    BY <1>2, <1>6 DEF Invalid
  <2>2. IF g.list[index + 1] = Hole
        THEN game' = d /\ pc' = "TypeError" /\ UNCHANGED stack
        ELSE IF AlreadyIn(g.list[index + 1], acts)
        THEN game' = d /\ UNCHANGED <<pc, stack>>
        ELSE /\ game' = Restarted(d)
             /\ stack' = Append(stack, Frame(kind, d, acts, Replay(d, index, acts)))
             /\ pc' = "handle"
    BY <1>6 DEF Start
  <2> HIDE DEF g, d
  <2>3. QED
    BY <1>1, <2>1, <2>2 DEF Outcome
<1>7. QED
  BY <1>3, <1>4, <1>5, <1>6

\* A call of rewind that asks for what may be asked for.
LEMMA StartKeeps ==
  ASSUME NEW R, NEW pos, Alive(session, R, pos, stack, game, pc), pc = "interpret",
         NEW kind, kind \notin {"table", "nav"}, NEW index \in Int, NEW acts \in Seq(SpecialAct),
         ~Invalid(game, index) => Asked(session, R, game, pos[Len(stack)], index, acts),
         Start(kind, index, acts), session' = [session EXCEPT !.requests = @ + 1],
         pc' \in {"idle", "handle", "interpret"}
  PROVE  \E q : Alive(session', R, q, stack', game', pc')
<1> DEFINE k == pos[Len(stack)]
           m == Goal(session, pos, Len(stack))
           top == stack[Len(stack)]
<1>1. /\ SessionOK(session) /\ Course(session, R)
      /\ InCalls(session, R, pos, stack, game, TRUE)
  BY DEF Alive
<1>2. SessionOK(session') /\ Course(session', R) /\ SameSession(session', session)
  BY <1>1, RequestCounted
<1>3. Doing(session, R, top, game, k, m, TRUE)
  BY <1>1, TopCall
<1> HIDE DEF k, m, top
<1>4. /\ k \in 0 .. Now(session) /\ k < Now(session)
      /\ Played(session, R, game, k, k + 1)
      /\ session.log[k + 1] \in ToSet(game.list[Len(game.list)])
  BY <1>1, <1>3, DoingBusy
<1>5. GameOK(game) /\ Len(game.list) \in Nat
  <2>1. k + 1 \in Nat
    BY <1>4
  <2>2. QED
    BY <1>1, <1>4, PlayedParts
<1>6. PICK d : Outcome(kind, index, acts, d)
  BY <1>5, StartCases
<1>7. CASE pc' = pc /\ stack' = stack /\ Alike(game', game)
  <2>1. InCalls(session, R, pos, stack, game', TRUE)
    BY <1>1, <1>7, CallAlike
  <2>2. InCalls(session', R, pos, stack, game', TRUE)
    BY <1>2, <2>1, SameCalls
  <2>3. Alive(session', R, pos, stack', game', pc')
    BY <1>2, <1>7, <2>2 DEF Alive
  <2>4. QED
    BY <2>3
<1>8. CASE /\ ~Invalid(game, index) /\ Alike(d, game)
           /\ game' = Restarted(d) /\ pc' = "handle"
           /\ stack' = Append(stack, Frame(kind, d, acts, Replay(d, index, acts)))
  <2> DEFINE f == Frame(kind, d, acts, Replay(d, index, acts))
             q == [n \in 1 .. Len(stack) + 1 |-> IF n = Len(stack) + 1 THEN 0 ELSE pos[n]]
  <2>1. d.list = game.list /\ f.this = d
    BY <1>8 DEF Alike, Frame
  <2>2. index \in 0 .. Len(d.list) - 1
    BY <1>5, <1>8, <2>1 DEF Invalid
  <2>3. Asked(session, R, d, k, index, acts)
    <3>1. Asked(session, R, game, k, index, acts)
      BY <1>8 DEF k
    <3>2. QED
      BY <2>1, <3>1 DEF Asked
  <2>4. Played(session, R, d, k, k + 1)
    BY <1>4, <1>8, PlayedAlike
  <2>5. session.log[k + 1] \in ToSet(d.list[Len(d.list)])
    BY <1>4, <2>1
  <2>6. Launched(session, R, k, d, kind, acts, index)
    BY <1>1, <1>4, <2>2, <2>3, <2>4, <2>5, Begins
  <2>7. /\ Doing(session, R, f, game', 0, k + 1, FALSE)
        /\ Rewinding(session, R, f, game', 0, k + 1)
    BY <1>8, <2>6 DEF Launched
  <2>8. InCalls(session, R, pos, stack, d, TRUE)
    BY <1>1, <1>8, CallAlike
  <2> HIDE DEF f
  <2>9. InCalls(session, R, q, Append(stack, f), game', FALSE)
    BY <2>1, <2>7, <2>8, CallMade DEF k
  <2> HIDE DEF q
  <2>10. InCalls(session', R, q, Append(stack, f), game', FALSE)
    BY <1>2, <2>9, SameCalls
  <2>11. Alive(session', R, q, stack', game', pc')
    BY <1>2, <1>8, <2>10 DEF Alive, f
  <2>12. QED
    BY <2>11
<1>9. QED
  BY <1>6, <1>7, <1>8 DEF Outcome

-----------------------------------------------------------------------------
(* What the callers of rewind ask for *)

\* Card o of player p was drawn by the i-th action, which is in the list of turn t - 1.
Spot(ss, R, g, k, o, p, i, t) ==
  /\ i \in 1 .. k /\ t \in 1 .. Len(g.list)
  /\ Draws(ss.log[i], o, p) /\ ss.log[i] \in ToSet(g.list[t])
  /\ R[i - 1].turn_count + 1 = t
  /\ \A h \in i .. k : o \in R[h].hands[p]

\* A card in a hand is found in the list at the turn after drawn_index says.
LEMMA Spotted ==
  ASSUME NEW ss, NEW R, SessionOK(ss), Course(ss, R), NEW k \in 0 .. Now(ss), NEW n,
         NEW g, Played(ss, R, g, k, n), NEW p \in Players, NEW o \in R[k].hands[p]
  PROVE  \E i : Spot(ss, R, g, k, o, p, i, R[k].drawn_index[o] + 1)
<1>1. PICK i \in 1 .. k : /\ Draws(ss.log[i], o, p) /\ R[i - 1].turn_count = R[k].drawn_index[o]
                          /\ \A j \in i .. k : o \in R[j].hands[p]
  BY DEF Course, Held
<1>2. Filed(ss, R, g, k) /\ Len(g.list) \in Nat
  BY PlayedParts DEF Played
<1>3. /\ R[i - 1].turn_count < Len(g.list)
      /\ ss.log[i] \in ToSet(g.list[R[i - 1].turn_count + 1])
  BY <1>1, <1>2 DEF Filed, Draws
<1>4. R[i - 1].turn_count \in Nat
  <2>1. i - 1 \in 0 .. Now(ss)
    BY RunsParts
  <2>2. QED
    BY <2>1, RunsParts, StParts
<1>5. R[k].drawn_index[o] + 1 \in 1 .. Len(g.list) /\ R[i - 1].turn_count + 1 = R[k].drawn_index[o] + 1
  BY <1>1, <1>2, <1>3, <1>4
<1>6. QED
  BY <1>1, <1>3, <1>5 DEF Spot

\* A single identification, of a card in a hand, to be inserted at its draw.
LEMMA OneAsked ==
  ASSUME NEW ss, NEW R, SessionOK(ss), Course(ss, R), NEW k \in 0 .. Now(ss), NEW n,
         NEW g, Played(ss, R, g, k, n), NEW p \in Players, NEW o \in R[k].hands[p],
         NEW a \in SpecialAct, a.order = o, a.playerIndex = p,
         NEW index, index = R[k].drawn_index[o] + 1
  PROVE  Asked(ss, R, g, k, index, <<a>>)
<1>1. PICK i : Spot(ss, R, g, k, o, p, i, index)
  BY Spotted
<1>2. index \in 1 .. Len(g.list) /\ Len(g.list) \in Nat
  BY <1>1, PlayedParts DEF Spot
<1>3. index <= index
  BY <1>2
<1>4. Len(<<a>>) = 1 /\ <<a>>[1] = a
  OBVIOUS
<1>5. QED
  BY <1>1, <1>3, <1>4 DEF Asked, Spot

\* Of two cards in a hand the one with the lower order was drawn at an earlier
\* turn, or at the same.
LEMMA DrawnInOrder ==
  ASSUME NEW ss, NEW R, SessionOK(ss), Course(ss, R), NEW k \in 0 .. Now(ss),
         NEW p \in Players, NEW o \in R[k].hands[p], NEW q \in R[k].hands[p], o <= q
  PROVE  R[k].drawn_index[o] <= R[k].drawn_index[q]
<1>1. PICK i \in 1 .. k : Draws(ss.log[i], o, p) /\ R[i - 1].turn_count = R[k].drawn_index[o]
  BY DEF Course, Held
<1>2. PICK j \in 1 .. k : Draws(ss.log[j], q, p) /\ R[j - 1].turn_count = R[k].drawn_index[q]
  BY DEF Course, Held
<1>3. /\ i \in 1 .. Now(ss) /\ j \in 1 .. Now(ss) /\ i - 1 \in 0 .. Now(ss) /\ j - 1 \in 0 .. Now(ss)
  BY RunsParts
<1>4. o \in Nat /\ q \in Nat
  BY FreshOrder, Identities
<1>5. i <= j
  <2>1. SUFFICES ASSUME j < i PROVE FALSE
    BY <1>3
  <2>2. ss.log[j].order < ss.log[i].order
    BY <1>1, <1>2, <1>3, <2>1, DrawnLater DEF Draws
  <2>3. q < o
    BY <1>1, <1>2, <2>2 DEF Draws
  <2>4. QED
    BY <1>4, <2>3
<1>6. i - 1 <= j - 1
  BY <1>3, <1>5
<1>7. R[i - 1].turn_count <= R[j - 1].turn_count
  BY <1>3, <1>6 DEF Course, Onward
<1>8. QED
  BY <1>1, <1>2, <1>7

\* Two identifications of cards in a hand, inserted at the draw of the first: the
\* other was drawn before the turn g is at.
LEMMA TwoAsked ==
  ASSUME NEW ss, NEW R, SessionOK(ss), Course(ss, R), NEW k \in 0 .. Now(ss), NEW n,
         NEW g, Played(ss, R, g, k, n), NEW p \in Players, NEW o \in R[k].hands[p], NEW q \in R[k].hands[p],
         NEW a \in SpecialAct, a.order = o, a.playerIndex = p,
         NEW b \in SpecialAct, b.order = q, b.playerIndex = p,
         NEW index, index = R[k].drawn_index[o] + 1, R[k].drawn_index[q] + 1 < Len(g.list)
  PROVE  Asked(ss, R, g, k, index, <<a, b>>)
<1>1. PICK i : Spot(ss, R, g, k, o, p, i, index)
  BY Spotted
<1> DEFINE t == R[k].drawn_index[q] + 1
<1>2. PICK j : Spot(ss, R, g, k, q, p, j, t)
  BY Spotted
<1>3. index \in 1 .. Len(g.list) /\ Len(g.list) \in Nat /\ index <= index /\ t < Len(g.list)
  <2>1. index \in 1 .. Len(g.list) /\ Len(g.list) \in Nat
    BY <1>1, PlayedParts DEF Spot
  <2>2. QED
    BY <2>1
<1> HIDE DEF t
<1>4. Len(<<a, b>>) = 2 /\ <<a, b>>[1] = a /\ <<a, b>>[2] = b /\ 1 .. 2 = {1, 2}
  OBVIOUS
<1>5. \E x \in 1 .. k, y \in 1 .. Len(g.list) :
        /\ Draws(ss.log[x], a.order, a.playerIndex)
        /\ \A h \in x .. k : a.order \in R[h].hands[a.playerIndex]
        /\ ss.log[x] \in ToSet(g.list[y])
        /\ y <= index \/ (1 = 2 /\ y < Len(g.list))
  BY <1>1, <1>3 DEF Spot
<1>6. \E x \in 1 .. k, y \in 1 .. Len(g.list) :
        /\ Draws(ss.log[x], b.order, b.playerIndex)
        /\ \A h \in x .. k : b.order \in R[h].hands[b.playerIndex]
        /\ ss.log[x] \in ToSet(g.list[y])
        /\ y <= index \/ (2 = 2 /\ y < Len(g.list))
  BY <1>2, <1>3 DEF Spot
<1> DEFINE w == <<a, b>>
<1>7. Len(w) = 2 /\ w[1] = a /\ w[2] = b
  BY <1>4
<1> HIDE DEF w
<1>8. Asked(ss, R, g, k, index, w)
  BY <1>4, <1>5, <1>6, <1>7 DEF Asked
<1>9. QED
  BY <1>8 DEF w

\* A bounded set of numbers that is not empty has a greatest.
LEMMA GreatestOne ==
  ASSUME NEW n \in Nat, NEW H \in SUBSET (0 .. n), H # {}
  PROVE  \E o \in H : \A q \in H : q <= o
<1> DEFINE Low(i) == {o \in H : o <= i}
           G == {i \in 0 .. n : Low(i) # {} => \E o \in Low(i) : \A q \in Low(i) : q <= o}
<1>1. n \in Nat
  OBVIOUS
<1>2. 0 \in G
  <2>1. \A o \in Low(0) : o = 0
    BY <1>1
  <2>2. ASSUME NEW x \in Low(0) PROVE \A q \in Low(0) : q <= x
    <3>1. \A q \in Low(0) : q = x /\ q = 0
      BY <2>1
    <3>2. QED
      BY <3>1
  <2>3. 0 \in 0 .. n
    BY <1>1
  <2>4. Low(0) # {} => \E o \in Low(0) : \A q \in Low(0) : q <= o
    BY <2>2
  <2> HIDE DEF Low
  <2>5. QED
    BY <2>3, <2>4
<1>3. ASSUME NEW i \in 0 .. n, i + 1 <= n, i \in G PROVE i + 1 \in G
  <2>1. i + 1 \in 0 .. n
    BY <1>1, <1>3
  <2>2. CASE i + 1 \in H
    <3>1. i + 1 \in Low(i + 1) /\ \A q \in Low(i + 1) : q <= i + 1
      BY <2>1, <2>2
    <3>2. QED
      BY <2>1, <3>1
  <2>3. CASE i + 1 \notin H
    <3>1. \A o \in H : o <= i + 1 <=> o <= i
      BY <1>1, <2>3
    <3>2. Low(i + 1) = Low(i)
      BY <3>1
    <3>3. QED
      BY <1>3, <2>1, <3>2
  <2>4. QED
    BY <2>2, <2>3
<1> DEFINE GG == G
<1>4. \A i \in 0 .. n : i \in GG
  <2>1. 0 \in GG /\ \A i \in 0 .. n : i + 1 <= n /\ i \in GG => i + 1 \in GG
    BY <1>2, <1>3
  <2> HIDE DEF GG
  <2>2. QED
    BY <1>1, <2>1, StepInduction
<1>5. n \in G /\ Low(n) = H
  <2>1. n \in 0 .. n /\ \A o \in H : o <= n
    BY <1>1
  <2>2. Low(n) = H
    BY <2>1
  <2>3. QED
    BY <1>4, <2>1, <2>2
<1>6. QED
  BY <1>5

\* The newest card of a hand that is not empty is a card.
LEMMA NewestIsOne ==
  ASSUME NEW g, GameOK(g), NEW p \in Players, g.st.hands[p] # {}
  PROVE  Newest(g, p) \in Orders
<1>1. g.st.hands[p] \in SUBSET Orders
  BY DEF GameOK, St
<1>2. \E o \in g.st.hands[p] : \A q \in g.st.hands[p] : q <= o
  <2>1. DeckSize - 1 \in Nat /\ Orders = 0 .. DeckSize - 1
    BY TableAssumption DEF Orders
  <2>2. QED
    BY <1>1, <2>1, GreatestOne
<1>3. QED
  BY <1>1, <1>2 DEF Newest

\* Where the interpretation of a, the action after the first k, finds the game.
Interprets(R, pos, k, a) ==
  /\ SessionOK(session) /\ Course(session, R) /\ k = pos[Len(stack)]
  /\ k \in 0 .. Now(session) /\ k < Now(session)
  /\ a = session.log[k + 1] /\ a \in RealAct /\ a = Head(Top.todo).act
  /\ Played(session, R, game, k, k + 1) /\ GameOK(game)
  /\ Len(game.list) = game.st.turn_count + 1
  /\ game.st.turn_count = R[k].turn_count /\ game.st.hands = R[k].hands
  /\ game.st.drawn_index = R[k].drawn_index
  /\ R[k] \in St

\* It is where the innermost call is.
LEMMA Interpreting ==
  ASSUME NEW R, NEW pos, Alive(session, R, pos, stack, game, pc), pc = "interpret"
  PROVE  \E k : Interprets(R, pos, k, Head(Top.todo).act)
<1> DEFINE k == pos[Len(stack)]
           m == Goal(session, pos, Len(stack))
<1>1. /\ SessionOK(session) /\ Course(session, R)
      /\ InCalls(session, R, pos, stack, game, TRUE)
  BY DEF Alive
<1>2. Doing(session, R, Top, game, k, m, TRUE)
  BY <1>1, TopCall DEF Top
<1>3. k = pos[Len(stack)]
  OBVIOUS
<1> HIDE DEF k, m
<1>4. /\ k \in 0 .. Now(session) /\ k < Now(session)
      /\ Head(Top.todo).act = session.log[k + 1] /\ Head(Top.todo).act \in RealAct
      /\ Played(session, R, game, k, k + 1) /\ Len(game.list) = game.st.turn_count + 1
  <2> DEFINE f == Top
  <2>1. Doing(session, R, f, game, k, m, TRUE)
    BY <1>2
  <2> HIDE DEF f
  <2>2. /\ k \in 0 .. Now(session) /\ k < Now(session)
        /\ Head(f.todo).act = session.log[k + 1] /\ Head(f.todo).act \in RealAct
        /\ Played(session, R, game, k, k + 1) /\ Len(game.list) = game.st.turn_count + 1
    <3>1. /\ k \in 0 .. Now(session) /\ k < Now(session)
          /\ Played(session, R, game, k, k + 1) /\ Len(game.list) = game.st.turn_count + 1
      BY <1>1, <2>1, DoingBusy
    <3>2. Head(f.todo).act = session.log[k + 1]
      <4>1. f.todo # <<>> /\ f.todo[1].act = session.log[k + 1] /\ f.todo \in Seq(Entry)
        BY <2>1 DEF Doing, FrameOK
      <4>2. Head(f.todo) = f.todo[1]
        BY <4>1, TodoSplit
      <4>3. QED
        BY <4>1, <4>2
    <3>3. Head(f.todo).act \in RealAct
      BY <1>1, <2>1, DoingBusy
    <3>4. QED
      BY <3>1, <3>2, <3>3
  <2>3. QED
    BY <2>2 DEF f
<1>5. /\ GameOK(game) /\ game.st.turn_count = R[k].turn_count /\ game.st.hands = R[k].hands
      /\ game.st.drawn_index = R[k].drawn_index
  BY <1>1, <1>4, PlayedParts
<1>6. R[k] \in St
  BY <1>1, <1>4, RunsParts
<1>7. QED
  BY <1>1, <1>3, <1>4, <1>5, <1>6 DEF Interprets

\* An identification is an action that a rewind may insert.
LEMMA IdentifyParts ==
  ASSUME NEW o \in Orders, NEW p \in Players
  PROVE  \A a \in {Identify(o, p, TRUE), Identify(o, p, FALSE)} :
           a \in SpecialAct /\ a.order = o /\ a.playerIndex = p
<1>1. Deck[o] \in Ids
  BY Identities
<1>2. Identify(o, p, TRUE) = [type |-> "identify", order |-> o, playerIndex |-> p, infer |-> TRUE, id |-> NoId]
  BY DEF Identify
<1>3. Identify(o, p, FALSE) = [type |-> "identify", order |-> o, playerIndex |-> p, infer |-> FALSE, id |-> Deck[o]]
  BY DEF Identify
<1> DEFINE x == Identify(o, p, TRUE)
           y == Identify(o, p, FALSE)
           S == [type : {"identify"}, order : Orders, playerIndex : Players, infer : BOOLEAN,
                 id : Ids \cup {NoId}]
<1> HIDE DEF x, y
<1>4. x \in IdentifyAct /\ x.order = o /\ x.playerIndex = p
  <2>1. x = [type |-> "identify", order |-> o, playerIndex |-> p, infer |-> TRUE, id |-> NoId]
    BY <1>2 DEF x
  <2>2. x \in S
    BY <2>1
  <2>3. ~x.infer => x.id = Deck[x.order]
    BY <2>1
  <2>4. x.order = o /\ x.playerIndex = p
    BY <2>1
  <2>5. QED
    BY <2>2, <2>3, <2>4 DEF IdentifyAct
<1>5. y \in IdentifyAct /\ y.order = o /\ y.playerIndex = p
  <2>1. y = [type |-> "identify", order |-> o, playerIndex |-> p, infer |-> FALSE, id |-> Deck[o]]
    BY <1>3 DEF y
  <2>2. y \in S
    BY <1>1, <2>1
  <2>3. y.id = Deck[y.order]
    BY <2>1
  <2>4. y.order = o /\ y.playerIndex = p
    BY <2>1
  <2>5. QED
    BY <2>2, <2>3, <2>4 DEF IdentifyAct
<1>6. \A a \in {x, y} : a \in SpecialAct /\ a.order = o /\ a.playerIndex = p
  BY <1>4, <1>5 DEF SpecialAct
<1>7. QED
  BY <1>6 DEF x, y

\* The identification of a card in a hand, at its draw.
LEMMA IdentifyKeeps ==
  ASSUME NEW R, NEW pos, Alive(session, R, pos, stack, game, pc), pc = "interpret",
         NEW kind, kind \notin {"table", "nav"}, NEW p \in Players, NEW o \in game.st.hands[p],
         Start(kind, FromDraw(o), <<Identify(o, p, FALSE)>>),
         session' = [session EXCEPT !.requests = @ + 1],
         pc' \in {"idle", "handle", "interpret"}
  PROVE  \E q : Alive(session', R, q, stack', game', pc')
<1> DEFINE a == Identify(o, p, FALSE)
<1>1. PICK k : Interprets(R, pos, k, Head(Top.todo).act)
  BY Interpreting
<1>2. /\ SessionOK(session) /\ Course(session, R) /\ k \in 0 .. Now(session)
      /\ Played(session, R, game, k, k + 1) /\ o \in R[k].hands[p] /\ k = pos[Len(stack)]
      /\ game.st.drawn_index = R[k].drawn_index /\ R[k] \in St
  BY <1>1 DEF Interprets
<1>3. o \in Orders
  BY <1>2, FreshOrder
<1>4. a \in SpecialAct /\ a.order = o /\ a.playerIndex = p
  BY <1>3, IdentifyParts
<1>5. FromDraw(o) = R[k].drawn_index[o] + 1 /\ FromDraw(o) \in Int
  <2>1. R[k].drawn_index[o] \in Nat \cup {-1}
    BY <1>2, <1>3, StParts
  <2>2. QED
    BY <1>2, <2>1 DEF FromDraw
<1> HIDE DEF a
<1>6. Asked(session, R, game, k, FromDraw(o), <<a>>)
  BY <1>2, <1>4, <1>5, OneAsked
<1>7. <<a>> \in Seq(SpecialAct) /\ Start(kind, FromDraw(o), <<a>>)
  <2>1. <<a>> \in Seq(SpecialAct)
    BY <1>4
  <2>2. QED
    BY <2>1 DEF a
<1>8. Asked(session, R, game, pos[Len(stack)], FromDraw(o), <<a>>)
  BY <1>2, <1>6
<1>9. QED
  BY <1>5, <1>7, <1>8, StartKeeps

\* A card that is played or discarded is in the hand until then.
LEMMA LeavesHand ==
  ASSUME NEW R, NEW pos, NEW k, NEW a, Interprets(R, pos, k, a), a.type \in {"play", "discard"}
  PROVE  a.order \in game.st.hands[a.playerIndex]
<1>1. k + 1 \in 1 .. Now(session) /\ (k + 1) - 1 = k
  BY RunsParts DEF Interprets
<1>2. a = session.log[k + 1] /\ Orderly(session, R) /\ game.st.hands = R[k].hands
  BY DEF Interprets, Course
<1>3. QED
  BY <1>1, <1>2 DEF Orderly

\* A card of ours.
LEMMA AskIdentifyKeeps ==
  ASSUME NEW R, NEW pos, Alive(session, R, pos, stack, game, pc), pc = "interpret",
         AskIdentify(Head(Top.todo).act),
         session' = [session EXCEPT !.requests = @ + 1],
         pc' \in {"idle", "handle", "interpret"}
  PROVE  \E q : Alive(session', R, q, stack', game', pc')
<1> DEFINE a == Head(Top.todo).act
<1>1. PICK k : Interprets(R, pos, k, a)
  BY Interpreting
<1>2. PICK o \in Orders \ game.rewinded :
        /\ \/ a.type \in {"play", "discard"} /\ a.playerIndex = Us /\ a.order = o
           \/ a.type = "clue" /\ o \in OurHand(game)
        /\ Start("identify", FromDraw(o), <<Identify(o, Us, FALSE)>>)
  BY DEF AskIdentify
<1> HIDE DEF a
<1>3. o \in game.st.hands[Us] /\ Us \in Players
  BY <1>1, <1>2, LeavesHand, Identities DEF OurHand
<1>4. QED
  BY <1>2, <1>3, IdentifyKeeps

\* A card of a waiting connection.
LEMMA AskSilentKeeps ==
  ASSUME NEW R, NEW pos, Alive(session, R, pos, stack, game, pc), pc = "interpret",
         AskSilent(Head(Top.todo).act),
         session' = [session EXCEPT !.requests = @ + 1],
         pc' \in {"idle", "handle", "interpret"}
  PROVE  \E q : Alive(session', R, q, stack', game', pc')
<1>1. PICK o \in OurHand(game) \ game.rewinded :
        Start("silent", FromDraw(o), <<Identify(o, Us, FALSE)>>)
  BY DEF AskSilent
<1>2. o \in game.st.hands[Us] /\ Us \in Players
  BY <1>1, Identities DEF OurHand
<1>3. QED
  BY <1>1, <1>2, IdentifyKeeps

\* A clue is given to a player.
LEMMA TargetIsPlayer ==
  ASSUME NEW R, NEW pos, NEW k, NEW a, Interprets(R, pos, k, a), a.type = "clue"
  PROVE  a.target \in Players
<1>1. a \in RealAct
  BY DEF Interprets
<1>2. a \in ClueAct
  BY <1>1, ActTypes DEF AnyAct, Act
<1>3. QED
  BY <1>2 DEF ClueAct

\* A card of the target of a clue.
LEMMA AskFixKeeps ==
  ASSUME NEW R, NEW pos, Alive(session, R, pos, stack, game, pc), pc = "interpret",
         AskFix(Head(Top.todo).act),
         session' = [session EXCEPT !.requests = @ + 1],
         pc' \in {"idle", "handle", "interpret"}
  PROVE  \E q : Alive(session', R, q, stack', game', pc')
<1> DEFINE a == Head(Top.todo).act
<1>1. PICK k : Interprets(R, pos, k, a)
  BY Interpreting
<1>2. a.type = "clue"
  BY DEF AskFix
<1>3. PICK o \in game.st.hands[a.target] \ game.rewinded :
        Start("fix", FromDraw(o), <<Identify(o, a.target, FALSE)>>)
  BY DEF AskFix
<1> HIDE DEF a
<1>4. a.target \in Players
  BY <1>1, <1>2, TargetIsPlayer
<1>5. QED
  BY <1>3, <1>4, IdentifyKeeps

\* The card a clue is about.
LEMMA AskFocusKeeps ==
  ASSUME NEW R, NEW pos, Alive(session, R, pos, stack, game, pc), pc = "interpret",
         AskFocus(Head(Top.todo).act),
         session' = [session EXCEPT !.requests = @ + 1],
         pc' \in {"idle", "handle", "interpret"}
  PROVE  \E q : Alive(session', R, q, stack', game', pc')
<1> DEFINE a == Head(Top.todo).act
<1>1. PICK k : Interprets(R, pos, k, a)
  BY Interpreting
<1>2. a.type = "clue"
  BY DEF AskFocus
<1>3. PICK o \in game.st.hands[a.target] :
        Start("focus", FromDraw(o), <<Identify(o, a.target, FALSE)>>)
  BY DEF AskFocus
<1> HIDE DEF a
<1>4. a.target \in Players
  BY <1>1, <1>2, TargetIsPlayer
<1>5. QED
  BY <1>3, <1>4, IdentifyKeeps

\* One or two cards of ours, drawn before the turn that begins.
LEMMA AskDemonstrateKeeps ==
  ASSUME NEW R, NEW pos, Alive(session, R, pos, stack, game, pc), pc = "interpret",
         AskDemonstrate(Head(Top.todo).act),
         session' = [session EXCEPT !.requests = @ + 1],
         pc' \in {"idle", "handle", "interpret"}
  PROVE  \E r : Alive(session', R, r, stack', game', pc')
<1> DEFINE a == Head(Top.todo).act
<1>1. PICK k : Interprets(R, pos, k, a)
  BY Interpreting
<1>2. PICK o \in OurHand(game) \ game.rewinded, q \in OurHand(game) \ game.rewinded :
        /\ a.type = "turn" /\ o <= q /\ game.st.drawn_index[q] < a.num
        /\ LET os == IF o = q THEN <<o>> ELSE <<o, q>>
           IN  Start("demonstrate", FromDraw(Earliest({o, q})),
                     [i \in 1 .. Len(os) |-> Identify(os[i], Us, TRUE)])
  BY DEF AskDemonstrate
<1> HIDE DEF a
<1>3. /\ SessionOK(session) /\ Course(session, R) /\ k \in 0 .. Now(session) /\ k < Now(session)
      /\ Played(session, R, game, k, k + 1) /\ k = pos[Len(stack)]
      /\ o \in R[k].hands[Us] /\ q \in R[k].hands[Us] /\ Us \in Players
      /\ game.st.drawn_index = R[k].drawn_index /\ R[k] \in St
      /\ a = session.log[k + 1] /\ a \in RealAct
      /\ game.st.turn_count = R[k].turn_count /\ Len(game.list) = game.st.turn_count + 1
  BY <1>1, <1>2, Identities DEF Interprets, OurHand
<1>4. o \in Orders /\ q \in Orders /\ o <= q
  BY <1>2, <1>3, FreshOrder
<1>5. R[k].drawn_index[o] \in Int /\ R[k].drawn_index[q] \in Int
  <2>1. \A x \in Orders : R[k].drawn_index[x] \in Nat \cup {-1}
    BY <1>3, StParts
  <2>2. QED
    BY <1>4, <2>1
<1>6. R[k].drawn_index[o] <= R[k].drawn_index[q]
  BY <1>3, <1>4, DrawnInOrder
<1> DEFINE index == FromDraw(Earliest({o, q}))
           x == Identify(o, Us, TRUE)
           y == Identify(q, Us, TRUE)
<1>7. index = R[k].drawn_index[o] + 1 /\ index \in Int
  <2>1. FromDraw(o) = R[k].drawn_index[o] + 1 /\ FromDraw(q) = R[k].drawn_index[q] + 1
    BY <1>3 DEF FromDraw
  <2>2. FromDraw(o) \in Int /\ FromDraw(q) \in Int /\ FromDraw(o) <= FromDraw(q)
    BY <1>5, <1>6, <2>1
  <2>3. \E z \in {o, q} : \A w \in {o, q} : FromDraw(z) <= FromDraw(w)
    BY <2>2
  <2>4. Earliest({o, q}) \in {o, q} /\ \A w \in {o, q} : FromDraw(Earliest({o, q})) <= FromDraw(w)
    BY <2>3 DEF Earliest
  <2>5. index \in {FromDraw(o), FromDraw(q)} /\ index <= FromDraw(o)
    BY <2>4
  <2> HIDE DEF index
  <2>6. index = FromDraw(o)
    BY <2>2, <2>5
  <2>7. QED
    BY <2>1, <2>2, <2>6
<1>8. x \in SpecialAct /\ x.order = o /\ x.playerIndex = Us
  BY <1>3, <1>4, IdentifyParts
<1>9. y \in SpecialAct /\ y.order = q /\ y.playerIndex = Us
  BY <1>3, <1>4, IdentifyParts
<1>10. ~Invalid(game, index) => R[k].drawn_index[q] + 1 < Len(game.list)
  <2>1. game.st.turn_count \in {0, a.num}
    <3>1. k + 1 \in 1 .. Now(session) /\ (k + 1) - 1 = k
      BY <1>3, RunsParts
    <3>2. Orderly(session, R)
      BY <1>3 DEF Course
    <3>3. QED
      BY <1>2, <1>3, <3>1, <3>2 DEF Orderly
  <2>2. R[k].drawn_index[q] < a.num
    BY <1>2, <1>3
  <2>3. R[k].drawn_index[o] \in Nat
    <3>1. PICK i : Spot(session, R, game, k, o, Us, i, R[k].drawn_index[o] + 1)
      BY <1>3, Spotted
    <3>2. R[k].drawn_index[o] + 1 \in 1 .. Len(game.list)
      BY <3>1 DEF Spot
    <3>3. QED
      BY <1>5, <3>2
  <2>4. CASE game.st.turn_count = a.num
    <3>1. game.st.turn_count \in Nat
      BY <1>3, StParts
    <3>2. QED
      BY <1>3, <1>5, <2>2, <2>4, <3>1
  <2>5. CASE game.st.turn_count = 0
    <3>1. Len(game.list) = 1 /\ index >= 1
      BY <1>3, <1>7, <2>3, <2>5
    <3> HIDE DEF index
    <3>2. Invalid(game, index)
      BY <3>1 DEF Invalid
    <3>3. QED
      BY <3>2
  <2>6. QED
    BY <2>1, <2>4, <2>5
<1> HIDE DEF index
<1>11. CASE o = q
  <2>1. Start("demonstrate", index, <<x>>)
    <3>1. Start("demonstrate", index, [i \in 1 .. Len(<<o>>) |-> Identify(<<o>>[i], Us, TRUE)])
      BY <1>2, <1>11 DEF index
    <3> DEFINE s == <<o>>
               w == [i \in 1 .. Len(s) |-> Identify(s[i], Us, TRUE)]
    <3>2. Len(s) = 1 /\ s[1] = o /\ 1 .. 1 = {1}
      OBVIOUS
    <3> HIDE DEF s
    <3>3. w \in [1 .. 1 -> {x}]
      BY <3>2
    <3> HIDE DEF w, x
    <3>4. w \in Seq({x}) /\ Len(w) = 1 /\ w[1] = x
      BY <3>2, <3>3, FunctionIsSeq
    <3>5. w = <<x>>
      BY <3>4
    <3>6. QED
      BY <3>1, <3>5 DEF w, s
  <2> HIDE DEF x
  <2>2. Asked(session, R, game, k, index, <<x>>)
    BY <1>3, <1>7, <1>8, OneAsked
  <2>3. <<x>> \in Seq(SpecialAct)
    BY <1>8
  <2>4. Asked(session, R, game, pos[Len(stack)], index, <<x>>)
    BY <1>3, <2>2
  <2>5. QED
    BY <1>7, <2>1, <2>3, <2>4, StartKeeps
<1>12. CASE o # q
  <2>1. Start("demonstrate", index, <<x, y>>)
    <3>1. Start("demonstrate", index, [i \in 1 .. Len(<<o, q>>) |-> Identify(<<o, q>>[i], Us, TRUE)])
      BY <1>2, <1>12 DEF index
    <3> DEFINE s == <<o, q>>
               w == [i \in 1 .. Len(s) |-> Identify(s[i], Us, TRUE)]
    <3>2. Len(s) = 2 /\ s[1] = o /\ s[2] = q /\ 1 .. 2 = {1, 2}
      OBVIOUS
    <3> HIDE DEF s
    <3>3. w \in [1 .. 2 -> {x, y}] /\ w[1] = x /\ w[2] = y
      BY <3>2
    <3> HIDE DEF w, x, y
    <3>4. w \in Seq({x, y}) /\ Len(w) = 2 /\ w[1] = x /\ w[2] = y
      BY <3>3, FunctionIsSeq
    <3>5. w = <<x, y>>
      BY <3>4
    <3>6. QED
      BY <3>1, <3>5 DEF w, s
  <2> HIDE DEF x, y
  <2>2. ~Invalid(game, index) => Asked(session, R, game, k, index, <<x, y>>)
    BY <1>3, <1>7, <1>8, <1>9, <1>10, <1>4, TwoAsked
  <2>3. <<x, y>> \in Seq(SpecialAct)
    BY <1>8, <1>9
  <2>4. ~Invalid(game, index) => Asked(session, R, game, pos[Len(stack)], index, <<x, y>>)
    BY <1>3, <2>2
  <2>5. QED
    BY <1>7, <2>1, <2>3, <2>4, StartKeeps
<1>13. QED
  BY <1>11, <1>12

\* The mark of a card: no identification is asked for.
LEMMA MarkKeeps ==
  ASSUME NEW R, NEW pos, Alive(session, R, pos, stack, game, pc), pc = "interpret",
         NEW type \in {"ignore", "finesse"}, NEW kind, kind \notin {"table", "nav"},
         NEW t \in Int, OurHand(game) # {},
         Start(kind, t, <<[type |-> type, order |-> Newest(game, Us)]>>),
         session' = [session EXCEPT !.requests = @ + 1],
         pc' \in {"idle", "handle", "interpret"}
  PROVE  \E q : Alive(session', R, q, stack', game', pc')
<1> DEFINE a == [type |-> type, order |-> Newest(game, Us)]
<1>1. PICK k : Interprets(R, pos, k, Head(Top.todo).act)
  BY Interpreting
<1>2. Newest(game, Us) \in Orders
  BY <1>1, NewestIsOne, Identities DEF OurHand, Interprets
<1>3. a \in SpecialAct /\ a.type # "identify"
  BY <1>2 DEF SpecialAct, MarkAct
<1>4. Start(kind, t, <<a>>)
  OBVIOUS
<1> HIDE DEF a
<1>5. <<a>> \in Seq(SpecialAct) /\ Len(<<a>>) = 1 /\ <<a>>[1] = a
  BY <1>3
<1>6. Asked(session, R, game, pos[Len(stack)], t, <<a>>)
  BY <1>3, <1>5 DEF Asked
<1>7. QED
  BY <1>4, <1>5, <1>6, StartKeeps

\* The turns of clues are turns.
LEMMA ClueTurnsParts ==
  ASSUME GameOK(game)
  PROVE  ClueTurns \subseteq Int
<1>1. Len(game.list) \in Nat
  BY DEF GameOK
<1>2. QED
  BY <1>1 DEF ClueTurns

\* Whatever a rewind is asked for.
LEMMA AskKeeps ==
  ASSUME NEW R, NEW pos, Alive(session, R, pos, stack, game, pc), AskRewind,
         pc' \in {"idle", "handle", "interpret"}
  PROVE  \E q : Alive(session', R, q, stack', game', pc')
<1> DEFINE a == Head(Top.todo).act
<1>1. pc = "interpret" /\ session' = [session EXCEPT !.requests = @ + 1]
  BY DEF AskRewind
<1>2. PICK kind \in Kinds : Request(kind, a)
  BY DEF AskRewind
<1>3. ClueTurns \subseteq Int /\ -1 \in Int
  <2>1. PICK k : Interprets(R, pos, k, a)
    BY <1>1, Interpreting
  <2> HIDE DEF a
  <2>2. QED
    BY <2>1, ClueTurnsParts DEF Interprets
<1>4. CASE AskIdentify(a)
  BY <1>1, <1>4, AskIdentifyKeeps
<1>5. CASE AskSilent(a)
  BY <1>1, <1>5, AskSilentKeeps
<1>6. CASE AskDemonstrate(a)
  BY <1>1, <1>6, AskDemonstrateKeeps
<1>7. CASE AskIgnore(a)
  <2>1. PICK t \in ClueTurns :
          OurHand(game) # {} /\ Start("ignore", t, <<[type |-> "ignore", order |-> Newest(game, Us)]>>)
    BY <1>7 DEF AskIgnore
  <2>2. t \in Int
    BY <1>3
  <2>3. QED
    BY <1>1, <2>1, <2>2, MarkKeeps
<1>8. CASE AskFinesse(a)
  <2>1. PICK t \in ClueTurns \cup {-1} :
          OurHand(game) # {} /\ Start("finesse", t, <<[type |-> "finesse", order |-> Newest(game, Us)]>>)
    BY <1>8 DEF AskFinesse
  <2>2. t \in Int
    BY <1>3
  <2>3. QED
    BY <1>1, <2>1, <2>2, MarkKeeps
<1>9. CASE AskFix(a)
  BY <1>1, <1>9, AskFixKeeps
<1>10. CASE AskFocus(a)
  BY <1>1, <1>10, AskFocusKeeps
<1>11. QED
  BY <1>2, <1>4, <1>5, <1>6, <1>7, <1>8, <1>9, <1>10 DEF Request

-----------------------------------------------------------------------------
(* The log grows *)

\* What has to hold of an action a that takes the State r to s.
Fits(r, a, s, phase) ==
  /\ a \in RealAct /\ s = StepOf(r, a)
  /\ a.type = "draw" => a.order = r.cardOrder + 1
  /\ a.type \in {"play", "discard"} => a.order \in r.hands[a.playerIndex]
  /\ a.type = "turn" => r.turn_count \in {0, a.num}
  /\ a.type = "gameOver" => phase = "over"

\* tt is ss with one more action.
Grown(ss, tt, a, s) ==
  /\ tt.log = Append(ss.log, a) /\ tt.table = s
  /\ tt.begun = [t \in 1 .. s.turn_count |-> IF t \in DOMAIN ss.begun THEN ss.begun[t] ELSE s]
  /\ ss.phase # "over"

\* The course of tt.
Longer(ss, R, s) == [k \in 0 .. Now(ss) + 1 |-> IF k = Now(ss) + 1 THEN s ELSE R[k]]

\* Counters are numbers.
LEMMA Counters ==
  ASSUME NEW r \in St
  PROVE  r.turn_count \in Nat /\ r.turn_count \in Int /\ r.cardOrder \in Int
<1>1. r.turn_count \in Nat /\ r.cardOrder \in Orders \cup {-1}
  BY StParts
<1>2. \A o \in Orders : o \in Int
  BY Identities
<1>3. -1 \in Int /\ \A n \in Nat : n \in Int
  OBVIOUS
<1>4. r.cardOrder \in Int
  BY <1>1, <1>2, <1>3
<1>5. QED
  BY <1>1, <1>3, <1>4

\* An action that fits takes a State on.
LEMMA FitsOn ==
  ASSUME NEW r \in St, Known(r), NEW a, NEW s, NEW phase, Fits(r, a, s, phase)
  PROVE  /\ s \in St /\ Known(s)
         /\ r.turn_count <= s.turn_count /\ r.cardOrder <= s.cardOrder
<1>1. a \in RealAct /\ s = StepOf(r, a)
  BY DEF Fits
<1>2. s \in St /\ Known(s)
  BY <1>1, StepType, StepKnown
<1>3. r.turn_count \in Nat /\ r.cardOrder \in Int
  BY Counters
<1>4. CASE a \in DrawAct
  <2>1. /\ s.turn_count \in {r.turn_count, 1} /\ (s.turn_count # r.turn_count => r.turn_count = 0)
        /\ s.cardOrder = a.order
    BY <1>1, <1>4, DrawParts
  <2>2. a.order = r.cardOrder + 1
    BY <1>4 DEF Fits, DrawAct
  <2>3. QED
    BY <1>2, <1>3, <2>1, <2>2
<1>5. CASE a \in LeaveAct
  <2>1. s.turn_count = r.turn_count /\ s.cardOrder = r.cardOrder
    BY <1>1, <1>5, LeaveParts
  <2>2. QED
    BY <1>2, <1>3, <2>1
<1>6. CASE a \in ClueAct \cup TurnAct \cup OverAct
  <2>1. /\ s.turn_count = IF a.type = "turn" THEN a.num + 1 ELSE r.turn_count
        /\ s.cardOrder = r.cardOrder
    BY <1>1, <1>6, OtherParts
  <2>2. a.type = "turn" => a.num \in Nat
    BY <1>6 DEF ClueAct, TurnAct, OverAct
  <2>3. a.type = "turn" => r.turn_count \in {0, a.num}
    BY DEF Fits
  <2>4. QED
    BY <1>2, <1>3, <2>1, <2>2, <2>3
<1>7. QED
  BY <1>1, <1>4, <1>5, <1>6, RealKinds

\* The cards in the hands after an action that fits: those that were there, with
\* their draws, and the one that is drawn.
LEMMA FitsHands ==
  ASSUME NEW r \in St, NEW a, NEW s, NEW phase, Fits(r, a, s, phase),
         NEW p \in Players, NEW o \in s.hands[p],
         \A x \in r.hands[p] : x \in Orders /\ x <= r.cardOrder
  PROVE  \/ o \in r.hands[p] /\ s.drawn_index[o] = r.drawn_index[o]
         \/ Draws(a, o, p) /\ s.drawn_index[o] = r.turn_count
<1>1. a \in RealAct /\ s = StepOf(r, a)
  BY DEF Fits
<1>2. CASE a \in DrawAct
  <2>1. /\ s.hands = With(r.hands, a.playerIndex, a.order)
        /\ s.drawn_index = [r.drawn_index EXCEPT ![a.order] = r.turn_count]
    BY <1>1, <1>2, DrawParts
  <2>2. a.order = r.cardOrder + 1 /\ a.order \in Orders /\ a.playerIndex \in Players /\ a.type = "draw"
    BY <1>2 DEF Fits, DrawAct
  <2>3. /\ r.hands \in [Players -> SUBSET Orders] /\ r.drawn_index \in [Orders -> Nat \cup {-1}]
        /\ r.cardOrder \in Int
    BY StParts, Counters
  <2>4. CASE o \in r.hands[p]
    <3>1. o \in Orders /\ o <= r.cardOrder
      BY <2>4
    <3>2. o # a.order
      BY <2>2, <2>3, <3>1, Identities
    <3>3. s.drawn_index[o] = r.drawn_index[o]
      BY <2>1, <2>3, <3>1, <3>2
    <3>4. QED
      BY <2>4, <3>3
  <2>5. CASE o \notin r.hands[p]
    <3>1. o = a.order /\ p = a.playerIndex
      BY <2>1, <2>2, <2>3, <2>5 DEF With
    <3>2. s.drawn_index[o] = r.turn_count
      BY <2>1, <2>2, <2>3, <3>1
    <3>3. QED
      BY <2>2, <3>1, <3>2 DEF Draws
  <2>6. QED
    BY <2>4, <2>5
<1>3. CASE a \in LeaveAct
  <2>1. /\ s.hands = Without(r.hands, a.playerIndex, a.order) /\ s.drawn_index = r.drawn_index
    BY <1>1, <1>3, LeaveParts
  <2>2. r.hands \in [Players -> SUBSET Orders] /\ a.playerIndex \in Players
    BY <1>3, StParts DEF LeaveAct
  <2>3. o \in r.hands[p]
    BY <2>1, <2>2 DEF Without
  <2>4. QED
    BY <2>1, <2>3
<1>4. CASE a \in ClueAct \cup TurnAct \cup OverAct
  <2>1. s.hands = r.hands /\ s.drawn_index = r.drawn_index
    BY <1>1, <1>4, OtherParts
  <2>2. QED
    BY <2>1
<1>5. QED
  BY <1>1, <1>2, <1>3, <1>4, RealKinds

\* The places in the longer log, and in its course Q.
Lengthened(ss, R, tt, a, s, n, Q) ==
  /\ n \in Nat /\ Now(tt) = n + 1 /\ tt.log \in Seq(RealAct)
  /\ \A k \in 1 .. n : tt.log[k] = ss.log[k]
  /\ tt.log[n + 1] = a
  /\ \A k \in 0 .. n : Q[k] = R[k]
  /\ Q[n + 1] = s /\ R[n] = ss.table
  /\ \A k \in 0 .. n + 1 : k \in 0 .. n \/ k = n + 1
  /\ \A k \in 1 .. n : k - 1 \in 0 .. n
  /\ (n + 1) - 1 = n /\ n \in 0 .. n

\* They are the old ones and one more.
LEMMA LongerParts ==
  ASSUME NEW ss, NEW R, SessionOK(ss), Course(ss, R), NEW tt, NEW a \in RealAct, NEW s,
         Grown(ss, tt, a, s), NEW n, n = Now(ss), NEW Q, Q = Longer(ss, R, s)
  PROVE  Lengthened(ss, R, tt, a, s, n, Q)
<1>1. n \in Nat /\ n = Len(ss.log) /\ ss.log \in Seq(RealAct)
  BY RunsParts
<1>2. /\ tt.log \in Seq(RealAct) /\ Len(tt.log) = n + 1
      /\ \A k \in 1 .. n : tt.log[k] = ss.log[k]
      /\ tt.log[n + 1] = a
  BY <1>1, AppendParts DEF Grown
<1>3. /\ \A k \in 0 .. n : Q[k] = R[k]
      /\ Q[n + 1] = s
  BY <1>1 DEF Longer
<1>4. R[n] = ss.table
  BY DEF Course, Runs
<1>5. QED
  BY <1>1, <1>2, <1>3, <1>4 DEF Now, Lengthened

\* The longer course explains the longer log.
LEMMA CourseGrows ==
  ASSUME NEW ss, NEW R, SessionOK(ss), Course(ss, R), NEW tt, NEW a, NEW s,
         Fits(ss.table, a, s, tt.phase), Grown(ss, tt, a, s), Ahead(tt)
  PROVE  Course(tt, Longer(ss, R, s))
<1> DEFINE n == Now(ss)
           Q == Longer(ss, R, s)
<1>1. a \in RealAct
  BY DEF Fits
<1>2. /\ n \in Nat /\ Now(tt) = n + 1 /\ tt.log \in Seq(RealAct)
      /\ \A k \in 1 .. n : tt.log[k] = ss.log[k]
      /\ tt.log[n + 1] = a
      /\ \A k \in 0 .. n : Q[k] = R[k]
      /\ Q[n + 1] = s /\ R[n] = ss.table
      /\ \A k \in 0 .. n + 1 : k \in 0 .. n \/ k = n + 1
      /\ \A k \in 1 .. n : k - 1 \in 0 .. n
      /\ (n + 1) - 1 = n /\ n \in 0 .. n
  <2>1. n = Now(ss) /\ Q = Longer(ss, R, s)
    OBVIOUS
  <2> HIDE DEF n, Q
  <2>2. Lengthened(ss, R, tt, a, s, n, Q)
    BY <1>1, <2>1, LongerParts
  <2>3. QED
    BY <2>2 DEF Lengthened
<1>3. \A k \in 0 .. n : R[k] \in St /\ Known(R[k])
  BY RunsParts
<1>4. /\ s \in St /\ Known(s)
      /\ R[n].turn_count <= s.turn_count /\ R[n].cardOrder <= s.cardOrder
  BY <1>2, <1>3, FitsOn
<1>5. \A k \in 1 .. n : k \in 0 .. n
  BY <1>2
<1>6. \A k \in 1 .. n + 1 : k \in 1 .. n \/ k = n + 1
  BY <1>2
<1> HIDE DEF Q
<1>7. Runs(tt, Q)
  <2>1. Q[0] = InitialState
    BY <1>2 DEF Course, Runs
  <2>2. Q[n + 1] = tt.table
    BY <1>2 DEF Grown
  <2>3. \A k \in 0 .. n + 1 : Q[k] \in St
    BY <1>2, <1>3, <1>4
  <2>4. ASSUME NEW k \in 1 .. n + 1 PROVE Q[k] = StepOf(Q[k - 1], tt.log[k])
    <3>1. CASE k \in 1 .. n
      <4>1. R[k] = StepOf(R[k - 1], ss.log[k])
        BY <3>1 DEF Course, Runs
      <4>2. QED
        BY <1>2, <1>5, <3>1, <4>1
    <3>2. CASE k = n + 1
      <4>1. Q[k] = s /\ Q[k - 1] = ss.table /\ tt.log[k] = a
        BY <1>2, <3>2
      <4>2. QED
        BY <4>1 DEF Fits
    <3>3. QED
      BY <1>6, <3>1, <3>2
  <2>5. QED
    BY <1>2, <2>1, <2>2, <2>3, <2>4 DEF Runs
<1>8. Truth(tt, Q)
  BY <1>2, <1>3, <1>4 DEF Truth
<1>9. Onward(tt, Q)
  <2>1. SUFFICES ASSUME NEW i \in 0 .. n + 1, NEW k \in 0 .. n + 1, i <= k
                 PROVE  Q[i].turn_count <= Q[k].turn_count /\ Q[i].cardOrder <= Q[k].cardOrder
    BY <1>2 DEF Onward
  <2>2. \A x \in 0 .. n + 1 : Q[x].turn_count \in Int /\ Q[x].cardOrder \in Int
    <3>1. \A x \in 0 .. n + 1 : Q[x] \in St
      BY <1>2, <1>3, <1>4
    <3>2. QED
      BY <3>1, Counters
  <2>3. CASE k \in 0 .. n
    <3>1. i \in 0 .. n
      BY <1>2, <2>1, <2>3
    <3>2. R[i].turn_count <= R[k].turn_count /\ R[i].cardOrder <= R[k].cardOrder
      BY <2>1, <2>3, <3>1 DEF Course, Onward
    <3>3. QED
      BY <1>2, <2>3, <3>1, <3>2
  <2>4. CASE k = n + 1 /\ i \in 0 .. n
    <3>1. i <= n
      BY <1>2, <2>4
    <3>2. R[i].turn_count <= R[n].turn_count /\ R[i].cardOrder <= R[n].cardOrder
      BY <1>2, <2>4, <3>1 DEF Course, Onward
    <3>3. Q[i] = R[i] /\ Q[k] = s /\ Q[n] = R[n] /\ n \in 0 .. n + 1
      BY <1>2, <2>4
    <3>4. QED
      BY <1>4, <2>2, <3>2, <3>3
  <2>5. CASE k = n + 1 /\ i = n + 1
    BY <2>2, <2>5
  <2>6. QED
    BY <1>2, <2>3, <2>4, <2>5
<1>10. Orderly(tt, Q)
  <2>1. ASSUME NEW k \in 1 .. n + 1
        PROVE  /\ tt.log[k].type = "draw" => tt.log[k].order = Q[k - 1].cardOrder + 1
               /\ tt.log[k].type \in {"play", "discard"} => tt.log[k].order \in Q[k - 1].hands[tt.log[k].playerIndex]
               /\ tt.log[k].type = "turn" => Q[k - 1].turn_count \in {0, tt.log[k].num}
               /\ tt.log[k].type = "gameOver" => tt.phase = "over"
    <3>1. CASE k \in 1 .. n
      <4>1. ss.phase # "over" /\ Orderly(ss, R)
        BY DEF Grown, Course
      <4>2. tt.log[k] = ss.log[k] /\ Q[k - 1] = R[k - 1]
        BY <1>2, <3>1
      <4>3. QED
        BY <3>1, <4>1, <4>2 DEF Orderly
    <3>2. CASE k = n + 1
      <4>1. tt.log[k] = a /\ Q[k - 1] = ss.table
        BY <1>2, <3>2
      <4>2. QED
        BY <4>1 DEF Fits
    <3>3. QED
      BY <1>6, <3>1, <3>2
  <2>2. QED
    BY <1>2, <2>1 DEF Orderly
<1>11. Held(tt, Q)
  <2>1. SUFFICES ASSUME NEW k \in 0 .. n + 1, NEW p \in Players, NEW o \in Q[k].hands[p]
                 PROVE  \E i \in 1 .. k :
                          /\ Draws(tt.log[i], o, p) /\ Q[i - 1].turn_count = Q[k].drawn_index[o]
                          /\ \A j \in i .. k : o \in Q[j].hands[p]
    BY <1>2 DEF Held
  <2>2. ASSUME NEW m \in 0 .. n, NEW x \in R[m].hands[p]
        PROVE  \E i \in 1 .. m :
                 /\ Draws(tt.log[i], x, p) /\ Q[i - 1].turn_count = R[m].drawn_index[x]
                 /\ \A j \in i .. m : x \in Q[j].hands[p]
    <3>1. PICK i \in 1 .. m : /\ Draws(ss.log[i], x, p) /\ R[i - 1].turn_count = R[m].drawn_index[x]
                              /\ \A j \in i .. m : x \in R[j].hands[p]
      BY <2>2 DEF Course, Held
    <3>2. i \in 1 .. n /\ \A j \in i .. m : j \in 0 .. n
      BY <1>2
    <3>3. Q[i - 1] = R[i - 1] /\ tt.log[i] = ss.log[i] /\ \A j \in i .. m : Q[j] = R[j]
      BY <1>2, <3>2
    <3>4. QED
      BY <3>1, <3>3
  <2>3. CASE k \in 0 .. n
    <3>1. Q[k] = R[k]
      BY <1>2, <2>3
    <3>2. QED
      BY <2>2, <2>3, <3>1
  <2>4. CASE k = n + 1
    <3>1. Q[k] = s /\ o \in s.hands[p]
      BY <1>2, <2>4
    <3>2. \A x \in R[n].hands[p] : x \in Orders /\ x <= R[n].cardOrder
      BY <1>2, FreshOrder
    <3>3. \/ o \in R[n].hands[p] /\ s.drawn_index[o] = R[n].drawn_index[o]
          \/ Draws(a, o, p) /\ s.drawn_index[o] = R[n].turn_count
      <4>1. Fits(R[n], a, s, tt.phase) /\ R[n] \in St
        BY <1>2, <1>3
      <4>2. QED
        BY <3>1, <3>2, <4>1, FitsHands
    <3>4. CASE o \in R[n].hands[p] /\ s.drawn_index[o] = R[n].drawn_index[o]
      <4>1. PICK i \in 1 .. n : /\ Draws(tt.log[i], o, p) /\ Q[i - 1].turn_count = R[n].drawn_index[o]
                                /\ \A j \in i .. n : o \in Q[j].hands[p]
        BY <1>2, <2>2, <3>4
      <4>2. i \in 1 .. k /\ \A j \in i .. k : j \in i .. n \/ j = k
        BY <1>2, <2>4
      <4>3. \A j \in i .. k : o \in Q[j].hands[p]
        BY <3>1, <4>1, <4>2
      <4>4. QED
        BY <3>1, <3>4, <4>1, <4>2, <4>3
    <3>5. CASE Draws(a, o, p) /\ s.drawn_index[o] = R[n].turn_count
      <4>1. k \in 1 .. k /\ k .. k = {k} /\ tt.log[k] = a /\ Q[k - 1] = R[n]
        BY <1>2, <2>4
      <4>2. Draws(tt.log[k], o, p) /\ Q[k - 1].turn_count = Q[k].drawn_index[o]
        BY <3>1, <3>5, <4>1
      <4>3. \A j \in k .. k : o \in Q[j].hands[p]
        BY <3>1, <4>1
      <4>4. QED
        BY <4>1, <4>2, <4>3
    <3>6. QED
      BY <3>3, <3>4, <3>5
  <2>5. QED
    BY <1>2, <2>3, <2>4
<1>12. Began(tt, Q)
  <2>1. /\ tt.table = s
        /\ tt.begun = [t \in 1 .. s.turn_count |-> IF t \in DOMAIN ss.begun THEN ss.begun[t] ELSE s]
    BY DEF Grown
  <2>2. Began(ss, R)
    BY DEF Course
  <2>3. DOMAIN ss.begun = 1 .. R[n].turn_count
    BY <1>2, <2>2 DEF Began
  <2>4. tt.begun = [t \in 1 .. s.turn_count |-> tt.begun[t]]
    BY <2>1
  <2>5. \A x \in 0 .. n : R[x].turn_count \in Nat
    BY <1>3, StParts
  <2>6. s.turn_count \in Nat
    BY <1>4, StParts
  <2>7. ASSUME NEW t \in 1 .. s.turn_count, NEW k \in 1 .. n + 1,
               Q[k - 1].turn_count < t, t <= Q[k].turn_count
        PROVE  tt.begun[t] = Q[k]
    <3>1. CASE k \in 1 .. n
      <4>1. Q[k] = R[k] /\ Q[k - 1] = R[k - 1] /\ k \in 0 .. n /\ k <= n
        BY <1>2, <1>5, <3>1
      <4>2. R[k].turn_count <= R[n].turn_count
        BY <1>2, <4>1 DEF Course, Onward
      <4>3. t \in 1 .. R[n].turn_count
        BY <1>2, <2>5, <2>6, <2>7, <4>1, <4>2
      <4>4. ss.begun[t] = R[k]
        BY <1>2, <2>2, <2>7, <3>1, <4>1, <4>3 DEF Began
      <4>5. QED
        BY <2>1, <2>3, <4>1, <4>3, <4>4
    <3>2. CASE k = n + 1
      <4>1. Q[k] = s /\ Q[k - 1] = R[n]
        BY <1>2, <3>2
      <4>2. t \notin 1 .. R[n].turn_count
        BY <1>2, <2>5, <2>6, <2>7, <4>1
      <4>3. QED
        BY <2>1, <2>3, <4>1, <4>2
    <3>3. QED
      BY <1>6, <3>1, <3>2
  <2>8. QED
    BY <1>2, <2>1, <2>4, <2>7 DEF Began
<1>13. QED
  BY <1>7, <1>8, <1>9, <1>10, <1>11, <1>12 DEF Course, Q

-----------------------------------------------------------------------------
(* Actions of the server *)

\* One entry for one action.
LEMMA OneAct ==
  ASSUME NEW a \in RealAct
  PROVE  LET todo == Entries(<<a>>, "table")
         IN  /\ todo \in Seq(Entry) /\ Acts(todo) = <<a>> /\ Real(Acts(todo)) = <<a>>
             /\ \A i \in 1 .. Len(todo) : todo[i].part = "table"
<1>1. <<a>> \in Seq(RealAct) /\ <<a>> \in Seq(Act) /\ "table" \in Parts \ {"restore", "insert", "waited"}
  BY DEF Act, Parts
<1> DEFINE todo == Entries(<<a>>, "table")
<1>2. /\ todo \in Seq(Entry) /\ Len(todo) = Len(<<a>>)
      /\ \A i \in 1 .. Len(<<a>>) : todo[i] = [act |-> <<a>>[i], part |-> "table"]
      /\ Acts(todo) = <<a>>
  BY <1>1, EntriesParts
<1>3. \A i \in 1 .. Len(todo) : todo[i].part = "table"
  <2>1. Len(<<a>>) = 1 /\ 1 \in 1 .. Len(<<a>>) /\ <<a>>[1] = a /\ \A i \in 1 .. 1 : i = 1
    OBVIOUS
  <2>2. Len(todo) = 1 /\ todo[1] = [act |-> a, part |-> "table"]
    BY <1>2, <2>1
  <2> HIDE DEF todo
  <2>3. todo[1].part = "table"
    BY <2>2
  <2>4. QED
    BY <2>1, <2>2, <2>3
<1>4. Real(<<a>>) = <<a>>
  BY <1>1, RealType
<1>5. QED
  BY <1>2, <1>3, <1>4

\* A game at ease that is shown nothing else has handled the whole log.
LEMMA EasePlayed ==
  ASSUME NEW ss, NEW R, NEW g, AtEase(ss, R, g), ss.phase # "over"
  PROVE  Played(ss, R, g, Now(ss), Now(ss)) /\ ss.shown = 0
BY DEF AtEase

\* The game of which the log has grown is where it was.
LEMMA PlayedGrows ==
  ASSUME NEW ss, NEW R, SessionOK(ss), Course(ss, R), NEW tt, NEW a, NEW s,
         Fits(ss.table, a, s, tt.phase), Grown(ss, tt, a, s), tt.live = ss.live,
         NEW g, Played(ss, R, g, Now(ss), Now(ss))
  PROVE  Played(tt, Longer(ss, R, s), g, Now(ss), Now(ss))
<1> DEFINE n == Now(ss)
           Q == Longer(ss, R, s)
<1>1. a \in RealAct
  BY DEF Fits
<1>2. Lengthened(ss, R, tt, a, s, n, Q)
  <2>1. n = Now(ss) /\ Q = Longer(ss, R, s)
    OBVIOUS
  <2> HIDE DEF n, Q
  <2>2. QED
    BY <1>1, <2>1, LongerParts
<1> HIDE DEF n, Q
<1>3. Follows(g.st, Q[n])
  BY <1>2 DEF Lengthened, Played, n
<1>4. SubSeq(tt.log, 1, n) = SubSeq(ss.log, 1, n)
  <2>1. ss.log \in Seq(RealAct) /\ n = Len(ss.log)
    BY RunsParts DEF n
  <2>2. SubSeq(ss.log, 1, n) = ss.log
    BY <2>1, PartWhole
  <2>3. tt.log = Append(ss.log, a)
    BY DEF Grown
  <2>4. SubSeq(Append(ss.log, a), 1, n) = ss.log
    BY <1>1, <2>1
  <2>5. QED
    BY <2>2, <2>3, <2>4
<1>5. Filed(tt, Q, g, n)
  <2>1. Filed(ss, R, g, n)
    BY DEF Played, n
  <2>2. ASSUME NEW i \in 1 .. n
        PROVE  tt.log[i] = ss.log[i] /\ Q[i - 1] = R[i - 1]
    BY <1>2 DEF Lengthened
  <2>3. QED
    BY <2>1, <2>2 DEF Filed
<1>6. tt.live /\ tt.phase # "over" => g.inProgress = TRUE
  BY DEF Played, Grown
<1>7. QED
  BY <1>3, <1>4, <1>5, <1>6 DEF Played, n, Q

\* handle_action is called with the new action.
LEMMA OneCall ==
  ASSUME NEW ss, NEW R, SessionOK(ss), Course(ss, R), NEW tt, NEW a, NEW s,
         Fits(ss.table, a, s, tt.phase), Grown(ss, tt, a, s), tt.live = ss.live,
         tt.shown = ss.shown, ss.shown = 0,
         NEW g, Played(ss, R, g, Now(ss), Now(ss))
  PROVE  InCalls(tt, Longer(ss, R, s), <<Now(ss)>>,
                 <<Frame("table", "none", "none", Entries(<<a>>, "table"))>>, g, FALSE)
<1> DEFINE n == Now(ss)
           Q == Longer(ss, R, s)
           todo == Entries(<<a>>, "table")
           f == Frame("table", "none", "none", todo)
           cs == <<f>>
           pos == <<n>>
<1>1. a \in RealAct
  BY DEF Fits
<1>2. Lengthened(ss, R, tt, a, s, n, Q)
  <2>1. n = Now(ss) /\ Q = Longer(ss, R, s)
    OBVIOUS
  <2> HIDE DEF n, Q
  <2>2. QED
    BY <1>1, <2>1, LongerParts
<1>3. Played(tt, Q, g, n, n)
  BY PlayedGrows
<1>4. /\ todo \in Seq(Entry) /\ Real(Acts(todo)) = <<a>>
      /\ \A i \in 1 .. Len(todo) : todo[i].part = "table"
  BY <1>1, OneAct
<1> HIDE DEF todo
<1>5. f = [kind |-> "table", this |-> "none", act |-> "none", todo |-> todo, ids |-> <<>>]
  BY DEF Frame
<1> HIDE DEF f, n, Q
<1>6. FrameOK(f)
  BY <1>4, <1>5 DEF FrameOK
<1>7. n \in Nat /\ Now(tt) = n + 1 /\ tt.log \in Seq(RealAct) /\ tt.log[n + 1] = a
  BY <1>2 DEF Lengthened
<1>8. SubSeq(tt.log, n + 1, n + 1) = <<a>>
  <2>1. n < n + 1 /\ n + 1 <= Len(tt.log) /\ n + 1 \in Nat
    BY <1>7 DEF Now
  <2>2. /\ SubSeq(tt.log, n + 1, n + 1) \in Seq(RealAct)
        /\ Len(SubSeq(tt.log, n + 1, n + 1)) = (n + 1) - n
        /\ \A h \in 1 .. (n + 1) - n : SubSeq(tt.log, n + 1, n + 1)[h] = tt.log[n + h]
    BY <1>7, <2>1, PartOf
  <2>3. (n + 1) - n = 1 /\ 1 \in 1 .. 1
    BY <1>7
  <2> DEFINE w == SubSeq(tt.log, n + 1, n + 1)
  <2>4. w \in Seq(RealAct) /\ Len(w) = 1 /\ w[1] = a
    BY <1>7, <2>2, <2>3
  <2> HIDE DEF w
  <2>5. w = <<a>>
    BY <2>4
  <2>6. QED
    BY <2>5 DEF w
<1>9. Doing(tt, Q, f, g, n, n + 1, FALSE)
  <2>1. n \in 0 .. n + 1 /\ n + 1 \in 0 .. Now(tt)
    BY <1>7
  <2>2. QED
    BY <1>3, <1>4, <1>5, <1>6, <1>8, <2>1 DEF Doing
<1>10. Called(tt, Q, f, n, FALSE)
  BY <1>4, <1>5 DEF Called
<1>11. /\ Len(cs) = 1 /\ cs[1] = f /\ cs = [x \in 1 .. 1 |-> cs[x]]
       /\ pos \in [1 .. 1 -> Nat] /\ pos[1] = n /\ 1 .. 1 = {1} /\ 2 .. 1 = {}
  BY <1>7
<1> HIDE DEF cs, pos
<1>12. GameOf(cs, g, 1) = g /\ Goal(tt, pos, 1) = n + 1
  BY <1>7, <1>11 DEF GameOf, Goal
<1>13. InCalls(tt, Q, pos, cs, g, FALSE)
  <2>1. Doing(tt, Q, cs[1], GameOf(cs, g, 1), pos[1], Goal(tt, pos, 1), 1 < Len(cs) \/ FALSE)
    <3>1. (1 < Len(cs) \/ FALSE) <=> FALSE
      BY <1>11
    <3>2. Doing(tt, Q, cs[1], GameOf(cs, g, 1), pos[1], Goal(tt, pos, 1), FALSE)
      BY <1>9, <1>11, <1>12
    <3>3. QED
      BY <3>1, <3>2 DEF Doing
  <2>2. Called(tt, Q, cs[1], pos[1], 1 < Len(cs) \/ FALSE)
    BY <1>10, <1>11 DEF Called, Navigating
  <2>3. QED
    BY <1>11, <2>1, <2>2 DEF InCalls
<1>14. QED
  BY <1>13 DEF cs, pos, f, todo, n, Q

\* What the server makes of the session.
Shape(a, next, phase) ==
  session' = [moves |-> session.moves, live |-> session.live, catchup |-> session.catchup,
              phase |-> phase, log |-> Append(session.log, a),
              made |-> IF a.type \in Moves THEN session.made + 1 ELSE session.made,
              table |-> next, requests |-> session.requests, shown |-> session.shown,
              begun |-> [t \in 1 .. next.turn_count |->
                           IF t \in DOMAIN session.begun THEN session.begun[t] ELSE next],
              fresh |-> session.fresh]

\* Field by field.
LEMMA ReceiveShape ==
  ASSUME SessionOK(session), NEW a, NEW next, NEW phase, Receive(a, next, phase)
  PROVE  Shape(a, next, phase)
<1> DEFINE m == IF a.type \in Moves THEN session.made + 1 ELSE session.made
           b == [t \in 1 .. next.turn_count |->
                   IF t \in DOMAIN session.begun THEN session.begun[t] ELSE next]
           l == Append(session.log, a)
           tt == [session EXCEPT !.log = l, !.table = next, !.phase = phase, !.made = m, !.begun = b]
<1>1. session' = tt
  BY DEF Receive
<1>2. tt = [moves |-> session.moves, live |-> session.live, catchup |-> session.catchup,
            phase |-> phase, log |-> l, made |-> m, table |-> next,
            requests |-> session.requests, shown |-> session.shown,
            begun |-> b, fresh |-> session.fresh]
  <2> HIDE DEF m, b, l
  <2>1. session = [moves |-> session.moves, live |-> session.live, catchup |-> session.catchup,
                   phase |-> session.phase, log |-> session.log, made |-> session.made,
                   table |-> session.table, requests |-> session.requests, shown |-> session.shown,
                   begun |-> session.begun, fresh |-> session.fresh]
    BY DEF SessionOK
  <2> DEFINE c1 == session.moves
             c2 == session.live
             c3 == session.catchup
             c4 == session.phase
             c5 == session.log
             c6 == session.made
             c7 == session.table
             c8 == session.requests
             c9 == session.shown
             c10 == session.begun
             c11 == session.fresh
  <2>2. session = [moves |-> c1, live |-> c2, catchup |-> c3, phase |-> c4, log |-> c5, made |-> c6,
                   table |-> c7, requests |-> c8, shown |-> c9, begun |-> c10, fresh |-> c11]
    BY <2>1
  <2> HIDE DEF c1, c2, c3, c4, c5, c6, c7, c8, c9, c10, c11
  <2> DEFINE s1 == [session EXCEPT !.log = l]
             s2 == [s1 EXCEPT !.table = next]
             s3 == [s2 EXCEPT !.phase = phase]
             s4 == [s3 EXCEPT !.made = m]
             s5 == [s4 EXCEPT !.begun = b]
  <2>3. s1 = [moves |-> c1, live |-> c2, catchup |-> c3, phase |-> c4, log |-> l, made |-> c6,
              table |-> c7, requests |-> c8, shown |-> c9, begun |-> c10, fresh |-> c11]
    BY <2>2
  <2> HIDE DEF s1
  <2>4. s2 = [moves |-> c1, live |-> c2, catchup |-> c3, phase |-> c4, log |-> l, made |-> c6,
              table |-> next, requests |-> c8, shown |-> c9, begun |-> c10, fresh |-> c11]
    BY <2>3
  <2> HIDE DEF s2
  <2>5. s3 = [moves |-> c1, live |-> c2, catchup |-> c3, phase |-> phase, log |-> l, made |-> c6,
              table |-> next, requests |-> c8, shown |-> c9, begun |-> c10, fresh |-> c11]
    BY <2>4
  <2> HIDE DEF s3
  <2>6. s4 = [moves |-> c1, live |-> c2, catchup |-> c3, phase |-> phase, log |-> l, made |-> m,
              table |-> next, requests |-> c8, shown |-> c9, begun |-> c10, fresh |-> c11]
    BY <2>5
  <2> HIDE DEF s4
  <2>7. s5 = [moves |-> c1, live |-> c2, catchup |-> c3, phase |-> phase, log |-> l, made |-> m,
              table |-> next, requests |-> c8, shown |-> c9, begun |-> b, fresh |-> c11]
    BY <2>6
  <2>8. QED
    BY <2>7 DEF s4, s3, s2, s1, c1, c2, c3, c4, c5, c6, c7, c8, c9, c10, c11
<1>3. QED
  BY <1>1, <1>2 DEF Shape

\* An action that fits is received.
LEMMA ReceiveKeeps ==
  ASSUME NEW R, NEW pos, Alive(session, R, pos, stack, game, pc),
         NEW a, NEW next, NEW phase \in {"deal", "move", "draw", "turn", "over"},
         Receive(a, next, phase), Fits(Table, a, next, phase), session.phase # "over",
         Ahead(session')
  PROVE  \E Q, q : Alive(session', Q, q, stack', game', pc')
<1> DEFINE tt == session'
<1>1. /\ pc = "idle" /\ pc' = "handle" /\ game' = game
      /\ stack' = <<Frame("table", "none", "none", Entries(<<a>>, "table"))>>
  BY DEF Receive
<1>2. SessionOK(session) /\ Course(session, R) /\ AtEase(session, R, game)
  BY <1>1 DEF Alive
<1> DEFINE m == IF a.type \in Moves THEN session.made + 1 ELSE session.made
           b == [t \in 1 .. next.turn_count |->
                   IF t \in DOMAIN session.begun THEN session.begun[t] ELSE next]
<1>3. tt = [moves |-> session.moves, live |-> session.live, catchup |-> session.catchup,
            phase |-> phase, log |-> Append(session.log, a), made |-> m,
            table |-> next, requests |-> session.requests, shown |-> session.shown,
            begun |-> b, fresh |-> session.fresh]
  <2>1. Shape(a, next, phase)
    BY <1>2, ReceiveShape
  <2>2. QED
    BY <2>1 DEF Shape
<1> HIDE DEF tt
<1>4. a \in RealAct
  BY DEF Fits
<1>5. SessionOK(tt)
  <2> DEFINE l == Append(session.log, a)
  <2>1. l \in Seq(RealAct)
    BY <1>2, <1>4, AppendParts DEF SessionOK
  <2>2. m \in Nat
    BY <1>2 DEF SessionOK
  <2> HIDE DEF l, m, b
  <2>3. tt = [moves |-> session.moves, live |-> session.live, catchup |-> session.catchup,
              phase |-> phase, log |-> l, made |-> m,
              table |-> next, requests |-> session.requests, shown |-> session.shown,
              begun |-> b, fresh |-> session.fresh]
    BY <1>3 DEF l
  <2>4. /\ tt.moves = session.moves /\ tt.live = session.live /\ tt.catchup = session.catchup
        /\ tt.phase = phase /\ tt.shown = session.shown /\ tt.log = l /\ tt.made = m
    BY <2>3
  <2>5. tt = [moves |-> tt.moves, live |-> tt.live, catchup |-> tt.catchup, phase |-> tt.phase,
              log |-> tt.log, made |-> tt.made, table |-> tt.table, requests |-> tt.requests,
              shown |-> tt.shown, begun |-> tt.begun, fresh |-> tt.fresh]
    BY <2>3
  <2>6. QED
    BY <1>2, <2>1, <2>2, <2>4, <2>5 DEF SessionOK
<1>6. Grown(session, tt, a, next) /\ tt.live = session.live /\ tt.shown = session.shown /\ tt.phase = phase
  <2>1. /\ tt.live = session.live /\ tt.shown = session.shown /\ tt.phase = phase
        /\ tt.log = Append(session.log, a) /\ tt.table = next /\ tt.begun = b
    <3> HIDE DEF m, b
    <3>1. QED
      BY <1>3
  <2>2. QED
    BY <2>1 DEF Grown
<1>7. Fits(session.table, a, next, tt.phase)
  BY <1>6 DEF Table
<1>8. Played(session, R, game, Now(session), Now(session)) /\ session.shown = 0
  BY <1>2, EasePlayed
<1> DEFINE Q == Longer(session, R, next)
<1>9. Course(tt, Q)
  <2>1. Ahead(tt)
    BY DEF tt
  <2>2. QED
    BY <1>2, <1>6, <1>7, <2>1, CourseGrows
<1>10. InCalls(tt, Q, <<Now(session)>>, stack', game', FALSE)
  BY <1>1, <1>2, <1>6, <1>7, <1>8, OneCall
<1> HIDE DEF Q
<1>11. Alive(session', Q, <<Now(session)>>, stack', game', pc')
  BY <1>1, <1>5, <1>9, <1>10 DEF Alive, tt
<1>12. QED
  BY <1>11

\* The numbers of the table.
LEMMA TableNumbers ==
  /\ NumPlayers \in Nat /\ NumPlayers > 1
  /\ HandSize \in Nat /\ HandSize > 0
  /\ DeckSize \in Nat /\ DeckSize > 0
  /\ NumPlayers * HandSize \in Nat /\ NumPlayers * HandSize < DeckSize
<1>1. HandSize \in Int
  BY TableAssumption DEF HandSize
<1>2. QED
  BY <1>1, TableAssumption

\* The starting cards are dealt to players.
LEMMA DealtTo ==
  ASSUME NEW n \in Nat, n < NumPlayers * HandSize
  PROVE  n \div HandSize \in Players
<1> DEFINE d == n \div HandSize
<1>1. d \in Int /\ d * HandSize <= n /\ n < (d + 1) * HandSize
  BY TableNumbers
<1> HIDE DEF d
<1>2. 0 <= d
  <2>1. SUFFICES ASSUME d < 0 PROVE FALSE
    BY <1>1
  <2>2. d + 1 <= 0
    BY <1>1, <2>1
  <2>3. (d + 1) * HandSize <= 0
    BY <1>1, <2>2, TableNumbers
  <2>4. QED
    BY <1>1, <2>3, TableNumbers
<1>3. d < NumPlayers
  <2>1. SUFFICES ASSUME d >= NumPlayers PROVE FALSE
    BY <1>1, TableNumbers
  <2>2. d * HandSize >= NumPlayers * HandSize
    BY <1>1, <2>1, TableNumbers
  <2>3. QED
    BY <1>1, <2>2, TableNumbers
<1>4. QED
  BY <1>1, <1>2, <1>3, TableNumbers DEF d, Players

\* The next player is a player.
LEMMA NextIsPlayer ==
  ASSUME NEW p \in Players
  PROVE  NextPlayerIndex(p) \in Players
BY TableNumbers DEF NextPlayerIndex, Players

\* The table between two actions.
LEMMA TableNow ==
  ASSUME NEW R, NEW pos, Alive(session, R, pos, stack, game, pc)
  PROVE  /\ Table \in St /\ SessionOK(session) /\ Ahead(session)
         /\ Table.turn_count \in Nat /\ Table.cardOrder \in Int /\ -1 <= Table.cardOrder
         /\ Table.cardsLeft = DeckSize - 1 - Table.cardOrder
         /\ session.made \in Nat /\ Len(session.moves) \in Nat \ {0}
         /\ Table.currentPlayerIndex \in Players
         /\ Table.hands \in [Players -> SUBSET Orders]
<1>1. SessionOK(session) /\ Course(session, R)
  BY DEF Alive
<1>2. Ahead(session)
  BY <1>1 DEF Course
<1>3. Table \in St
  <2>1. Now(session) \in 0 .. Now(session)
    BY <1>1, RunsParts
  <2>2. QED
    BY <1>1, <2>1 DEF Course, Runs, Table
<1>4. /\ Table.turn_count \in Nat /\ Table.cardOrder \in Int /\ Table.currentPlayerIndex \in Players
      /\ Table.hands \in [Players -> SUBSET Orders]
  BY <1>3, Counters, StParts
<1>5. -1 <= Table.cardOrder
  <2>1. Table.cardOrder \in Orders \cup {-1}
    BY <1>3, StParts
  <2>2. \A o \in Orders : o >= 0
    BY DEF Orders
  <2>3. CASE Table.cardOrder \in Orders
    BY <1>4, <2>2, <2>3
  <2>4. QED
    BY <2>1, <2>3
<1>6. Table.cardsLeft = DeckSize - 1 - Table.cardOrder
  BY <1>2 DEF Ahead, Table
<1>7. session.made \in Nat /\ Len(session.moves) \in Nat \ {0}
  <2>1. session.moves \in Seq([type : Moves, order : Orders]) /\ session.moves # <<>>
    BY <1>1 DEF SessionOK
  <2>2. Len(session.moves) \in Nat /\ Len(session.moves) # 0
    BY <2>1
  <2>3. QED
    BY <1>1, <2>2 DEF SessionOK
<1>8. QED
  BY <1>1, <1>2, <1>3, <1>4, <1>5, <1>6, <1>7

\* A draw of the next card fits.
LEMMA DrawFits ==
  ASSUME NEW R, NEW pos, Alive(session, R, pos, stack, game, pc), NEW p \in Players,
         Table.cardOrder + 1 < DeckSize,
         NEW a, a = Draw(p), NEW s, s = HandleDraw(Table, a.playerIndex, a.order, a.id), NEW phase
  PROVE  /\ Fits(Table, a, s, phase) /\ a.type = "draw" /\ a.order = Table.cardOrder + 1
         /\ s.cardOrder = Table.cardOrder + 1 /\ s.cardsLeft = Table.cardsLeft - 1
         /\ s.turn_count \in {Table.turn_count, 1}
         /\ s.turn_count # Table.turn_count => Table.turn_count = 0
<1>1. Table \in St /\ Table.cardOrder \in Int /\ -1 <= Table.cardOrder
  BY TableNow
<1> DEFINE o == Table.cardOrder + 1
<1>2. o \in Orders
  BY <1>1, TableNumbers DEF Orders
<1>3. a = [type |-> "draw", playerIndex |-> p, order |-> o, id |-> IF p = Us THEN NoId ELSE Deck[o]]
  BY DEF Draw
<1> HIDE DEF o
<1>4. a \in DrawAct
  <2>1. Deck[o] \in Ids
    BY <1>2, Identities
  <2>2. a.id \in {NoId, Deck[a.order]}
    BY <1>3
  <2>3. a \in [type : {"draw"}, playerIndex : Players, order : Orders, id : Ids \cup {NoId}]
    BY <1>2, <1>3, <2>1
  <2>4. QED
    BY <2>2, <2>3 DEF DrawAct
<1>5. a.type = "draw" /\ a.order = o
  BY <1>3
<1>6. s = StepOf(Table, a)
  <2>1. StepOf(Table, a) = HandleDraw(Table, a.playerIndex, a.order, a.id)
    BY <1>5 DEF StepOf, Moves
  <2>2. QED
    BY <2>1
<1>7. a \in RealAct
  BY <1>4 DEF RealAct
<1>8. Fits(Table, a, s, phase)
  BY <1>5, <1>6, <1>7 DEF Fits, o
<1>9. /\ s.turn_count \in {Table.turn_count, 1} /\ (s.turn_count # Table.turn_count => Table.turn_count = 0)
      /\ s.cardOrder = a.order /\ s.cardsLeft = Table.cardsLeft - 1
  BY <1>1, <1>4, <1>6, DrawParts, ZenonT(60)
<1>10. QED
  BY <1>5, <1>8, <1>9 DEF o

\* A starting card is dealt.
LEMMA DealKeeps ==
  ASSUME NEW R, NEW pos, Alive(session, R, pos, stack, game, pc), Deal
  PROVE  \E Q, q : Alive(session', Q, q, stack', game', pc')
<1> DEFINE a == Draw((Table.cardOrder + 1) \div HandSize)
           s == HandleDraw(Table, a.playerIndex, a.order, a.id)
           phase == IF a.order + 1 = NumPlayers * HandSize THEN "move" ELSE "deal"
<1>1. session.phase = "deal" /\ Receive(a, s, phase)
  BY DEF Deal
<1>2. /\ SessionOK(session) /\ Ahead(session)
      /\ Table.turn_count \in Nat /\ Table.cardOrder \in Int /\ -1 <= Table.cardOrder
      /\ Table.cardsLeft = DeckSize - 1 - Table.cardOrder
      /\ session.made \in Nat /\ Len(session.moves) \in Nat \ {0}
  BY TableNow
<1>3. /\ Table.cardOrder + 1 < NumPlayers * HandSize
      /\ Table.turn_count \in {0, 1} /\ session.made = 0
  BY <1>1, <1>2 DEF Ahead, Table
<1>4. (Table.cardOrder + 1) \div HandSize \in Players /\ Table.cardOrder + 1 < DeckSize
  <2>1. Table.cardOrder + 1 \in Nat
    BY <1>2
  <2>2. QED
    BY <1>2, <1>3, <2>1, DealtTo, TableNumbers
<1>5. /\ Fits(Table, a, s, phase) /\ a.type = "draw" /\ a.order = Table.cardOrder + 1
      /\ s.cardOrder = Table.cardOrder + 1 /\ s.cardsLeft = Table.cardsLeft - 1
      /\ s.turn_count \in {Table.turn_count, 1}
  <2> DEFINE p == (Table.cardOrder + 1) \div HandSize
  <2>1. a = Draw(p) /\ p \in Players
    BY <1>4
  <2>2. s = HandleDraw(Table, a.playerIndex, a.order, a.id)
    OBVIOUS
  <2> HIDE DEF a, s, p, phase
  <2>3. QED
    BY <1>4, <2>1, <2>2, DrawFits
<1>6. phase \in {"deal", "move", "draw", "turn", "over"}
  OBVIOUS
<1>7. Shape(a, s, phase)
  BY <1>1, <1>2, ReceiveShape
<1> HIDE DEF a, s
<1>8. /\ session'.table = s /\ session'.phase = phase /\ session'.made = 0
      /\ session'.moves = session.moves /\ session'.live = session.live /\ session'.catchup = session.catchup
  <2>1. a.type \notin Moves
    BY <1>5 DEF Moves
  <2>2. QED
    BY <1>3, <1>7, <2>1 DEF Shape
<1>9. Ahead(session')
  <2>1. s.turn_count \in {0, 1}
    BY <1>3, <1>5
  <2>2. s.cardsLeft = DeckSize - 1 - s.cardOrder
    BY <1>2, <1>5, TableNumbers
  <2>3. phase = "deal" => s.cardOrder + 1 < NumPlayers * HandSize
    BY <1>2, <1>3, <1>5, TableNumbers
  <2>4. session.live \/ session.catchup
    BY <1>1, <1>2 DEF Ahead
  <2>5. 0 < Len(session.moves)
    BY <1>2
  <2>6. phase \in {"deal", "move"}
    OBVIOUS
  <2> HIDE DEF phase
  <2>7. QED
    BY <1>8, <2>1, <2>2, <2>3, <2>4, <2>5, <2>6 DEF Ahead
<1> HIDE DEF phase
<1>10. QED
  BY <1>1, <1>5, <1>6, <1>9, ReceiveKeeps

\* An action that fits is received, if the server can go on from there.
LEMMA ServerKeeps ==
  ASSUME NEW R, NEW pos, Alive(session, R, pos, stack, game, pc),
         NEW a, NEW s, NEW phase \in {"deal", "move", "draw", "turn", "over"},
         Receive(a, s, phase), Fits(Table, a, s, phase), session.phase # "over",
         NEW m, m = IF a.type \in Moves THEN session.made + 1 ELSE session.made,
         s.cardsLeft = DeckSize - 1 - s.cardOrder,
         phase # "deal",
         phase = "move" => /\ m < Len(session.moves) /\ s.turn_count \in {0, m + 1}
                           /\ s.turn_count = 0 => m = 0,
         phase = "draw" => s.cardsLeft > 0,
         phase \in {"draw", "turn"} => /\ s.turn_count \in {0, m}
                                       /\ s.turn_count = 0 => m = 1
  PROVE  \E Q, q : Alive(session', Q, q, stack', game', pc')
<1>1. SessionOK(session) /\ Ahead(session)
  BY TableNow
<1>2. Shape(a, s, phase)
  BY <1>1, ReceiveShape
<1>3. /\ session'.table = s /\ session'.phase = phase /\ session'.made = m
      /\ session'.moves = session.moves /\ session'.live = session.live /\ session'.catchup = session.catchup
  BY <1>2 DEF Shape
<1>4. session.live \/ session.catchup
  BY <1>1 DEF Ahead
<1>5. Ahead(session')
  BY <1>3, <1>4 DEF Ahead
<1>6. QED
  BY <1>5, ReceiveKeeps

\* A clue is given.
LEMMA ClueKeeps ==
  ASSUME NEW R, NEW pos, Alive(session, R, pos, stack, game, pc), Clue
  PROVE  \E Q, q : Alive(session', Q, q, stack', game', pc')
<1> DEFINE p == Table.currentPlayerIndex
           a == [type |-> "clue", giver |-> p, target |-> NextPlayerIndex(p)]
           s == HandleTableAction(Table, a)
           m == session.made + 1
<1>1. session.phase = "move" /\ Receive(a, s, "turn")
  BY DEF Clue
<1>2. /\ Ahead(session) /\ Table \in St /\ Table.turn_count \in Nat
      /\ Table.cardsLeft = DeckSize - 1 - Table.cardOrder
      /\ session.made \in Nat /\ p \in Players
  BY TableNow
<1>3. Table.turn_count \in {0, m} /\ (Table.turn_count = 0 => m = 1)
  BY <1>1, <1>2 DEF Ahead, Table
<1>4. a \in ClueAct /\ a.type = "clue"
  BY <1>2, NextIsPlayer DEF ClueAct
<1> HIDE DEF a, p
<1>5. s = StepOf(Table, a)
  <2>1. StepOf(Table, a) = HandleTableAction(Table, a)
    BY <1>4 DEF StepOf, Moves
  <2>2. QED
    BY <2>1
<1> HIDE DEF s
<1>6. /\ s.turn_count = Table.turn_count
      /\ s.cardOrder = Table.cardOrder /\ s.cardsLeft = Table.cardsLeft
  BY <1>2, <1>4, <1>5, OtherParts
<1>7. Fits(Table, a, s, "turn")
  BY <1>4, <1>5 DEF Fits, RealAct
<1>8. m = IF a.type \in Moves THEN session.made + 1 ELSE session.made
  BY <1>4 DEF Moves
<1> HIDE DEF m
<1>9. s.turn_count \in {0, m} /\ (s.turn_count = 0 => m = 1)
  BY <1>3, <1>6
<1>10. QED
  BY <1>1, <1>2, <1>6, <1>7, <1>8, <1>9, ServerKeeps

\* A card leaves a hand.
LEMMA PlayOrDiscardKeeps ==
  ASSUME NEW R, NEW pos, Alive(session, R, pos, stack, game, pc), PlayOrDiscard
  PROVE  \E Q, q : Alive(session', Q, q, stack', game', pc')
<1> DEFINE p == Table.currentPlayerIndex
           o == Move.order
           id == Deck[o]
           good == Move.type = "play" /\ IsPlayable(Table, id)
           t == IF good THEN "play" ELSE "discard"
           failed == Move.type = "play" /\ ~good
           a == [type |-> t, playerIndex |-> p, order |-> o, id |-> id, failed |-> failed]
           s == HandleTableAction(Table, a)
           m == session.made + 1
           phase == IF Table.cardsLeft > 0 THEN "draw" ELSE "turn"
<1>1. session.phase = "move" /\ o \in Table.hands[p] /\ Receive(a, s, phase)
  BY DEF PlayOrDiscard
<1>2. /\ Ahead(session) /\ Table \in St /\ Table.turn_count \in Nat
      /\ Table.cardsLeft = DeckSize - 1 - Table.cardOrder
      /\ session.made \in Nat /\ p \in Players /\ Table.hands \in [Players -> SUBSET Orders]
  BY TableNow
<1>3. Table.turn_count \in {0, m} /\ (Table.turn_count = 0 => m = 1)
  BY <1>1, <1>2 DEF Ahead, Table
<1>4. o \in Orders /\ id \in Ids /\ failed \in BOOLEAN /\ t \in {"play", "discard"}
  <2>1. o \in Orders
    BY <1>1, <1>2
  <2>2. QED
    BY <2>1, Identities
<1>5. a = [type |-> t, playerIndex |-> p, order |-> o, id |-> Deck[o], failed |-> failed]
  OBVIOUS
<1>6. phase \in {"draw", "turn"} /\ (phase = "draw" => Table.cardsLeft > 0)
  OBVIOUS
<1> HIDE DEF a, t, failed, good, p, o, phase
<1>7. a \in LeaveAct /\ a.type \in {"play", "discard"} /\ a.playerIndex = p /\ a.order = o
  BY <1>2, <1>4, <1>5 DEF LeaveAct
<1>8. s = StepOf(Table, a)
  <2>1. StepOf(Table, a) = HandleTableAction(Table, a)
    BY <1>7 DEF StepOf, Moves
  <2>2. QED
    BY <2>1
<1> HIDE DEF s
<1>9. /\ s.turn_count = Table.turn_count
      /\ s.cardOrder = Table.cardOrder /\ s.cardsLeft = Table.cardsLeft
  BY <1>2, <1>7, <1>8, LeaveParts
<1>10. Fits(Table, a, s, phase)
  BY <1>1, <1>7, <1>8 DEF Fits, RealAct
<1>11. m = IF a.type \in Moves THEN session.made + 1 ELSE session.made
  BY <1>7 DEF Moves
<1> HIDE DEF m
<1>12. s.turn_count \in {0, m} /\ (s.turn_count = 0 => m = 1)
  BY <1>3, <1>9
<1>13. s.cardsLeft = DeckSize - 1 - s.cardOrder /\ (phase = "draw" => s.cardsLeft > 0)
  BY <1>2, <1>6, <1>9
<1>14. /\ phase \in {"deal", "move", "draw", "turn", "over"} /\ phase # "deal" /\ phase # "move"
       /\ session.phase # "over"
  BY <1>1, <1>6
<1>15. QED
  BY <1>1, <1>10, <1>11, <1>12, <1>13, <1>14, ServerKeeps

\* The player who moved draws a card.
LEMMA DrawCardKeeps ==
  ASSUME NEW R, NEW pos, Alive(session, R, pos, stack, game, pc), DrawCard
  PROVE  \E Q, q : Alive(session', Q, q, stack', game', pc')
<1> DEFINE p == Table.currentPlayerIndex
           a == Draw(p)
           s == HandleDraw(Table, a.playerIndex, a.order, a.id)
           m == session.made
<1>1. session.phase = "draw" /\ Receive(a, s, "turn")
  BY DEF DrawCard
<1>2. /\ Ahead(session) /\ Table \in St /\ Table.turn_count \in Nat
      /\ Table.cardOrder \in Int /\ -1 <= Table.cardOrder
      /\ Table.cardsLeft = DeckSize - 1 - Table.cardOrder
      /\ session.made \in Nat /\ p \in Players
  BY TableNow
<1>3. /\ Table.turn_count \in {0, m} /\ (Table.turn_count = 0 => m = 1)
      /\ Table.cardsLeft > 0
  BY <1>1, <1>2 DEF Ahead, Table
<1>4. Table.cardOrder + 1 < DeckSize
  BY <1>2, <1>3, TableNumbers
<1>5. /\ Fits(Table, a, s, "turn") /\ a.type = "draw"
      /\ s.cardOrder = Table.cardOrder + 1 /\ s.cardsLeft = Table.cardsLeft - 1
      /\ s.turn_count \in {Table.turn_count, 1}
      /\ s.turn_count # Table.turn_count => Table.turn_count = 0
  <2>1. a = Draw(p) /\ s = HandleDraw(Table, a.playerIndex, a.order, a.id)
    OBVIOUS
  <2> HIDE DEF a, s, p
  <2>2. QED
    BY <1>2, <1>4, <2>1, DrawFits
<1> HIDE DEF a, s, p
<1>6. m = IF a.type \in Moves THEN session.made + 1 ELSE session.made
  BY <1>5 DEF Moves
<1> HIDE DEF m
<1>7. s.turn_count \in {0, m} /\ (s.turn_count = 0 => m = 1)
  BY <1>3, <1>5
<1>8. s.cardsLeft = DeckSize - 1 - s.cardOrder
  BY <1>2, <1>5, TableNumbers
<1>9. QED
  BY <1>1, <1>5, <1>6, <1>7, <1>8, ServerKeeps

\* A turn begins.
LEMMA TurnKeeps ==
  ASSUME NEW R, NEW pos, Alive(session, R, pos, stack, game, pc), Turn
  PROVE  \E Q, q : Alive(session', Q, q, stack', game', pc')
<1> DEFINE m == session.made
           p == NextPlayerIndex(Table.currentPlayerIndex)
           a == [type |-> "turn", num |-> m, playerIndex |-> p]
           s == HandleTurn(Table, m, p)
<1>1. session.phase = "turn" /\ m < Len(session.moves) /\ Receive(a, s, "move")
  BY DEF Turn
<1>2. /\ Ahead(session) /\ Table \in St /\ Table.turn_count \in Nat
      /\ Table.cardsLeft = DeckSize - 1 - Table.cardOrder
      /\ session.made \in Nat /\ p \in Players
  BY TableNow, NextIsPlayer
<1>3. Table.turn_count \in {0, m}
  BY <1>1, <1>2 DEF Ahead, Table
<1>4. a \in TurnAct /\ a.type = "turn" /\ a.num = m /\ a.playerIndex = p
  BY <1>2 DEF TurnAct
<1> HIDE DEF a, p
<1>5. s = StepOf(Table, a)
  <2>1. StepOf(Table, a) = HandleTurn(Table, a.num, a.playerIndex)
    BY <1>4 DEF StepOf, Moves
  <2>2. QED
    BY <1>4, <2>1
<1> HIDE DEF s
<1>6. /\ s.turn_count = m + 1
      /\ s.cardOrder = Table.cardOrder /\ s.cardsLeft = Table.cardsLeft
  BY <1>2, <1>4, <1>5, OtherParts
<1>7. Fits(Table, a, s, "move")
  BY <1>3, <1>4, <1>5 DEF Fits, RealAct
<1>8. m = IF a.type \in Moves THEN session.made + 1 ELSE session.made
  BY <1>4 DEF Moves
<1>9. s.turn_count # 0
  BY <1>2, <1>6
<1> HIDE DEF m
<1>10. QED
  BY <1>1, <1>2, <1>6, <1>7, <1>8, <1>9, ServerKeeps

\* The game is over.
LEMMA GameOverKeeps ==
  ASSUME NEW R, NEW pos, Alive(session, R, pos, stack, game, pc), GameOver
  PROVE  \E Q, q : Alive(session', Q, q, stack', game', pc')
<1> DEFINE m == session.made
           a == [type |-> "gameOver"]
<1>1. session.phase = "turn" /\ Receive(a, Table, "over")
  BY DEF GameOver
<1>2. Table.cardsLeft = DeckSize - 1 - Table.cardOrder
  BY TableNow
<1>3. a \in OverAct /\ a.type = "gameOver"
  BY DEF OverAct
<1> HIDE DEF a
<1>4. Table = StepOf(Table, a)
  BY <1>3 DEF StepOf, Moves
<1>5. Fits(Table, a, Table, "over")
  BY <1>3, <1>4 DEF Fits, RealAct
<1>6. m = IF a.type \in Moves THEN session.made + 1 ELSE session.made
  BY <1>3 DEF Moves
<1> HIDE DEF m
<1>7. QED
  BY <1>1, <1>2, <1>5, <1>6, ServerKeeps

-----------------------------------------------------------------------------
(* Catching up, and navigating *)

\* A session that differs in what is not its story.
LEMMA StoryKept ==
  ASSUME NEW R, SessionOK(session), Course(session, R), NEW caught \in BOOLEAN, NEW turn \in Nat,
         NEW tt, tt = [session EXCEPT !.catchup = caught, !.shown = turn],
         session.live \/ caught \/ session.phase = "over"
  PROVE  /\ SessionOK(tt) /\ Course(tt, R) /\ Now(tt) = Now(session) /\ tt.log = session.log
         /\ tt.phase = session.phase /\ tt.live = session.live /\ tt.shown = turn
<1>1. tt = [moves |-> session.moves, live |-> session.live, catchup |-> caught,
            phase |-> session.phase, log |-> session.log, made |-> session.made,
            table |-> session.table, requests |-> session.requests,
            shown |-> turn, begun |-> session.begun, fresh |-> session.fresh]
  BY DEF SessionOK
<1>2. SessionOK(tt)
  BY <1>1 DEF SessionOK
<1>3. /\ tt.log = session.log /\ tt.table = session.table /\ tt.phase = session.phase
      /\ tt.begun = session.begun /\ tt.made = session.made /\ tt.moves = session.moves
      /\ tt.live = session.live /\ tt.catchup = caught /\ tt.shown = turn
  BY <1>1
<1>4. Ahead(tt)
  <2>1. Ahead(session)
    BY DEF Course
  <2>2. QED
    BY <1>3, <2>1 DEF Ahead
<1>5. Course(tt, R)
  BY <1>3, <1>4, SameCourse
<1>6. QED
  BY <1>2, <1>3, <1>5 DEF Now

\* The game knows that it has caught up.
LEMMA CaughtAlike ==
  ASSUME NEW g, GameOK(g), NEW h, h = [g EXCEPT !.catchup = FALSE]
  PROVE  Alike(h, g)
<1>1. /\ h = [st |-> g.st, list |-> g.list, notes |-> g.notes, rewinds |-> g.rewinds,
              depth |-> g.depth, catchup |-> FALSE, inProgress |-> g.inProgress,
              status |-> g.status, rewinded |-> g.rewinded, ignored |-> g.ignored,
              queued |-> g.queued]
      /\ g.st \in St /\ g.list \in Seq(Seq(Act))
  BY DEF GameOK
<1>2. QED
  BY <1>1 DEF Alike, GameOK

\* A live game has caught up, a replay has been read.
LEMMA CaughtUpKeeps ==
  ASSUME NEW R, NEW pos, Alive(session, R, pos, stack, game, pc), CaughtUp
  PROVE  Alive(session', R, pos, stack', game', pc')
<1>1. /\ pc = "idle" /\ (session.live \/ session.phase = "over")
      /\ game' = [game EXCEPT !.catchup = FALSE]
      /\ session' = [session EXCEPT !.catchup = FALSE]
      /\ stack' = stack /\ pc' = pc
  BY DEF CaughtUp
<1>2. SessionOK(session) /\ Course(session, R) /\ AtEase(session, R, game) /\ stack = <<>>
  BY <1>1 DEF Alive
<1>3. session.shown \in Nat
  BY <1>2 DEF SessionOK
<1>4. session' = [session EXCEPT !.catchup = FALSE, !.shown = session.shown]
  <2> DEFINE tt == [session EXCEPT !.catchup = FALSE]
  <2>1. session = [moves |-> session.moves, live |-> session.live, catchup |-> session.catchup,
                   phase |-> session.phase, log |-> session.log, made |-> session.made,
                   table |-> session.table, requests |-> session.requests,
                   shown |-> session.shown, begun |-> session.begun, fresh |-> session.fresh]
    BY <1>2 DEF SessionOK
  <2>2. tt = [tt EXCEPT !.shown = session.shown]
    BY <2>1
  <2>3. QED
    BY <1>1, <2>2
<1>5. /\ SessionOK(session') /\ Course(session', R) /\ Now(session') = Now(session)
      /\ session'.log = session.log /\ session'.phase = session.phase
      /\ session'.live = session.live /\ session'.shown = session.shown
  <2> DEFINE tt == session'
  <2>1. /\ tt = [session EXCEPT !.catchup = FALSE, !.shown = session.shown]
        /\ FALSE \in BOOLEAN /\ (session.live \/ FALSE \/ session.phase = "over")
    BY <1>1, <1>4
  <2> HIDE DEF tt
  <2>2. /\ SessionOK(tt) /\ Course(tt, R) /\ Now(tt) = Now(session) /\ tt.log = session.log
        /\ tt.phase = session.phase /\ tt.live = session.live /\ tt.shown = session.shown
    BY <1>2, <1>3, <2>1, StoryKept, ZenonT(60)
  <2>3. QED
    BY <2>2 DEF tt
<1>6. GameOK(game)
  BY <1>2 DEF AtEase
<1>7. Alike(game', game)
  BY <1>1, <1>6, CaughtAlike
<1>8. AtEase(session', R, game')
  <2>1. session.shown = 0 => Played(session', R, game', Now(session'), Now(session'))
    <3>1. SUFFICES ASSUME session.shown = 0
                   PROVE  Played(session', R, game', Now(session), Now(session))
      BY <1>5
    <3>2. Played(session, R, game, Now(session), Now(session))
      BY <1>2, <3>1 DEF AtEase
    <3>3. Played(session, R, game', Now(session), Now(session))
      BY <1>7, <3>2, PlayedAlike
    <3>4. QED
      BY <1>5, <3>3 DEF Played, Filed
  <2>2. /\ GameOK(game') /\ game'.list = game.list /\ game'.st = game.st
        /\ game'.inProgress = game.inProgress
    BY <1>7 DEF Alike
  <2>3. QED
    BY <1>2, <1>5, <2>1, <2>2 DEF AtEase
<1>9. QED
  BY <1>1, <1>2, <1>5, <1>8 DEF Alive

\* What navigate calls on the game g, to the turn it is given.
Steered(tt, R, g, turn) ==
  InCalls(tt, R, <<0>>, <<Frame("nav", g, turn, Entries(FlattenSeq(Stripped(g.list)), "nav"))>>,
          Restarted(g), FALSE)

\* It is to handle the whole log again, until the turn is reached.
LEMMA NavigateCall ==
  ASSUME NEW tt, NEW R, SessionOK(tt), Course(tt, R), NEW k \in 0 .. Now(tt),
         NEW g, GameOK(g), Follows(g.st, R[k]), Real(FlattenSeq(g.list)) = tt.log,
         tt.phase = "over", NEW turn \in Nat \ {0}, tt.shown = turn
  PROVE  Steered(tt, R, g, turn)
<1> DEFINE acts == FlattenSeq(Stripped(g.list))
           todo == Entries(acts, "nav")
           f == Frame("nav", g, turn, todo)
           h == Restarted(g)
           cs == <<f>>
           pos == <<0>>
<1>1. Played(tt, R, h, 0, 0)
  BY BlankPlayed
<1>2. acts \in Seq(Act) /\ Real(acts) = tt.log
  <2>1. g.list \in Seq(Seq(Act))
    BY DEF GameOK
  <2>2. Stripped(g.list) \in Seq(Seq(Act)) /\ Real(acts) = Real(FlattenSeq(g.list))
    BY <2>1, StrippedReal
  <2>3. QED
    BY <2>2, FlattenType
<1> HIDE DEF acts
<1>3. /\ todo \in Seq(Entry) /\ Len(todo) = Len(acts) /\ Acts(todo) = acts
      /\ \A i \in 1 .. Len(acts) : todo[i] = [act |-> acts[i], part |-> "nav"]
  <2>1. "nav" \in Parts \ {"restore"} /\ "nav" \notin {"insert", "waited"}
    BY DEF Parts
  <2>2. QED
    BY <1>2, <2>1, EntriesParts
<1>4. \A i \in 1 .. Len(todo) : todo[i].part = "nav"
  <2>1. SUFFICES ASSUME NEW i \in 1 .. Len(todo) PROVE todo[i].part = "nav"
    OBVIOUS
  <2>2. todo[i] = [act |-> acts[i], part |-> "nav"]
    BY <1>3
  <2> HIDE DEF todo
  <2>3. QED
    BY <2>2
<1>5. f = [kind |-> "nav", this |-> g, act |-> turn, todo |-> todo, ids |-> <<>>]
  BY DEF Frame
<1> HIDE DEF todo, f, h
<1>6. FrameOK(f)
  BY <1>3, <1>5 DEF FrameOK
<1>7. Now(tt) \in Nat /\ tt.log \in Seq(RealAct) /\ Now(tt) = Len(tt.log)
  BY RunsParts
<1>8. SubSeq(tt.log, 0 + 1, Now(tt)) = tt.log
  <2>1. SubSeq(tt.log, 1, Len(tt.log)) = tt.log /\ 0 + 1 = 1
    BY <1>7, PartWhole
  <2>2. QED
    BY <1>7, <2>1
<1>9. Doing(tt, R, f, h, 0, Now(tt), FALSE)
  <2>1. 0 \in 0 .. Now(tt) /\ Now(tt) \in 0 .. Now(tt) /\ f.todo = todo
    BY <1>5, <1>7
  <2>2. Real(Acts(f.todo)) = SubSeq(tt.log, 0 + 1, Now(tt))
    BY <1>2, <1>3, <1>8, <2>1
  <2>3. QED
    BY <1>1, <1>6, <2>1, <2>2 DEF Doing
<1>10. Called(tt, R, f, 0, FALSE)
  <2>1. Navigating(tt, R, f, 0, FALSE)
    BY <1>4, <1>5 DEF Navigating
  <2>2. QED
    BY <1>5, <2>1 DEF Called
<1>11. /\ Len(cs) = 1 /\ cs[1] = f /\ cs = [x \in 1 .. 1 |-> cs[x]]
       /\ pos \in [1 .. 1 -> Nat] /\ pos[1] = 0 /\ 1 .. 1 = {1} /\ 2 .. 1 = {}
  OBVIOUS
<1> HIDE DEF cs, pos
<1>12. GameOf(cs, h, 1) = h /\ Goal(tt, pos, 1) = Now(tt)
  BY <1>11 DEF GameOf, Goal
<1>13. InCalls(tt, R, pos, cs, h, FALSE)
  <2>1. Doing(tt, R, cs[1], GameOf(cs, h, 1), pos[1], Goal(tt, pos, 1), 1 < Len(cs) \/ FALSE)
    <3>1. (1 < Len(cs) \/ FALSE) <=> FALSE
      BY <1>11
    <3>2. Doing(tt, R, cs[1], GameOf(cs, h, 1), pos[1], Goal(tt, pos, 1), FALSE)
      BY <1>9, <1>11, <1>12
    <3>3. QED
      BY <3>1, <3>2 DEF Doing
  <2>2. Called(tt, R, cs[1], pos[1], 1 < Len(cs) \/ FALSE)
    BY <1>10, <1>11 DEF Called, Navigating
  <2>3. QED
    BY <1>11, <2>1, <2>2 DEF InCalls
<1>14. QED
  BY <1>13 DEF Steered, cs, pos, f, todo, acts, h

\* The turn one may navigate to is a number.
LEMMA MaxTurnType ==
  ASSUME NEW list \in Seq(Seq(Act))
  PROVE  MaxTurn(list) \in Int
<1> DEFINE ends == {i \in DOMAIN list : list[i] # Hole /\ list[i][Len(list[i])].type = "turn"}
           i == CHOOSE i \in ends : \A j \in ends : j <= i
<1>1. MaxTurn(list) = IF ends = {} THEN 0 ELSE list[i][Len(list[i])].num + 2
  BY DEF MaxTurn
<1>2. ASSUME NEW n \in ends PROVE list[n][Len(list[n])].num \in Nat
  <2>1. list[n] \in Seq(Act) /\ list[n] # <<>>
    BY DEF Hole
  <2>2. Len(list[n]) \in 1 .. Len(list[n])
    BY <2>1
  <2>3. list[n][Len(list[n])] \in Act
    BY <2>1, <2>2
  <2>4. list[n][Len(list[n])] \in TurnAct
    <3>1. list[n][Len(list[n])].type = "turn"
      BY <1>2
    <3>2. QED
      BY <2>3, <3>1, ActTypes DEF AnyAct
  <2>5. QED
    BY <2>4 DEF TurnAct
<1>3. CASE ends = {}
  BY <1>1, <1>3
<1>4. CASE ends # {}
  <2> DEFINE n == Len(list)
  <2>1. n \in Nat /\ ends \in SUBSET (0 .. n)
    OBVIOUS
  <2> HIDE DEF n, ends
  <2>2. \E j \in ends : \A q \in ends : q <= j
    BY <1>4, <2>1, GreatestOne
  <2>3. i \in ends
    BY <2>2
  <2>4. list[i][Len(list[i])].num \in Nat
    BY <1>2, <2>3
  <2>5. QED
    BY <1>1, <1>4, <2>4
<1>5. QED
  BY <1>3, <1>4

\* A person navigates to a turn.
LEMMA NavigateKeeps ==
  ASSUME NEW R, NEW pos, Alive(session, R, pos, stack, game, pc), Navigate
  PROVE  \E q : Alive(session', R, q, stack', game', pc')
<1>1. /\ pc = "idle" /\ ~game.inProgress /\ ~session.catchup /\ pc' = "handle"
      /\ game' = Restarted(game)
  BY DEF Navigate
<1>2. PICK turn \in 1 .. MaxTurn(game.list) :
        /\ stack' = <<Frame("nav", game, turn, Entries(FlattenSeq(Stripped(game.list)), "nav"))>>
        /\ session' = [session EXCEPT !.shown = turn]
  BY DEF Navigate
<1>3. SessionOK(session) /\ Course(session, R) /\ AtEase(session, R, game)
  BY <1>1 DEF Alive
<1>4. GameOK(game) /\ Real(FlattenSeq(game.list)) = session.log
  BY <1>3 DEF AtEase
<1>5. turn \in Nat \ {0}
  <2>1. MaxTurn(game.list) \in Int
    BY <1>4, MaxTurnType DEF GameOK
  <2>2. QED
    BY <2>1
<1>6. session.phase = "over" /\ session.live \in BOOLEAN
  <2>1. session.live \/ session.catchup \/ session.phase = "over"
    BY <1>3 DEF Course, Ahead
  <2>2. session.live /\ session.phase # "over" => game.inProgress = TRUE
    BY <1>3 DEF AtEase
  <2>3. QED
    BY <1>1, <1>3, <2>1, <2>2 DEF SessionOK
<1> DEFINE tt == session'
<1>7. /\ SessionOK(tt) /\ Course(tt, R) /\ Now(tt) = Now(session) /\ tt.log = session.log
      /\ tt.phase = session.phase /\ tt.shown = turn
  <2>1. tt = [session EXCEPT !.catchup = FALSE, !.shown = turn]
    <3> DEFINE w == [session EXCEPT !.catchup = FALSE]
    <3>1. session = [moves |-> session.moves, live |-> session.live, catchup |-> session.catchup,
                     phase |-> session.phase, log |-> session.log, made |-> session.made,
                     table |-> session.table, requests |-> session.requests,
                     shown |-> session.shown, begun |-> session.begun, fresh |-> session.fresh]
      BY <1>3 DEF SessionOK
    <3>2. session.catchup = FALSE
      BY <1>1, <1>3 DEF SessionOK
    <3>3. w = session
      BY <3>1, <3>2
    <3>4. QED
      BY <1>2, <3>3
  <2>2. FALSE \in BOOLEAN /\ (session.live \/ FALSE \/ session.phase = "over") /\ turn \in Nat
    BY <1>5, <1>6
  <2> HIDE DEF tt
  <2>3. QED
    BY <1>3, <2>1, <2>2, StoryKept
<1> HIDE DEF tt
<1>8. PICK k \in 0 .. Now(session) : Follows(game.st, R[k])
  <2>1. CASE session.shown = 0
    <3>1. Played(session, R, game, Now(session), Now(session))
      BY <1>3, <2>1 DEF AtEase
    <3>2. Follows(game.st, R[Now(session)])
      BY <3>1 DEF Played
    <3>3. Now(session) \in 0 .. Now(session)
      BY <1>3, RunsParts
    <3>4. QED
      BY <3>2, <3>3
  <2>2. CASE session.shown # 0
    BY <1>3, <2>2 DEF AtEase
  <2>3. QED
    BY <2>1, <2>2
<1>9. Steered(tt, R, game, turn)
  BY <1>4, <1>5, <1>6, <1>7, <1>8, NavigateCall
<1>10. InCalls(tt, R, <<0>>, stack', game', FALSE)
  BY <1>1, <1>2, <1>9 DEF Steered
<1>11. Alive(tt, R, <<0>>, stack', game', pc')
  BY <1>1, <1>7, <1>10 DEF Alive
<1>12. QED
  BY <1>11 DEF tt

-----------------------------------------------------------------------------
(* The inductive invariant *)

\* Nothing has happened yet.
LEMMA InitialKnown == InitialState \in St /\ Known(InitialState)
<1>1. Known(InitialState)
  BY DEF InitialState, Known
<1>2. QED
  BY <1>1, InitialSt

\* A course of one State explains that.
LEMMA InitIInv == Init => IInv
<1> SUFFICES ASSUME Init PROVE IInv
  OBVIOUS
<1>1. PICK moves \in Games, live \in BOOLEAN, catchup \in BOOLEAN :
        /\ live \/ catchup
        /\ game = [NewGame(live) EXCEPT !.catchup = catchup,
                                        !.notes = IF live THEN (0 :> InfoNote) ELSE EmptyNote]
        /\ stack = <<>> /\ pc = "idle"
        /\ session = [moves |-> moves, live |-> live, catchup |-> catchup, phase |-> "deal", log |-> <<>>,
                      made |-> 0, table |-> InitialState, requests |-> 0, shown |-> 0,
                      begun |-> <<>>, fresh |-> ~catchup]
  BY DEF Init
<1>2. /\ session.moves = moves /\ session.live = live /\ session.catchup = catchup
      /\ session.phase = "deal" /\ session.log = <<>> /\ session.made = 0
      /\ session.table = InitialState /\ session.shown = 0 /\ session.begun = <<>>
  BY <1>1
<1>3. Now(session) = 0
  BY <1>2 DEF Now
<1>4. SessionOK(session)
  <2>1. moves \in Seq([type : Moves, order : Orders]) /\ moves # <<>>
    BY RewindAssumption
  <2>2. <<>> \in Seq(RealAct)
    BY EmptySeq
  <2>3. session = [moves |-> session.moves, live |-> session.live, catchup |-> session.catchup,
                   phase |-> session.phase, log |-> session.log, made |-> session.made,
                   table |-> session.table, requests |-> session.requests,
                   shown |-> session.shown, begun |-> session.begun, fresh |-> session.fresh]
    BY <1>1
  <2>4. QED
    BY <1>2, <2>1, <2>2, <2>3 DEF SessionOK
<1> DEFINE R == [k \in {0} |-> InitialState]
<1>5. /\ R[0] = InitialState /\ 0 .. 0 = {0} /\ 1 .. 0 = {} /\ 0 \in 0 .. 0
      /\ InitialState \in St /\ Known(InitialState)
      /\ InitialState.turn_count = 0 /\ InitialState.cardOrder = -1
      /\ InitialState.cardsLeft = DeckSize
      /\ \A p \in Players : InitialState.hands[p] = {}
  BY InitialKnown DEF InitialState
<1> HIDE DEF R
<1>6. Course(session, R)
  <2>1. Runs(session, R)
    BY <1>2, <1>3, <1>5 DEF Runs
  <2>2. Truth(session, R)
    BY <1>3, <1>5 DEF Truth
  <2>3. Onward(session, R)
    BY <1>3, <1>5 DEF Onward
  <2>4. Orderly(session, R)
    BY <1>3, <1>5 DEF Orderly
  <2>5. Held(session, R)
    BY <1>3, <1>5 DEF Held
  <2>6. Began(session, R)
    <3>1. <<>> = [t \in 1 .. 0 |-> <<>>[t]]
      BY <1>5
    <3>2. QED
      BY <1>2, <1>3, <1>5, <3>1 DEF Began
  <2>7. Ahead(session)
    <3>1. (-1) + 1 < NumPlayers * HandSize /\ DeckSize = DeckSize - 1 - (-1)
      <4>1. NumPlayers * HandSize > 0
        BY TableNumbers
      <4>2. QED
        BY <4>1, TableNumbers
    <3>2. QED
      BY <1>1, <1>2, <1>5, <3>1 DEF Ahead
  <2>8. QED
    BY <2>1, <2>2, <2>3, <2>4, <2>5, <2>6, <2>7 DEF Course
<1>7. GameOK(game) /\ game.st = InitialState /\ game.list = <<>> /\ game.inProgress = live
  <2> DEFINE notes == IF live THEN (0 :> InfoNote) ELSE EmptyNote
             none == [o \in Orders |-> "none"]
  <2> HIDE DEF notes, none
  <2>1. game = [[[st |-> InitialState, list |-> <<>>, notes |-> EmptyNote, rewinds |-> 0, depth |-> 0,
                  catchup |-> TRUE, inProgress |-> live, status |-> none,
                  rewinded |-> {}, ignored |-> {}, queued |-> <<>>] EXCEPT !.catchup = catchup]
                EXCEPT !.notes = notes]
    BY <1>1 DEF NewGame, notes, none
  <2>2. game = [st |-> InitialState, list |-> <<>>, notes |-> notes, rewinds |-> 0, depth |-> 0,
                catchup |-> catchup, inProgress |-> live, status |-> none,
                rewinded |-> {}, ignored |-> {}, queued |-> <<>>]
    BY <2>1
  <2>3. <<>> \in Seq(Seq(Act))
    BY EmptySeq
  <2>4. QED
    BY <1>5, <2>2, <2>3 DEF GameOK
<1>8. AtEase(session, R, game)
  <2>1. FlattenSeq(game.list) = <<>> /\ Real(FlattenSeq(game.list)) = <<>>
    BY <1>7, FlattenType, RealType
  <2>2. SubSeq(session.log, 1, 0) = <<>>
    BY <1>4, <1>6, RunsParts, PartWhole
  <2>3. Follows(InitialState, InitialState)
    <3>1. \A o \in Orders : /\ InitialState.deck[o] \in {InitialState.deck[o], Deck[o]}
                            /\ InitialState.deck_ids[o] \in {InitialState.deck_ids[o], Deck[o]}
      OBVIOUS
    <3>2. QED
      BY <1>5, <3>1, FollowsFrom
  <2>4. Follows(game.st, R[0])
    BY <1>5, <1>7, <2>3
  <2>5. Len(game.list) = 0 /\ game.st.turn_count = 0
    BY <1>5, <1>7
  <2>6. Filed(session, R, game, 0)
    BY <1>5 DEF Filed
  <2>7. session.live /\ session.phase # "over" => game.inProgress = TRUE
    BY <1>2, <1>7
  <2>8. Played(session, R, game, 0, 0)
    <3>1. GameOK(game) /\ Len(game.list) <= game.st.turn_count + 1
      BY <1>7, <2>5
    <3>2. Real(FlattenSeq(game.list)) = SubSeq(session.log, 1, 0)
      BY <2>1, <2>2
    <3>3. QED
      BY <3>1, <3>2, <2>4, <2>6, <2>7 DEF Played
  <2>9. QED
    BY <1>2, <1>3, <1>7, <2>1, <2>7, <2>8 DEF AtEase
<1>9. Alive(session, R, R, stack, game, pc)
  BY <1>1, <1>4, <1>6, <1>8 DEF Alive
<1>10. QED
  BY <1>9 DEF IInv

\* One step.
LEMMA NextIInv == IInv /\ [Next]_vars => IInv'
<1> SUFFICES ASSUME IInv, [Next]_vars, pc' \in {"idle", "handle", "interpret"}
             PROVE  \E Q, q : Alive(session', Q, q, stack', game', pc')
  BY DEF IInv
<1>1. CASE UNCHANGED vars
  BY <1>1 DEF IInv, vars
<1>2. CASE Next
  <2>1. pc \in {"idle", "handle", "interpret"}
    <3>1. CASE Rest
      BY <3>1, ZenonT(60) DEF Rest, vars
    <3>2. CASE ~Rest
      BY <1>2, <3>2 DEF Next, Handling, Deal, Clue, PlayOrDiscard, DrawCard, Turn, GameOver, Receive,
                        CaughtUp, Navigate, Handle, Complete, AskRewind, Return, Done, Shown
    <3>3. QED
      BY <3>1, <3>2, SMTT(30)
  <2>2. PICK R, pos : Alive(session, R, pos, stack, game, pc)
    BY <2>1 DEF IInv
  <2>3. CASE Deal
    BY <2>2, <2>3, DealKeeps
  <2>4. CASE Clue
    BY <2>2, <2>4, ClueKeeps
  <2>5. CASE PlayOrDiscard
    BY <2>2, <2>5, PlayOrDiscardKeeps
  <2>6. CASE DrawCard
    BY <2>2, <2>6, DrawCardKeeps
  <2>7. CASE Turn
    BY <2>2, <2>7, TurnKeeps
  <2>8. CASE GameOver
    BY <2>2, <2>8, GameOverKeeps
  <2>9. CASE CaughtUp
    BY <2>2, <2>9, CaughtUpKeeps
  <2>10. CASE Navigate
    BY <2>2, <2>10, NavigateKeeps
  <2>11. CASE Handle /\ ~(Len(stack) = 1 /\ Top.kind = "nav" /\ Arrived)
    BY <2>2, <2>11, HandleKeeps
  <2>12. CASE Complete
    BY <2>2, <2>12, CompleteKeeps
  <2>13. CASE AskRewind
    BY <2>2, <2>13, AskKeeps
  <2>14. CASE Return
    BY <2>2, <2>14, ReturnKeeps
  <2>15. CASE Done
    BY <2>2, <2>15, DoneKeeps
  <2>16. CASE Shown
    BY <2>2, <2>16, ShownKeeps
  <2>17. CASE Rest
    BY <2>2, <2>17 DEF Rest, vars
  <2>18. QED
    BY <1>2, <2>3, <2>4, <2>5, <2>6, <2>7, <2>8, <2>9, <2>10, <2>11, <2>12, <2>13, <2>14, <2>15,
       <2>16, <2>17 DEF Next, Handling
<1>3. QED
  BY <1>1, <1>2

-----------------------------------------------------------------------------
(* The theorems *)

\* The inductive invariant is one.
THEOREM RewindInvariance == Spec => []IInv
<1>1. Init => IInv
  BY InitIInv
<1>2. IInv /\ [Next]_vars => IInv'
  BY NextIInv
<1>3. QED
  BY <1>1, <1>2, PTL DEF Spec

\* However often the game was rewound, its list of actions, what rewinds inserted
\* left out, is what happened, in that order (rewind, navigate).
THEOREM ListIsTheLog == Spec => []LogKept
<1>1. IInv => LogKept
  <2>1. SUFFICES ASSUME IInv, pc = "idle" PROVE Plain(FlattenSeq(game.list)) = session.log
    BY DEF LogKept
  <2>2. PICK R, pos : Alive(session, R, pos, stack, game, pc)
    BY <2>1 DEF IInv
  <2>3. GameOK(game) /\ Real(FlattenSeq(game.list)) = session.log
    BY <2>1, <2>2 DEF Alive, AtEase
  <2>4. FlattenSeq(game.list) \in Seq(Act)
    BY <2>3, FlattenType DEF GameOK
  <2>5. QED
    BY <2>3, <2>4, PlainIsReal
<1>2. QED
  BY <1>1, RewindInvariance, PTL

\* What does not depend on the cards is the same in a State that follows another.
LEMMA FollowsPublic ==
  ASSUME NEW s, NEW r \in St, Follows(s, r)
  PROVE  Public(s) = Public(r)
<1> DEFINE D == {"turn_count", "clue_tokens", "strikes", "hands", "deck", "deck_ids", "drawn_index",
                 "play_stacks", "discard_stacks", "max_ranks", "cardsLeft", "cardOrder",
                 "currentPlayerIndex", "endgameTurns"}
           E == D \ {"deck", "deck_ids"}
<1>1. s \in St /\ s = [r EXCEPT !.deck = s.deck, !.deck_ids = s.deck_ids]
  BY DEF Follows
<1>2. DOMAIN r = D /\ DOMAIN s = D
  BY <1>1 DEF St
<1>3. \A x \in E : s[x] = r[x]
  BY <1>1, <1>2
<1> HIDE DEF D
<1>4. Public(s) = [x \in E |-> s[x]] /\ Public(r) = [x \in E |-> r[x]]
  BY <1>2 DEF Public, Restrict
<1>5. QED
  BY <1>3, <1>4

\* However often the game was rewound, and rewound within a rewind, its State is the
\* one a game that handled every action once has (rewind, handle_action).
THEOREM StateIsTheSame == Spec => []SameState
<1>1. IInv => SameState
  <2>1. SUFFICES ASSUME IInv, AtRest
                 PROVE  /\ Public(game.st) = Public(Table)
                        /\ \A o \in Orders : game.st.deck[o] \in {Table.deck[o], Deck[o]}
    BY DEF SameState
  <2>2. PICK R, pos : Alive(session, R, pos, stack, game, pc)
    BY <2>1 DEF IInv, AtRest
  <2>3. SessionOK(session) /\ Course(session, R) /\ Played(session, R, game, Now(session), Now(session))
    BY <2>1, <2>2 DEF Alive, AtEase, AtRest
  <2>4. R[Now(session)] = Table /\ Table \in St
    BY <2>2, <2>3, TableNow DEF Course, Runs, Table
  <2>5. Follows(game.st, Table)
    BY <2>3, <2>4 DEF Played
  <2>6. QED
    BY <2>4, <2>5, FollowsPublic DEF Follows
<1>2. QED
  BY <1>1, RewindInvariance, PTL

\* Navigating shows the position as it was when that turn began, and one turn past
\* the last one the end of the game (navigate).
THEOREM TurnIsShown == Spec => []ShowsTurn
<1>1. IInv => ShowsTurn
  <2> DEFINE t == session.shown
  <2>1. SUFFICES ASSUME IInv, pc = "idle", t # 0
                 PROVE  Public(game.st) = Public(IF t \in DOMAIN session.begun
                                                 THEN session.begun[t] ELSE Table)
    BY DEF ShowsTurn
  <2>2. PICK R, pos : Alive(session, R, pos, stack, game, pc)
    BY <2>1 DEF IInv
  <2>3. SessionOK(session) /\ Course(session, R) /\ AtEase(session, R, game)
    BY <2>1, <2>2 DEF Alive
  <2>4. PICK k \in 0 .. Now(session) : /\ Follows(game.st, R[k])
                                       /\ k = 0 \/ R[k - 1].turn_count < t
                                       /\ k = Now(session) \/ R[k].turn_count >= t
    BY <2>1, <2>3 DEF AtEase
  <2>5. /\ Now(session) \in Nat /\ Now(session) \in 0 .. Now(session) /\ R[Now(session)] = Table
        /\ t \in Nat
    <3>1. t \in Nat
      BY <2>3 DEF SessionOK
    <3>2. QED
      BY <2>3, <3>1, RunsParts DEF Course, Runs, Table
  <2>6. \A n \in 0 .. Now(session) : R[n] \in St /\ R[n].turn_count \in Nat
    BY <2>3, RunsParts, StParts
  <2>7. R[k].turn_count <= Table.turn_count
    BY <2>3, <2>5 DEF Course, Onward
  <2>8. DOMAIN session.begun = 1 .. Table.turn_count
    BY <2>3 DEF Course, Began, Table
  <2>9. R[k] = IF t \in DOMAIN session.begun THEN session.begun[t] ELSE Table
    <3>1. CASE t \in 1 .. Table.turn_count
      <4>1. t <= R[k].turn_count
        BY <2>4, <2>5, <2>6, <3>1
      <4>2. k # 0
        <5>1. R[0].turn_count = 0
          BY <2>3 DEF Course, Runs, InitialState
        <5>2. QED
          BY <2>1, <2>5, <4>1, <5>1
      <4>3. k \in 1 .. Now(session) /\ R[k - 1].turn_count < t
        BY <2>4, <2>5, <4>2
      <4>4. session.begun[t] = R[k]
        BY <2>3, <3>1, <4>1, <4>3 DEF Course, Began, Table
      <4>5. QED
        BY <2>8, <3>1, <4>4
    <3>2. CASE t \notin 1 .. Table.turn_count
      <4>1. Table.turn_count < t
        BY <2>1, <2>5, <2>6, <3>2
      <4>2. k = Now(session)
        BY <2>4, <2>5, <2>6, <2>7, <4>1
      <4>3. QED
        BY <2>5, <2>8, <3>2, <4>2
    <3>3. QED
      BY <3>1, <3>2
  <2>10. Public(game.st) = Public(R[k])
    BY <2>4, <2>6, FollowsPublic
  <2>11. QED
    BY <2>9, <2>10
<1>2. QED
  BY <1>1, RewindInvariance, PTL

\* A call of rewind leaves the stack alone or puts a frame on it.
LEMMA StartStack ==
  ASSUME NEW kind, NEW index, NEW acts, Start(kind, index, acts)
  PROVE  stack' = stack \/ \E f : stack' = Append(stack, f)
<1> DEFINE g == [game EXCEPT !.rewinds = @ + 1]
           d == [g EXCEPT !.depth = @ + 1]
           spent == g.rewinds > MaxRewinds
           deep == g.depth > MaxDepth
<1>1. CASE spent
  BY <1>1 DEF Start
<1>2. CASE ~spent /\ deep
  BY <1>2 DEF Start
<1>3. CASE ~spent /\ ~deep /\ Invalid(g, index)
  BY <1>3 DEF Start
<1>4. CASE ~spent /\ ~deep /\ ~Invalid(g, index)
  <2>1. IF g.list[index + 1] = Hole
        THEN game' = d /\ pc' = "TypeError" /\ UNCHANGED stack
        ELSE IF AlreadyIn(g.list[index + 1], acts)
        THEN game' = d /\ UNCHANGED <<pc, stack>>
        ELSE /\ game' = Restarted(d)
             /\ stack' = Append(stack, Frame(kind, d, acts, Replay(d, index, acts)))
             /\ pc' = "handle"
    BY <1>4 DEF Start
  <2> HIDE DEF g, d
  <2>2. QED
    BY <2>1
<1>5. QED
  BY <1>1, <1>2, <1>3, <1>4

\* Only a rewind that returns takes a call off the stack and leaves others.
LEMMA OnlyReturnReturns ==
  ASSUME IInv, Next, ~UNCHANGED vars, Returning
  PROVE  Return /\ pc = "handle"
<1>1. /\ pc = "idle" => Len(stack) = 0
      /\ pc \in {"handle", "interpret"} =>
           Len(stack) \in Nat \ {0} /\ stack = [n \in 1 .. Len(stack) |-> stack[n]]
  <2>1. pc = "idle" => stack = <<>>
    BY DEF IInv, Alive
  <2>2. pc \in {"handle", "interpret"} =>
          Len(stack) \in Nat \ {0} /\ stack = [n \in 1 .. Len(stack) |-> stack[n]]
    BY DEF IInv, Alive, InCalls
  <2>3. QED
    BY <2>1, <2>2
<1>2. ~Rest
  BY DEF Rest
<1>3. ASSUME pc = "idle" PROVE FALSE
  <2>1. CASE stack' = stack
    BY <1>1, <1>3, <2>1 DEF Returning
  <2>2. CASE \E f : stack' = <<f>>
    <3>1. Len(stack') = 1
      BY <2>2, SMTT(30)
    <3>2. QED
      BY <1>1, <1>3, <3>1 DEF Returning
  <2>3. QED
    BY <1>2, <1>3, <2>1, <2>2 DEF Next, Handling, Deal, Clue, PlayOrDiscard, DrawCard, Turn, GameOver,
       Receive, CaughtUp, Navigate, Handle, Complete, AskRewind, Return, Done, Shown
<1>4. pc \in {"handle", "interpret"} /\ (Handle \/ Complete \/ AskRewind \/ Return \/ Done \/ Shown)
  BY <1>2, <1>3 DEF Next, Handling, Deal, Clue, PlayOrDiscard, DrawCard, Turn, GameOver, Receive,
                    CaughtUp, Navigate, Handle, Complete, AskRewind, Return, Done, Shown
<1>5. Len(stack) \in Nat \ {0} /\ stack = [n \in 1 .. Len(stack) |-> stack[n]]
  BY <1>1, <1>4
<1>6. ASSUME NEW f PROVE stack' # SetTop(f) /\ stack' # stack /\ stack' # Append(stack, f)
  <2>1. /\ Len([stack EXCEPT ![Len(stack)] = f]) = Len(stack)
        /\ Len(Append(stack, f)) = Len(stack) + 1
    BY <1>5, StackParts
  <2>2. ~(Len(stack) < Len(stack)) /\ ~(Len(stack) + 1 < Len(stack))
    BY <1>5
  <2>3. Len(stack') < Len(stack)
    BY DEF Returning
  <2>4. QED
    BY <2>1, <2>2, <2>3 DEF SetTop
<1>7. ~Handle
  BY <1>6 DEF Handle
<1>8. ~Complete
  BY <1>6 DEF Complete
<1>9. ~AskRewind
  <2>1. ASSUME NEW kind, NEW a, Request(kind, a)
        PROVE  \E index, acts : \E k : Start(k, index, acts)
    BY <2>1 DEF Request, AskIdentify, AskFocus, AskSilent, AskDemonstrate, AskIgnore, AskFinesse, AskFix
  <2>2. QED
    BY <1>6, <2>1, StartStack DEF AskRewind
<1>10. ~Done /\ ~Shown
  <2>1. Len(<<>>) = 0
    OBVIOUS
  <2>2. QED
    BY <2>1 DEF Done, Shown, Returning
<1>11. QED
  BY <1>4, <1>7, <1>8, <1>9, <1>10 DEF Return

\* A rewind that returns a game has inserted all it was asked to, also what had to
\* wait for a draw (rewind, remaining_id_actions).
THEOREM AllIsInserted == Spec => RequestsInserted
<1>1. IInv /\ [Next]_vars => [Returning => ToSet(Top.act) \subseteq ToSet(FlattenSeq(game.list))]_vars
  <2>1. SUFFICES ASSUME IInv, Next, ~UNCHANGED vars, Returning
                 PROVE  ToSet(Top.act) \subseteq ToSet(FlattenSeq(game.list))
    OBVIOUS
  <2>2. Return /\ pc = "handle"
    BY <2>1, OnlyReturnReturns
  <2>3. PICK R, pos : Alive(session, R, pos, stack, game, pc)
    BY <2>1, <2>2 DEF IInv
  <2>4. SessionOK(session) /\ Course(session, R) /\ InCalls(session, R, pos, stack, game, FALSE)
    BY <2>2, <2>3 DEF Alive
  <2>5. Len(stack) # 1 /\ Top.todo = <<>>
    <3>1. Len(stack) > 1 /\ Top.todo = <<>>
      BY <2>2 DEF Return
    <3>2. Len(stack) \in Nat
      BY <2>4, TopCall
    <3>3. \A n \in Nat : n > 1 => n # 1
      OBVIOUS
    <3>4. QED
      BY <3>1, <3>2, <3>3
  <2>6. /\ Doing(session, R, Top, game, pos[Len(stack)], Goal(session, pos, Len(stack)), FALSE)
        /\ Rewinding(session, R, Top, game, pos[Len(stack)], Goal(session, pos, Len(stack)))
    BY <2>4, <2>5, TopCall DEF Top
  <2>7. ToSet(FlattenSeq(Top.this.list)) \cup ToSet(Top.act) \subseteq ToSet(FlattenSeq(game.list))
    BY <2>4, <2>5, <2>6, RewindDone
  <2>8. QED
    BY <2>7
<1>2. QED
  BY <1>1, RewindInvariance, PTL DEF Spec, RequestsInserted
=============================================================================
