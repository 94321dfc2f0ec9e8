--------------------------- MODULE SelfPlay_proofs ---------------------------
(***************************************************************************)
(* Proofs about SelfPlay, for every number of players, hand size, variant  *)
(* and set of shuffles: the copies of the game agree, and baseCount of     *)
(* every copy counts exactly the cards that have left the hands.           *)
(***************************************************************************)
EXTENDS SelfPlay, FiniteSetTheorems, TLAPS

-----------------------------------------------------------------------------
(* The handlers keep a State well formed *)

\* An identity of the variant is not -1/-1, and its parts are in range.
LEMMA IdFacts ==
  ASSUME NEW id \in Ids
  PROVE  /\ id # NoId
         /\ id[1] \in Suits
         /\ id[2] \in Ranks
         /\ id[2] \in 0 .. MaxRank
         /\ id[2] - 1 \in 0 .. MaxRank
BY TableAssumption DEF Ids, Ranks, NoId

\* What the helpers of the handlers return has the type of the field it is for.
LEMMA HelperTypes ==
  ASSUME NEW id \in Ids, NEW o \in Orders, NEW p \in Players
  PROVE  /\ \A h \in [Players -> SUBSET Orders] :
              /\ Without(h, p, o) \in [Players -> SUBSET Orders]
              /\ With(h, p, o) \in [Players -> SUBSET Orders]
         /\ \A f \in [Orders -> Ids \cup {NoId}] :
              Reveal(f, o, id) \in [Orders -> Ids \cup {NoId}]
         /\ \A g \in [Ids -> Nat] : Gone(g, id) \in [Ids -> Nat]
         /\ \A r \in [Suits -> 0 .. MaxRank], g \in [Ids -> Nat] :
              Lowered(r, g, id) \in [Suits -> 0 .. MaxRank]
         /\ \A r \in [Suits -> 0 .. MaxRank] : Stacked(r, id) \in [Suits -> 0 .. MaxRank]
         /\ \A n \in 0 .. MaxClues : Regain(n) \in 0 .. MaxClues
         /\ \A n \in -1 .. NumPlayers : CountDown(n) \in -1 .. NumPlayers
<1>1. \A h \in [Players -> SUBSET Orders] :
              /\ Without(h, p, o) \in [Players -> SUBSET Orders]
              /\ With(h, p, o) \in [Players -> SUBSET Orders]
  BY DEF Without, With
<1>2. \A f \in [Orders -> Ids \cup {NoId}] :
              Reveal(f, o, id) \in [Orders -> Ids \cup {NoId}]
  BY DEF Reveal
<1>3. \A g \in [Ids -> Nat] : Gone(g, id) \in [Ids -> Nat]
  BY DEF Gone
<1>4. \A r \in [Suits -> 0 .. MaxRank], g \in [Ids -> Nat] :
              Lowered(r, g, id) \in [Suits -> 0 .. MaxRank]
  BY IdFacts DEF Lowered
<1>5. \A r \in [Suits -> 0 .. MaxRank] : Stacked(r, id) \in [Suits -> 0 .. MaxRank]
  BY IdFacts DEF Stacked
<1>6. \A n \in 0 .. MaxClues : Regain(n) \in 0 .. MaxClues
  BY TableAssumption DEF Regain
<1>7. \A n \in -1 .. NumPlayers : CountDown(n) \in -1 .. NumPlayers
  BY TableAssumption DEF CountDown
<1>8. QED
  BY <1>1, <1>2, <1>3, <1>4, <1>5, <1>6, <1>7

\* OnPlay and OnDiscard keep a State well formed.
LEMMA OnPlayType ==
  ASSUME NEW st \in State, NEW p \in Players, NEW o \in Orders, NEW id \in Ids
  PROVE  OnPlay(st, p, o, id) \in State
<1>1. /\ Without(st.hands, p, o) \in [Players -> SUBSET Orders]
      /\ Reveal(st.deck, o, id) \in [Orders -> Ids \cup {NoId}]
      /\ Reveal(st.deck_ids, o, id) \in [Orders -> Ids \cup {NoId}]
      /\ Stacked(st.play_stacks, id) \in [Suits -> 0 .. MaxRank]
      /\ CountDown(st.endgameTurns) \in -1 .. NumPlayers
      /\ Regain(st.clue_tokens) \in 0 .. MaxClues
  BY HelperTypes DEF State
<1>2. QED
  BY <1>1 DEF OnPlay, State

\* onDiscard keeps a State well formed, whether the card was thrown or misplayed.
LEMMA OnDiscardType ==
  ASSUME NEW st \in State, NEW p \in Players, NEW o \in Orders, NEW id \in Ids,
         NEW failed \in BOOLEAN
  PROVE  OnDiscard(st, p, o, id, failed) \in State
<1>1. /\ Without(st.hands, p, o) \in [Players -> SUBSET Orders]
      /\ Reveal(st.deck, o, id) \in [Orders -> Ids \cup {NoId}]
      /\ Reveal(st.deck_ids, o, id) \in [Orders -> Ids \cup {NoId}]
      /\ Gone(st.discard_stacks, id) \in [Ids -> Nat]
      /\ Lowered(st.max_ranks, Gone(st.discard_stacks, id), id) \in [Suits -> 0 .. MaxRank]
      /\ CountDown(st.endgameTurns) \in -1 .. NumPlayers
      /\ Regain(st.clue_tokens) \in 0 .. MaxClues
      /\ st.clue_tokens \in 0 .. MaxClues
      /\ st.strikes \in Nat
      /\ st.strikes + 1 \in Nat
  BY HelperTypes DEF State
<1>2. QED
  BY <1>1 DEF OnDiscard, State

\* onClue keeps a State well formed as long as there is a token to spend.
LEMMA OnClueType ==
  ASSUME NEW st \in State, st.clue_tokens > 0
  PROVE  OnClue(st) \in State
<1>1. /\ st.clue_tokens - 1 \in 0 .. MaxClues
      /\ CountDown(st.endgameTurns) \in -1 .. NumPlayers
  BY TableAssumption DEF State, CountDown
<1>2. QED
  BY <1>1 DEF OnClue, State

\* The next card to draw is a card of the deck.
LEMMA NextOrder ==
  ASSUME NEW st \in State, st.cardOrder + 1 < DeckSize
  PROVE  st.cardOrder + 1 \in Orders
<1>1. st.cardOrder \in Orders \cup {-1}
  BY DEF State
<1>2. st.cardOrder \in Int /\ st.cardOrder >= -1
  BY <1>1 DEF Orders
<1>3. QED
  BY <1>2, TableAssumption DEF Orders

\* What handle_action does to a copy on a 'draw'.
LEMMA DrawFields ==
  ASSUME NEW st \in State, NEW p \in Players, NEW o \in Orders, NEW id \in Ids \cup {NoId}
  PROVE  LET new == HandleDraw(st, p, o, id)
         IN  /\ new \in State
             /\ new.hands = With(st.hands, p, o)
             /\ new.deck = Seen(st.deck, st.deck_ids, o, id)
             /\ new.deck_ids = Reveal(st.deck_ids, o, id)
             /\ new.cardOrder = o
             /\ new.clue_tokens = st.clue_tokens
             /\ new.strikes = st.strikes
             /\ new.play_stacks = st.play_stacks
             /\ new.discard_stacks = st.discard_stacks
             /\ new.max_ranks = st.max_ranks
             /\ new.cardsLeft = st.cardsLeft - 1
             /\ new.endgameTurns = IF st.cardsLeft = 1 THEN NumPlayers ELSE st.endgameTurns
<1>1. /\ With(st.hands, p, o) \in [Players -> SUBSET Orders]
      /\ Seen(st.deck, st.deck_ids, o, id) \in [Orders -> Ids \cup {NoId}]
      /\ Reveal(st.deck_ids, o, id) \in [Orders -> Ids \cup {NoId}]
      /\ [st.drawn_index EXCEPT ![o] = st.turn_count] \in [Orders -> Nat \cup {-1}]
      /\ st.cardsLeft - 1 \in Int
      /\ NumPlayers \in -1 .. NumPlayers
      /\ st.endgameTurns \in -1 .. NumPlayers
  BY TableAssumption DEF State, With, Seen, Reveal
<1>2. OnDraw(st, p, o, id) \in State
  BY <1>1 DEF OnDraw, State
<1>3. HandleDraw(st, p, o, id) \in State
  BY <1>2 DEF HandleDraw, State
<1>4. QED
  BY <1>3 DEF HandleDraw, OnDraw, State

\* A 'turn' changes nothing but turn_count and currentPlayerIndex.
LEMMA TurnFields ==
  ASSUME NEW st \in State, NEW p \in Players, NEW num \in Nat
  PROVE  LET new == HandleTurn(st, num, p)
         IN  /\ new \in State
             /\ new.hands = st.hands
             /\ new.deck = st.deck
             /\ new.deck_ids = st.deck_ids
             /\ new.cardOrder = st.cardOrder
             /\ new.cardsLeft = st.cardsLeft
             /\ SameTable(new, st)
<1>1. num + 1 \in Nat
  OBVIOUS
<1>2. QED
  BY <1>1 DEF HandleTurn, State, SameTable

-----------------------------------------------------------------------------
(* One copy takes an action *)

\* The copy st once player p has done perform, before any draw.
Acted(st, perform, p) == HandleTableAction(st, PerformToAction(st, perform, p))

\* Which handler a decision reaches.
LEMMA ActedCases ==
  ASSUME NEW st \in State, NEW perform \in PerformActions, NEW p \in Players
  PROVE  LET o  == perform.target
             id == shuffled[o]
         IN  /\ perform.type = "CLUE" => Acted(st, perform, p) = OnClue(st)
             /\ perform.type = "DISCARD" => Acted(st, perform, p) = OnDiscard(st, p, o, id, FALSE)
             /\ perform.type = "PLAY" /\ IsPlayable(st, id)
                  => Acted(st, perform, p) = OnPlay(st, p, o, id)
             /\ perform.type = "PLAY" /\ ~IsPlayable(st, id)
                  => Acted(st, perform, p) = OnDiscard(st, p, o, id, TRUE)
<1>1. perform.type = "CLUE" => Acted(st, perform, p) = OnClue(st)
  BY DEF Acted, HandleTableAction, PerformToAction
<1>2. perform.type = "DISCARD"
        => Acted(st, perform, p)
             = OnDiscard(st, p, perform.target, shuffled[perform.target], FALSE)
  BY DEF Acted, HandleTableAction, PerformToAction
<1>3. perform.type = "PLAY" /\ IsPlayable(st, shuffled[perform.target])
        => Acted(st, perform, p) = OnPlay(st, p, perform.target, shuffled[perform.target])
  BY DEF Acted, HandleTableAction, PerformToAction
<1>4. perform.type = "PLAY" /\ ~IsPlayable(st, shuffled[perform.target])
        => Acted(st, perform, p)
             = OnDiscard(st, p, perform.target, shuffled[perform.target], TRUE)
  BY DEF Acted, HandleTableAction, PerformToAction
<1>5. QED
  BY <1>1, <1>2, <1>3, <1>4

\* A card leaves the hand of player p and its identity becomes public; a clue
\* changes neither.
LEMMA ActedFields ==
  ASSUME NEW st \in State, NEW perform \in PerformActions, NEW p \in Players,
         shuffled \in [Orders -> Ids],
         perform.type = "CLUE" => st.clue_tokens > 0
  PROVE  LET o     == perform.target
             id    == shuffled[o]
             acted == Acted(st, perform, p)
         IN  /\ acted \in State
             /\ acted.cardOrder = st.cardOrder
             /\ acted.cardsLeft = st.cardsLeft
             /\ perform.type = "CLUE" =>
                  /\ acted.hands = st.hands
                  /\ acted.deck = st.deck
                  /\ acted.deck_ids = st.deck_ids
                  /\ acted.play_stacks = st.play_stacks
                  /\ acted.discard_stacks = st.discard_stacks
             /\ perform.type # "CLUE" =>
                  /\ o \in Orders
                  /\ id \in Ids
                  /\ acted.hands = Without(st.hands, p, o)
                  /\ acted.deck = Reveal(st.deck, o, id)
                  /\ acted.deck_ids = Reveal(st.deck_ids, o, id)
                  /\ \/ /\ acted.discard_stacks = Gone(st.discard_stacks, id)
                        /\ acted.play_stacks = st.play_stacks
                     \/ /\ acted.play_stacks = Stacked(st.play_stacks, id)
                        /\ acted.discard_stacks = st.discard_stacks
                        /\ IsPlayable(st, id)
<1> DEFINE o     == perform.target
           id    == shuffled[o]
           acted == Acted(st, perform, p)
<1>1. perform.type \in {"CLUE", "DISCARD", "PLAY"}
  BY DEF PerformActions
<1>2. perform.type # "CLUE" => o \in Orders /\ id \in Ids
  BY DEF PerformActions
<1>3. CASE perform.type = "CLUE"
  <2>1. acted = OnClue(st)
    BY <1>3, ActedCases
  <2>2. QED
    BY <1>3, <2>1, OnClueType DEF OnClue, State
<1>4. CASE perform.type = "DISCARD"
  <2>1. acted = OnDiscard(st, p, o, id, FALSE)
    BY <1>4, ActedCases
  <2>2. acted \in State
    BY <1>2, <1>4, <2>1, OnDiscardType
  <2>3. QED
    BY <1>2, <1>4, <2>1, <2>2 DEF OnDiscard, State
<1>5. CASE perform.type = "PLAY" /\ IsPlayable(st, id)
  <2>1. acted = OnPlay(st, p, o, id)
    BY <1>5, ActedCases
  <2>2. acted \in State
    BY <1>2, <1>5, <2>1, OnPlayType
  <2>3. QED
    BY <1>2, <1>5, <2>1, <2>2 DEF OnPlay, State
<1>6. CASE perform.type = "PLAY" /\ ~IsPlayable(st, id)
  <2>1. acted = OnDiscard(st, p, o, id, TRUE)
    BY <1>6, ActedCases
  <2>2. acted \in State
    BY <1>2, <1>6, <2>1, OnDiscardType
  <2>3. QED
    BY <1>2, <1>6, <2>1, <2>2 DEF OnDiscard, State
<1>7. QED
  BY <1>1, <1>3, <1>4, <1>5, <1>6

\* Two copies that agree on the public scalars still agree after an action.
LEMMA ActedAgree ==
  ASSUME NEW st \in State, NEW ts \in State, NEW perform \in PerformActions, NEW p \in Players,
         shuffled \in [Orders -> Ids],
         SameTable(st, ts)
  PROVE  SameTable(Acted(st, perform, p), Acted(ts, perform, p))
<1> DEFINE o  == perform.target
           id == shuffled[o]
<1>1. perform.type \in {"CLUE", "DISCARD", "PLAY"}
  BY DEF PerformActions
<1>2. IsPlayable(st, id) <=> IsPlayable(ts, id)
  BY DEF IsPlayable, SameTable
<1>3. CASE perform.type = "CLUE"
  <2>1. Acted(st, perform, p) = OnClue(st) /\ Acted(ts, perform, p) = OnClue(ts)
    BY <1>3, ActedCases
  <2>2. QED
    BY <2>1 DEF OnClue, State, SameTable
<1>4. CASE perform.type = "DISCARD"
  <2>1. /\ Acted(st, perform, p) = OnDiscard(st, p, o, id, FALSE)
        /\ Acted(ts, perform, p) = OnDiscard(ts, p, o, id, FALSE)
    BY <1>4, ActedCases
  <2>2. QED
    BY <2>1 DEF OnDiscard, State, SameTable
<1>5. CASE perform.type = "PLAY" /\ IsPlayable(st, id)
  <2>1. /\ Acted(st, perform, p) = OnPlay(st, p, o, id)
        /\ Acted(ts, perform, p) = OnPlay(ts, p, o, id)
    BY <1>2, <1>5, ActedCases
  <2>2. QED
    BY <2>1 DEF OnPlay, State, SameTable
<1>6. CASE perform.type = "PLAY" /\ ~IsPlayable(st, id)
  <2>1. /\ Acted(st, perform, p) = OnDiscard(st, p, o, id, TRUE)
        /\ Acted(ts, perform, p) = OnDiscard(ts, p, o, id, TRUE)
    BY <1>2, <1>6, ActedCases
  <2>2. QED
    BY <2>1 DEF OnDiscard, State, SameTable
<1>7. QED
  BY <1>1, <1>3, <1>4, <1>5, <1>6

-----------------------------------------------------------------------------
(* The inductive invariant *)

\* The deck is what has not been drawn.
Counted == \A i \in Players : games[i].cardsLeft = DeckSize - 1 - games[i].cardOrder

\* A card is drawn before it is held, and held once.
Held(st) ==
  \A p \in Players :
    /\ \A o \in st.hands[p] : o <= st.cardOrder
    /\ \A q \in Players \ {p} : st.hands[p] \cap st.hands[q] = {}

HandsOK == \A i \in Players : Held(games[i])

\* What OwnHandHidden says of one copy.
Hidden(i, st) ==
  \A o \in Orders :
    LET known == IF o > st.cardOrder \/ o \in st.hands[i] THEN NoId ELSE shuffled[o]
    IN  st.deck[o] = known /\ st.deck_ids[o] = known

\* The starting cards of player p.
Start(p) == {o \in Orders : p * HandSize <= o /\ o < (p + 1) * HandSize}

\* While the cards are dealt a hand is what has been dealt of its block.
Dealing ==
  pc = "deal" =>
    \A i \in Players :
      /\ games[i].cardOrder < NumPlayers * HandSize
      /\ \A p \in Players :
           games[i].hands[p] = {o \in Start(p) : o <= games[i].cardOrder}

\* What has been decided is a legal move for the player on turn.
PerformOK ==
  pc = "apply" =>
    /\ performAction \in PerformActions
    /\ performAction.type = "CLUE" => games[0].clue_tokens > 0
    /\ performAction.type # "CLUE" => performAction.target \in games[0].hands[currentPlayerIndex]

IInv == TypeOK /\ CopiesAgree /\ Counted /\ HandsOK /\ Dealing /\ PerformOK /\ OwnHandHidden

\* The numbers of a table, with the range of each.
LEMMA TableFacts ==
  /\ NumPlayers \in Nat /\ NumPlayers > 1
  /\ HandSize \in Nat /\ HandSize > 0
  /\ DeckSize \in Nat /\ DeckSize > 0
  /\ MaxClues \in Nat /\ MaxRank \in Nat
  /\ 0 \in Players
  /\ NumPlayers * HandSize < DeckSize
<1>1. HandSize \in Int
  BY TableAssumption DEF HandSize
<1>2. QED
  BY <1>1, TableAssumption DEF Players

\* The blocks of starting cards are within the deck and do not overlap.
LEMMA Blocks ==
  ASSUME NEW p \in Players
  PROVE  /\ (p + 1) * HandSize <= NumPlayers * HandSize
         /\ \A q \in Players \ {p} : Start(p) \cap Start(q) = {}
<1>1. \A a, b \in Nat : a < b => (a + 1) * HandSize <= b * HandSize
  <2> SUFFICES ASSUME NEW a \in Nat, NEW b \in Nat, a < b
               PROVE  (a + 1) * HandSize <= b * HandSize
    OBVIOUS
  <2>1. PICK d \in Nat : b = a + 1 + d
    <3>1. b - a - 1 \in Nat /\ b = a + 1 + (b - a - 1)
      OBVIOUS
    <3>2. QED
      BY <3>1
  <2>2. b * HandSize = (a + 1) * HandSize + d * HandSize
    BY <2>1, TableFacts
  <2>3. d * HandSize \in Nat
    BY TableFacts
  <2>4. QED
    BY <2>2, <2>3, TableFacts
<1>2. p \in Nat /\ p < NumPlayers
  BY TableFacts DEF Players
<1>3. ASSUME NEW q \in Players \ {p}
      PROVE  Start(p) \cap Start(q) = {}
  <2>1. q \in Nat /\ (p < q \/ q < p)
    BY <1>2, TableFacts DEF Players
  <2>2. /\ p * HandSize \in Nat /\ (p + 1) * HandSize \in Nat
        /\ q * HandSize \in Nat /\ (q + 1) * HandSize \in Nat
    BY <1>2, <2>1, TableFacts
  <2>3. CASE p < q
    <3>1. (p + 1) * HandSize <= q * HandSize
      BY <1>1, <1>2, <2>1, <2>3
    <3>2. QED
      BY <2>2, <3>1 DEF Start, Orders
  <2>4. CASE q < p
    <3>1. (q + 1) * HandSize <= p * HandSize
      BY <1>1, <1>2, <2>1, <2>4
    <3>2. QED
      BY <2>2, <3>1 DEF Start, Orders
  <2>5. QED
    BY <2>1, <2>3, <2>4
<1>4. QED
  BY <1>1, <1>2, <1>3, TableFacts

\* The State a game starts from is well formed.
LEMMA InitialType == InitialState \in State
<1>1. /\ [p \in Players |-> {}] \in [Players -> SUBSET Orders]
      /\ [o \in Orders |-> NoId] \in [Orders -> Ids \cup {NoId}]
      /\ [o \in Orders |-> -1] \in [Orders -> Nat \cup {-1}]
      /\ [s \in Suits |-> 0] \in [Suits -> 0 .. MaxRank]
      /\ [s \in Suits |-> MaxRank] \in [Suits -> 0 .. MaxRank]
      /\ [id \in Ids |-> 0] \in [Ids -> Nat]
      /\ MaxClues \in 0 .. MaxClues
      /\ DeckSize \in Int
      /\ -1 \in -1 .. NumPlayers
  BY TableFacts
<1>2. QED
  BY <1>1, TableFacts DEF InitialState, State

\* The invariant holds when simulate_game begins.
LEMMA InitIInv == Init => IInv
<1> SUFFICES ASSUME Init PROVE IInv
  OBVIOUS
<1> USE DEF Init
<1>1. \A i \in Players : games[i] = InitialState
  OBVIOUS
<1>2. TypeOK
  <2>1. shuffled \in [Orders -> Ids]
    BY ShuffleAssumption DEF Decks
  <2>2. games \in [Players -> State]
    BY InitialType
  <2>3. QED
    BY <2>1, <2>2, TableFacts DEF TypeOK
<1>3. CopiesAgree /\ Counted
  BY <1>1, TableFacts DEF CopiesAgree, SameTable, Counted, InitialState
<1>4. HandsOK
  BY <1>1 DEF HandsOK, Held, InitialState
<1>5. Dealing
  <2>1. NumPlayers * HandSize \in Nat
    BY TableFacts
  <2>2. ASSUME NEW i \in Players, NEW p \in Players
        PROVE  games[i].hands[p] = {o \in Start(p) : o <= games[i].cardOrder}
    <3>1. games[i].cardOrder = -1 /\ games[i].hands[p] = {}
      BY <1>1 DEF InitialState
    <3>2. QED
      BY <3>1, TableFacts DEF Start, Orders
  <2>3. \A i \in Players : games[i].cardOrder = -1
    BY <1>1 DEF InitialState
  <2>4. QED
    BY <2>1, <2>2, <2>3 DEF Dealing
<1>6. PerformOK
  BY DEF PerformOK
<1>7. OwnHandHidden
  <2> SUFFICES ASSUME NEW i \in Players, NEW o \in Orders
               PROVE  /\ o > games[i].cardOrder
                      /\ games[i].deck[o] = NoId
                      /\ games[i].deck_ids[o] = NoId
    BY DEF OwnHandHidden
  <2>1. QED
    BY <1>1, TableFacts DEF InitialState, Orders
<1>8. QED
  BY <1>2, <1>3, <1>4, <1>5, <1>6, <1>7 DEF IInv

-----------------------------------------------------------------------------
(* The steps *)

\* A draw keeps hands disjoint and keeps from the drawer what it drew.
LEMMA DrawCopy ==
  ASSUME NEW st \in State, NEW i \in Players, NEW p \in Players, NEW o \in Orders,
         shuffled \in [Orders -> Ids],
         o = st.cardOrder + 1, Held(st), Hidden(i, st)
  PROVE  LET new == HandleDraw(st, p, o, SeenBy(i, p, o))
         IN  Held(new) /\ Hidden(i, new)
<1> DEFINE id  == SeenBy(i, p, o)
           new == HandleDraw(st, p, o, id)
<1>1. id \in Ids \cup {NoId} /\ (p = i => id = NoId) /\ (p # i => id = shuffled[o])
  BY DEF SeenBy
<1>2. shuffled[o] # NoId
  BY IdFacts
<1>3. /\ new.hands = With(st.hands, p, o)
      /\ new.deck = Seen(st.deck, st.deck_ids, o, id)
      /\ new.deck_ids = Reveal(st.deck_ids, o, id)
      /\ new.cardOrder = o
  BY <1>1, DrawFields
<1>4. /\ st.hands \in [Players -> SUBSET Orders]
      /\ st.deck \in [Orders -> Ids \cup {NoId}]
      /\ st.deck_ids \in [Orders -> Ids \cup {NoId}]
      /\ st.cardOrder \in Int
  BY TableFacts DEF State, Orders
<1>5. \A q \in Players : o \notin st.hands[q]
  BY <1>4, TableFacts DEF Held, Orders
<1>6. Held(new)
  <2>1. \A q \in Players : new.hands[q] = IF q = p THEN st.hands[q] \cup {o} ELSE st.hands[q]
    BY <1>3, <1>4 DEF With
  <2>2. \A q \in Players : \A x \in st.hands[q] : x <= new.cardOrder
    BY <1>3, <1>4, TableFacts DEF Held, Orders
  <2>3. o <= new.cardOrder
    BY <1>3, TableFacts DEF Orders
  <2>4. \A q \in Players : \A x \in new.hands[q] : x <= new.cardOrder
    BY <2>1, <2>2, <2>3
  <2>5. ASSUME NEW q \in Players, NEW r \in Players \ {q}
        PROVE  new.hands[q] \cap new.hands[r] = {}
    <3>1. st.hands[q] \cap st.hands[r] = {}
      BY DEF Held
    <3>2. QED
      BY <1>5, <2>1, <3>1
  <2>6. QED
    BY <2>4, <2>5 DEF Held
<1>7. Hidden(i, new)
  <2> SUFFICES ASSUME NEW x \in Orders
               PROVE  LET known == IF x > new.cardOrder \/ x \in new.hands[i]
                                   THEN NoId ELSE shuffled[x]
                      IN  new.deck[x] = known /\ new.deck_ids[x] = known
    BY DEF Hidden
  <2>1. new.hands[i] = IF i = p THEN st.hands[i] \cup {o} ELSE st.hands[i]
    BY <1>3, <1>4 DEF With
  <2>2. st.deck_ids[o] = NoId
    BY <1>4, TableFacts DEF Hidden, Orders
  <2>3. CASE x = o
    <3>1. new.deck[o] = id /\ new.deck_ids[o] = id
      BY <1>1, <1>3, <1>4, <2>2 DEF Seen, Reveal
    <3>2. o \in new.hands[i] <=> i = p
      BY <1>5, <2>1
    <3>3. ~(o > new.cardOrder)
      BY <1>3, TableFacts DEF Orders
    <3>4. QED
      BY <1>1, <2>3, <3>1, <3>2, <3>3
  <2>4. CASE x # o
    <3>1. new.deck[x] = st.deck[x] /\ new.deck_ids[x] = st.deck_ids[x]
      BY <1>3, <1>4, <2>4 DEF Seen, Reveal
    <3>2. x \in new.hands[i] <=> x \in st.hands[i]
      BY <2>1, <2>4
    <3>3. x > new.cardOrder <=> x > st.cardOrder
      BY <1>3, <1>4, <2>4, TableFacts DEF Orders
    <3>4. QED
      BY <3>1, <3>2, <3>3 DEF Hidden
  <2>5. QED
    BY <2>3, <2>4
<1>8. QED
  BY <1>6, <1>7

\* A turn keeps hands disjoint and shows a card only when it leaves the hand.
LEMMA ActedCopy ==
  ASSUME NEW st \in State, NEW i \in Players, NEW p \in Players, NEW perform \in PerformActions,
         shuffled \in [Orders -> Ids],
         perform.type = "CLUE" => st.clue_tokens > 0,
         perform.type # "CLUE" => perform.target \in st.hands[p],
         Held(st), Hidden(i, st)
  PROVE  Held(Acted(st, perform, p)) /\ Hidden(i, Acted(st, perform, p))
<1> DEFINE o     == perform.target
           id    == shuffled[o]
           acted == Acted(st, perform, p)
<1>1. CASE perform.type = "CLUE"
  <2>1. /\ acted.hands = st.hands /\ acted.deck = st.deck
        /\ acted.deck_ids = st.deck_ids /\ acted.cardOrder = st.cardOrder
    BY <1>1, ActedFields
  <2>2. QED
    BY <2>1 DEF Held, Hidden
<1>2. CASE perform.type # "CLUE"
  <2>1. /\ o \in Orders /\ id \in Ids
        /\ acted.hands = Without(st.hands, p, o)
        /\ acted.deck = Reveal(st.deck, o, id)
        /\ acted.deck_ids = Reveal(st.deck_ids, o, id)
        /\ acted.cardOrder = st.cardOrder
    BY <1>2, ActedFields
  <2>2. /\ st.hands \in [Players -> SUBSET Orders]
        /\ st.deck \in [Orders -> Ids \cup {NoId}]
        /\ st.deck_ids \in [Orders -> Ids \cup {NoId}]
        /\ st.cardOrder \in Int
    BY TableFacts DEF State, Orders
  <2>3. \A q \in Players : acted.hands[q] = IF q = p THEN st.hands[q] \ {o} ELSE st.hands[q]
    BY <2>1, <2>2 DEF Without
  <2>4. Held(acted)
    BY <2>1, <2>3 DEF Held
  <2>5. Hidden(i, acted)
    <3> SUFFICES ASSUME NEW x \in Orders
                 PROVE  LET known == IF x > acted.cardOrder \/ x \in acted.hands[i]
                                     THEN NoId ELSE shuffled[x]
                        IN  acted.deck[x] = known /\ acted.deck_ids[x] = known
      BY DEF Hidden
    <3>1. CASE x = o
      <4>1. acted.deck[o] = id /\ acted.deck_ids[o] = id
        BY <2>1, <2>2, IdFacts DEF Reveal
      <4>2. o \notin acted.hands[i]
        BY <1>2, <2>3 DEF Held
      <4>3. ~(o > acted.cardOrder)
        BY <1>2, <2>1, <2>2, TableFacts DEF Held, Orders
      <4>4. QED
        BY <3>1, <4>1, <4>2, <4>3
    <3>2. CASE x # o
      <4>1. acted.deck[x] = st.deck[x] /\ acted.deck_ids[x] = st.deck_ids[x]
        BY <2>1, <2>2, <3>2 DEF Reveal
      <4>2. x \in acted.hands[i] <=> x \in st.hands[i]
        BY <2>3, <3>2
      <4>3. QED
        BY <2>1, <4>1, <4>2 DEF Hidden
    <3>3. QED
      BY <3>1, <3>2
  <2>6. QED
    BY <2>4, <2>5
<1>3. QED
  BY <1>1, <1>2

\* What a turn makes of one copy.
LEMMA AdvanceCopy ==
  ASSUME TypeOK, NEW i \in Players, NEW p \in Players, NEW perform \in PerformActions,
         perform.type = "CLUE" => games[i].clue_tokens > 0,
         perform.type # "CLUE" => perform.target \in games[i].hands[p],
         Held(games[i]), Hidden(i, games[i])
  PROVE  LET new == Advance(i, perform, p)
         IN  /\ new \in State /\ Held(new) /\ Hidden(i, new)
             /\ new.cardsLeft - games[i].cardsLeft = games[i].cardOrder - new.cardOrder
<1> DEFINE st    == games[i]
           acted == Acted(st, perform, p)
           order == st.cardOrder + 1
           draws == /\ ~(acted.strikes = MaxStrikes \/ Perfect(acted))
                    /\ perform.type # "CLUE"
                    /\ order < DeckSize
<1>1. st \in State /\ shuffled \in [Orders -> Ids]
  BY DEF TypeOK
<1>2. /\ acted \in State /\ Held(acted) /\ Hidden(i, acted)
      /\ acted.cardOrder = st.cardOrder /\ acted.cardsLeft = st.cardsLeft
  BY <1>1, ActedFields, ActedCopy
<1>3. Advance(i, perform, p) = IF draws THEN HandleDraw(acted, p, order, SeenBy(i, p, order))
                                       ELSE acted
  BY DEF Advance, Acted
<1>4. CASE draws
  <2>1. order \in Orders
    BY <1>1, <1>4, NextOrder
  <2>2. SeenBy(i, p, order) \in Ids \cup {NoId}
    BY <1>1, <2>1 DEF SeenBy
  <2>3. LET new == HandleDraw(acted, p, order, SeenBy(i, p, order))
        IN  /\ new \in State /\ Held(new) /\ Hidden(i, new)
            /\ new.cardsLeft = st.cardsLeft - 1
            /\ new.cardOrder = st.cardOrder + 1
    BY <1>1, <1>2, <2>1, <2>2, DrawFields, DrawCopy
  <2>4. st.cardsLeft \in Int /\ st.cardOrder \in Int
    BY <1>1, TableFacts DEF State, Orders
  <2>5. QED
    BY <1>3, <1>4, <2>3, <2>4
<1>5. CASE ~draws
  <2>1. st.cardsLeft \in Int /\ st.cardOrder \in Int
    BY <1>1, TableFacts DEF State, Orders
  <2>2. QED
    BY <1>2, <1>3, <1>5, <2>1
<1>6. QED
  BY <1>4, <1>5

\* Copies that agree before a turn agree after it.
LEMMA AdvanceAgree ==
  ASSUME TypeOK, NEW i \in Players, NEW j \in Players, NEW p \in Players,
         NEW perform \in PerformActions,
         perform.type = "CLUE" => games[i].clue_tokens > 0 /\ games[j].clue_tokens > 0,
         SameTable(games[i], games[j]),
         SameCards(games[i], games[j])
  PROVE  /\ SameTable(Advance(i, perform, p), Advance(j, perform, p))
         /\ SameCards(Advance(i, perform, p), Advance(j, perform, p))
<1> DEFINE si    == Acted(games[i], perform, p)
           sj    == Acted(games[j], perform, p)
           order == games[j].cardOrder + 1
           draws == /\ ~(sj.strikes = MaxStrikes \/ Perfect(sj))
                    /\ perform.type # "CLUE"
                    /\ order < DeckSize
<1>1. games[i] \in State /\ games[j] \in State /\ shuffled \in [Orders -> Ids]
  BY DEF TypeOK
<1>2. SameTable(si, sj)
  BY <1>1, ActedAgree
<1>3. si \in State /\ sj \in State /\ SameCards(si, sj)
  <2>1. si \in State /\ si.cardOrder = games[i].cardOrder /\ si.cardsLeft = games[i].cardsLeft
    BY <1>1, ActedFields
  <2>2. sj \in State /\ sj.cardOrder = games[j].cardOrder /\ sj.cardsLeft = games[j].cardsLeft
    BY <1>1, ActedFields
  <2>3. CASE perform.type = "CLUE"
    <3>1. si.hands = games[i].hands /\ sj.hands = games[j].hands
      BY <1>1, <2>3, ActedFields
    <3>2. QED
      BY <2>1, <2>2, <3>1 DEF SameCards
  <2>4. CASE perform.type # "CLUE"
    <3>1. si.hands = Without(games[i].hands, p, perform.target)
      BY <1>1, <2>4, ActedFields
    <3>2. sj.hands = Without(games[j].hands, p, perform.target)
      BY <1>1, <2>4, ActedFields
    <3>3. QED
      BY <2>1, <2>2, <3>1, <3>2 DEF SameCards
  <2>5. QED
    BY <2>3, <2>4
<1>4. Perfect(si) <=> Perfect(sj)
  BY <1>2 DEF Perfect, Score, SameTable
<1>5. Advance(j, perform, p) = IF draws THEN HandleDraw(sj, p, order, SeenBy(j, p, order)) ELSE sj
  BY DEF Advance, Acted
<1>6. Advance(i, perform, p) = IF draws THEN HandleDraw(si, p, order, SeenBy(i, p, order)) ELSE si
  BY <1>2, <1>4 DEF Advance, Acted, SameTable, SameCards
<1>7. CASE draws
  <2>1. order \in Orders
    BY <1>1, <1>7, NextOrder
  <2>2. \A k \in Players : SeenBy(k, p, order) \in Ids \cup {NoId}
    BY <1>1, <2>1 DEF SeenBy
  <2>3. ASSUME NEW k \in Players, NEW st \in State
        PROVE  LET new == HandleDraw(st, p, order, SeenBy(k, p, order))
               IN  /\ new.hands = With(st.hands, p, order)
                   /\ new.cardOrder = order
                   /\ new.cardsLeft = st.cardsLeft - 1
                   /\ new.endgameTurns = IF st.cardsLeft = 1 THEN NumPlayers ELSE st.endgameTurns
                   /\ new.clue_tokens = st.clue_tokens
                   /\ new.strikes = st.strikes
                   /\ new.play_stacks = st.play_stacks
                   /\ new.discard_stacks = st.discard_stacks
                   /\ new.max_ranks = st.max_ranks
    BY <2>1, <2>2, DrawFields
  <2>4. SameTable(HandleDraw(si, p, order, SeenBy(i, p, order)),
                  HandleDraw(sj, p, order, SeenBy(j, p, order)))
    BY <1>2, <1>3, <2>3 DEF SameTable, SameCards
  <2>5. SameCards(HandleDraw(si, p, order, SeenBy(i, p, order)),
                  HandleDraw(sj, p, order, SeenBy(j, p, order)))
    BY <1>3, <2>3 DEF SameCards
  <2>6. QED
    BY <1>5, <1>6, <1>7, <2>4, <2>5
<1>8. CASE ~draws
  BY <1>2, <1>3, <1>5, <1>6, <1>8
<1>9. QED
  BY <1>7, <1>8

\* Dealing one card to one copy keeps the invariant.
LEMMA DealCardStep == IInv /\ DealCard => IInv'
<1> SUFFICES ASSUME IInv, DealCard PROVE IInv'
  OBVIOUS
<1>1. PICK i \in Players, p \in Players :
        /\ p * HandSize <= games[i].cardOrder + 1
        /\ games[i].cardOrder + 1 < (p + 1) * HandSize
        /\ games' = [games EXCEPT ![i] =
                       HandleDraw(games[i], p, games[i].cardOrder + 1,
                                  SeenBy(i, p, games[i].cardOrder + 1))]
  BY DEF DealCard
<1> DEFINE st  == games[i]
           o   == st.cardOrder + 1
           new == HandleDraw(st, p, o, SeenBy(i, p, o))
<1>2. pc = "deal" /\ UNCHANGED <<shuffled, currentPlayerIndex, turn, performAction, recorded, pc>>
  BY DEF DealCard
<1>3. /\ st \in State /\ shuffled \in [Orders -> Ids] /\ games \in [Players -> State]
      /\ Held(st) /\ Hidden(i, st)
  BY DEF IInv, TypeOK, HandsOK, OwnHandHidden, Hidden
<1>4. o < NumPlayers * HandSize /\ o \in Orders /\ st.cardOrder \in Int
  <2>1. (p + 1) * HandSize <= NumPlayers * HandSize
    BY Blocks
  <2>2. st.cardOrder \in Int
    BY <1>3, TableFacts DEF State, Orders
  <2>3. p \in Nat /\ (p + 1) * HandSize \in Nat /\ NumPlayers * HandSize \in Nat
    BY TableFacts DEF Players
  <2>4. o < NumPlayers * HandSize /\ o < DeckSize
    BY <1>1, <2>1, <2>2, <2>3, TableFacts
  <2>5. QED
    BY <1>3, <2>2, <2>4, NextOrder
<1>5. SeenBy(i, p, o) \in Ids \cup {NoId}
  BY <1>3, <1>4 DEF SeenBy
<1>6. /\ new \in State
      /\ new.hands = With(st.hands, p, o)
      /\ new.cardOrder = o
      /\ new.cardsLeft = st.cardsLeft - 1
      /\ SameTable(new, st)
  <2>1. st.cardsLeft = DeckSize - 1 - st.cardOrder
    BY DEF IInv, Counted
  <2>2. NumPlayers * HandSize \in Nat
    BY TableFacts
  <2>3. st.cardsLeft # 1
    BY <1>4, <2>1, <2>2, TableFacts
  <2>4. QED
    BY <1>3, <1>4, <1>5, <2>3, DrawFields DEF SameTable
<1>7. Held(new) /\ Hidden(i, new)
  BY <1>3, <1>4, DrawCopy
<1>8. games' = [games EXCEPT ![i] = new]
  BY <1>1
<1>9. \A j \in Players : games'[j] = IF j = i THEN new ELSE games[j]
  BY <1>3, <1>8
<1> HIDE DEF st, new
<1>10. TypeOK'
  BY <1>2, <1>3, <1>6, <1>8 DEF IInv, TypeOK
<1>11. CopiesAgree' /\ Counted'
  <2>1. \A j \in Players : SameTable(games'[j], games[j])
    BY <1>6, <1>9 DEF st, SameTable
  <2>2. CopiesAgree'
    BY <1>2, <2>1, TableFacts DEF IInv, CopiesAgree, SameTable
  <2>3. \A j \in Players : games[j].cardsLeft = DeckSize - 1 - games[j].cardOrder
    BY DEF IInv, Counted
  <2>4. new.cardsLeft = DeckSize - 1 - new.cardOrder
    BY <1>4, <1>6, <2>3, TableFacts DEF st
  <2>5. Counted'
    BY <1>9, <2>3, <2>4 DEF Counted
  <2>6. QED
    BY <2>2, <2>5
<1>12. HandsOK'
  BY <1>7, <1>9 DEF IInv, HandsOK, Held
<1>13. Dealing'
  <2> SUFFICES ASSUME NEW j \in Players
               PROVE  /\ games'[j].cardOrder < NumPlayers * HandSize
                      /\ \A q \in Players :
                           games'[j].hands[q] = {x \in Start(q) : x <= games'[j].cardOrder}
    BY <1>2 DEF Dealing
  <2>1. CASE j # i
    BY <1>2, <1>9, <2>1 DEF IInv, Dealing
  <2>2. CASE j = i
    <3>1. games'[j] = new
      BY <1>9, <2>2
    <3>2. o \in Start(p)
      BY <1>1, <1>4 DEF Start, st
    <3>3. ASSUME NEW q \in Players
          PROVE  new.hands[q] = {x \in Start(q) : x <= new.cardOrder}
      <4>1. st.hands[q] = {x \in Start(q) : x <= st.cardOrder}
        BY <1>2 DEF IInv, Dealing, st
      <4>2. new.hands[q] = IF q = p THEN st.hands[q] \cup {o} ELSE st.hands[q]
        BY <1>3, <1>6 DEF With, State
      <4>3. \A x \in Start(q) : x <= o <=> (x <= st.cardOrder \/ x = o)
        BY <1>4 DEF Start, Orders
      <4>4. q # p => o \notin Start(q)
        <5>1. \A r \in Players \ {p} : Start(p) \cap Start(r) = {}
          BY Blocks
        <5>2. QED
          BY <3>2, <5>1
      <4>5. QED
        BY <1>6, <3>2, <4>1, <4>2, <4>3, <4>4
    <3>4. QED
      BY <1>4, <1>6, <3>1, <3>3
  <2>3. QED
    BY <2>1, <2>2
<1>14. PerformOK'
  BY <1>2 DEF PerformOK
<1>15. OwnHandHidden'
  <2>1. ASSUME NEW j \in Players
        PROVE  Hidden(j, games[j]) /\ (j = i => Hidden(j, new))
    BY <1>7 DEF IInv, OwnHandHidden, Hidden
  <2>2. QED
    BY <1>2, <1>9, <2>1 DEF OwnHandHidden, Hidden
<1>16. QED
  BY <1>10, <1>11, <1>12, <1>13, <1>14, <1>15 DEF IInv

\* Copies that were all dealt to hold the same cards when the loop begins.
LEMMA StartLoopStep == IInv /\ StartLoop => IInv'
<1> SUFFICES ASSUME IInv, StartLoop PROVE IInv'
  OBVIOUS
<1>1. /\ pc = "deal" /\ pc' = "loop"
      /\ \A i \in Players : games[i].cardOrder + 1 = NumPlayers * HandSize
      /\ UNCHANGED <<shuffled, games, currentPlayerIndex, turn, performAction, recorded>>
  BY DEF StartLoop, Dealt
<1>2. \A i \in Players : games[i] \in State /\ games[i].cardOrder \in Int
  <2>1. \A i \in Players : games[i] \in State
    BY DEF IInv, TypeOK
  <2>2. QED
    BY <2>1, TableFacts DEF State, Orders
<1>3. ASSUME NEW i \in Players
      PROVE  games[i].cardOrder = games[0].cardOrder /\ games[i].hands = games[0].hands
  <2>1. games[i].cardOrder = games[0].cardOrder
    BY <1>1, <1>2, TableFacts
  <2>2. \A p \in Players : games[i].hands[p] = games[0].hands[p]
    <3>1. \A j, p \in Players :
            games[j].hands[p] = {o \in Start(p) : o <= games[j].cardOrder}
      BY <1>1 DEF IInv, Dealing
    <3>2. QED
      BY <2>1, <3>1, TableFacts
  <2>3. /\ games[i].hands \in [Players -> SUBSET Orders]
        /\ games[0].hands \in [Players -> SUBSET Orders]
    BY <1>2, TableFacts DEF State
  <2>4. QED
    BY <2>1, <2>2, <2>3
<1>4. TypeOK'
  BY <1>1 DEF IInv, TypeOK
<1>5. CopiesAgree' /\ Counted'
  <2>1. \A i \in Players : games[i].cardsLeft = games[0].cardsLeft
    BY <1>3, TableFacts DEF IInv, Counted
  <2>2. QED
    BY <1>1, <1>3, <2>1 DEF IInv, CopiesAgree, SameTable, SameCards, Counted
<1>6. HandsOK' /\ Dealing' /\ PerformOK'
  BY <1>1 DEF IInv, HandsOK, Held, Dealing, PerformOK
<1>7. OwnHandHidden'
  BY <1>1 DEF IInv, OwnHandHidden
<1>8. QED
  BY <1>4, <1>5, <1>6, <1>7 DEF IInv

\* Telling the copies whose turn it is keeps the invariant.
LEMMA NextTurnStep == IInv /\ NextTurn => IInv'
<1> SUFFICES ASSUME IInv, NextTurn PROVE IInv'
  OBVIOUS
<1>1. /\ pc = "loop" /\ pc' = "act"
      /\ games' = IF turn = 0 THEN games
                  ELSE [i \in Players |-> HandleTurn(games[i], turn, currentPlayerIndex)]
      /\ UNCHANGED <<shuffled, currentPlayerIndex, turn, performAction, recorded>>
  BY DEF NextTurn
<1>2. /\ games \in [Players -> State] /\ turn \in Nat /\ currentPlayerIndex \in Players
  BY DEF IInv, TypeOK
<1>3. \A i \in Players :
        /\ games'[i] \in State
        /\ games'[i].hands = games[i].hands
        /\ games'[i].deck = games[i].deck
        /\ games'[i].deck_ids = games[i].deck_ids
        /\ games'[i].cardOrder = games[i].cardOrder
        /\ games'[i].cardsLeft = games[i].cardsLeft
        /\ SameTable(games'[i], games[i])
  <2>1. CASE turn = 0
    BY <1>1, <1>2, <2>1 DEF SameTable
  <2>2. CASE turn # 0
    <3>1. \A i \in Players : games'[i] = HandleTurn(games[i], turn, currentPlayerIndex)
      BY <1>1, <2>2
    <3>2. QED
      BY <1>2, <3>1, TurnFields
  <2>3. QED
    BY <2>1, <2>2
<1>4. games' \in [Players -> State]
  <2>1. CASE turn = 0
    BY <1>1, <1>2, <2>1
  <2>2. CASE turn # 0
    BY <1>1, <1>3, <2>2
  <2>3. QED
    BY <2>1, <2>2
<1>5. TypeOK'
  BY <1>1, <1>4 DEF IInv, TypeOK
<1>6. CopiesAgree' /\ Counted'
  <2>1. CopiesAgree'
    BY <1>1, <1>3, TableFacts DEF IInv, CopiesAgree, SameTable, SameCards
  <2>2. QED
    BY <1>3, <2>1 DEF IInv, Counted
<1>7. HandsOK' /\ Dealing' /\ PerformOK'
  BY <1>1, <1>3 DEF IInv, HandsOK, Held, Dealing, PerformOK
<1>8. OwnHandHidden'
  BY <1>1, <1>3 DEF IInv, OwnHandHidden
<1>9. QED
  BY <1>5, <1>6, <1>7, <1>8 DEF IInv

\* Whatever legal move is decided, the invariant is kept.
LEMMA TakeActionStep == IInv /\ TakeAction => IInv'
<1> SUFFICES ASSUME IInv, TakeAction PROVE IInv'
  OBVIOUS
<1> DEFINE st == games[currentPlayerIndex]
<1>1. /\ pc = "act" /\ pc' = "apply"
      /\ UNCHANGED <<shuffled, games, currentPlayerIndex, turn, recorded>>
  BY DEF TakeAction
<1>2. /\ currentPlayerIndex \in Players /\ st \in State
      /\ st.hands = games[0].hands /\ st.clue_tokens = games[0].clue_tokens
  BY <1>1 DEF IInv, TypeOK, CopiesAgree, SameTable, SameCards
<1>3. st.hands[currentPlayerIndex] \subseteq Orders
  BY <1>2 DEF State
<1>4. /\ performAction' \in PerformActions
      /\ performAction'.type = "CLUE" => games[0].clue_tokens > 0
      /\ performAction'.type # "CLUE" => performAction'.target \in games[0].hands[currentPlayerIndex]
  <2>1. CASE \E o \in st.hands[currentPlayerIndex], t \in {"PLAY", "DISCARD"} :
               performAction' = [type |-> t, target |-> o]
    BY <1>2, <1>3, <2>1 DEF PerformActions
  <2>2. CASE /\ st.clue_tokens > 0
             /\ \E p \in Players \ {currentPlayerIndex} :
                  /\ st.hands[p] # {}
                  /\ performAction' = [type |-> "CLUE", target |-> p]
    BY <1>2, <2>2 DEF PerformActions
  <2>3. QED
    BY <2>1, <2>2 DEF TakeAction
<1>5. TypeOK'
  BY <1>1, <1>4 DEF IInv, TypeOK
<1>6. CopiesAgree' /\ Counted' /\ HandsOK' /\ Dealing'
  BY <1>1 DEF IInv, CopiesAgree, SameTable, SameCards, Counted, HandsOK, Held, Dealing
<1>7. PerformOK'
  BY <1>1, <1>4 DEF PerformOK
<1>8. OwnHandHidden'
  BY <1>1 DEF IInv, OwnHandHidden
<1>9. QED
  BY <1>5, <1>6, <1>7, <1>8 DEF IInv

\* Applying the move to every copy keeps the invariant.
LEMMA ApplyActionStep == IInv /\ ApplyAction => IInv'
<1> SUFFICES ASSUME IInv, ApplyAction PROVE IInv'
  OBVIOUS
<1> DEFINE p       == currentPlayerIndex
           perform == performAction
<1>1. /\ pc = "apply" /\ pc' = "loop" /\ shuffled' = shuffled /\ recorded' = recorded
      /\ games' = [i \in Players |-> Advance(i, perform, p)]
      /\ currentPlayerIndex' = NextPlayerIndex(p)
      /\ turn' = turn + 1
      /\ performAction' = NoAction
  BY DEF ApplyAction
<1>2. /\ TypeOK /\ p \in Players /\ perform \in PerformActions
      /\ games \in [Players -> State] /\ turn \in Nat
  BY <1>1 DEF IInv, TypeOK, PerformOK
<1>3. \A i \in Players :
        /\ SameTable(games[i], games[0])
        /\ SameCards(games[i], games[0])
  BY <1>1 DEF IInv, CopiesAgree
<1>4. \A i \in Players :
        /\ perform.type = "CLUE" => games[i].clue_tokens > 0
        /\ perform.type # "CLUE" => perform.target \in games[i].hands[p]
  BY <1>1, <1>3 DEF IInv, PerformOK, SameTable, SameCards
<1>5. \A i \in Players : games'[i] = Advance(i, perform, p)
  BY <1>1
<1>6. \A i \in Players :
        /\ games'[i] \in State /\ Held(games'[i]) /\ Hidden(i, games'[i])
        /\ games'[i].cardsLeft - games[i].cardsLeft = games[i].cardOrder - games'[i].cardOrder
  <2>1. \A i \in Players : Held(games[i]) /\ Hidden(i, games[i])
    BY DEF IInv, HandsOK, OwnHandHidden, Hidden
  <2>2. QED
    BY <1>2, <1>4, <1>5, <2>1, AdvanceCopy
<1>7. TypeOK'
  <2>1. NextPlayerIndex(p) \in Players
    BY <1>2, TableFacts DEF NextPlayerIndex, Players
  <2>2. games' \in [Players -> State]
    BY <1>1, <1>5, <1>6
  <2>3. QED
    BY <1>1, <1>2, <2>1, <2>2 DEF TypeOK
<1>8. CopiesAgree' /\ Counted'
  <2>1. 0 \in Players
    BY TableFacts
  <2>2. \A i \in Players : SameTable(games'[i], games'[0]) /\ SameCards(games'[i], games'[0])
    BY <1>2, <1>3, <1>4, <1>5, <2>1, AdvanceAgree
  <2>3. ASSUME NEW i \in Players
        PROVE  games'[i].cardsLeft = DeckSize - 1 - games'[i].cardOrder
    <3>1. games[i].cardsLeft = DeckSize - 1 - games[i].cardOrder
      BY DEF IInv, Counted
    <3>2. /\ games[i].cardsLeft \in Int /\ games'[i].cardsLeft \in Int
          /\ games[i].cardOrder \in Int /\ games'[i].cardOrder \in Int
      BY <1>2, <1>6, TableFacts DEF State, Orders
    <3>3. QED
      BY <1>6, <3>1, <3>2, TableFacts
  <2>4. QED
    BY <2>2, <2>3 DEF CopiesAgree, Counted
<1>9. HandsOK' /\ Dealing' /\ PerformOK'
  BY <1>1, <1>6 DEF HandsOK, Held, Dealing, PerformOK
<1>10. OwnHandHidden'
  <2>1. ASSUME NEW i \in Players
        PROVE  Hidden(i, games'[i])
    BY <1>6
  <2>2. QED
    BY <1>1, <2>1 DEF OwnHandHidden, Hidden
<1>11. QED
  BY <1>7, <1>8, <1>9, <1>10 DEF IInv

\* Leaving the loop changes neither the copies nor the deck.
LEMMA LeaveStep == IInv /\ (EndGame \/ Throw \/ UNCHANGED vars) => IInv'
<1> SUFFICES ASSUME IInv, EndGame \/ Throw \/ UNCHANGED vars PROVE IInv'
  OBVIOUS
<1>1. /\ UNCHANGED <<shuffled, games, currentPlayerIndex, turn, performAction>>
      /\ recorded' \in {"no", "NORMAL", "STRIKEOUT"}
      /\ pc' = pc \/ (pc # "deal" /\ pc' \in {"done", "caught"})
  BY DEF EndGame, Throw, vars, IInv, TypeOK
<1>2. TypeOK'
  BY <1>1 DEF IInv, TypeOK
<1>3. CopiesAgree' /\ Counted' /\ HandsOK' /\ Dealing' /\ PerformOK'
  BY <1>1 DEF IInv, CopiesAgree, SameTable, SameCards, Counted, HandsOK, Held, Dealing, PerformOK
<1>4. OwnHandHidden'
  BY <1>1 DEF IInv, OwnHandHidden
<1>5. QED
  BY <1>2, <1>3, <1>4 DEF IInv

\* The invariant is inductive.
LEMMA StepIInv == IInv /\ [Next]_vars => IInv'
<1> SUFFICES ASSUME IInv, [Next]_vars PROVE IInv'
  OBVIOUS
<1>1. CASE DealCard
  BY <1>1, DealCardStep
<1>2. CASE StartLoop
  BY <1>2, StartLoopStep
<1>3. CASE NextTurn
  BY <1>3, NextTurnStep
<1>4. CASE TakeAction
  BY <1>4, TakeActionStep
<1>5. CASE ApplyAction
  BY <1>5, ApplyActionStep
<1>6. CASE EndGame \/ Throw \/ Finished \/ UNCHANGED vars
  BY <1>6, LeaveStep DEF Finished
<1>7. QED
  BY <1>1, <1>2, <1>3, <1>4, <1>5, <1>6 DEF Next, Step

-----------------------------------------------------------------------------
(* The theorems *)

\* Every reachable state satisfies the inductive invariant.
THEOREM Invariance == Spec => []IInv
<1>1. Init => IInv
  BY InitIInv
<1>2. IInv /\ [Next]_vars => IInv'
  BY StepIInv
<1>3. QED
  BY <1>1, <1>2, PTL DEF Spec

\* Every copy stays a well-formed State, whatever legal moves the conventions
\* choose and whenever they throw.
THEOREM TypeCorrect == Spec => []TypeOK
<1>1. IInv => TypeOK
  BY DEF IInv
<1>2. QED
  BY <1>1, Invariance, PTL

\* No copy ever knows a card of the hand it plays, and each knows every other
\* card that has left the deck (onDraw, onPlay and onDiscard keep deck and
\* deck_ids in step with the hands).
THEOREM HandsStayHidden == Spec => []OwnHandHidden
<1>1. IInv => OwnHandHidden
  BY DEF IInv
<1>2. QED
  BY <1>1, Invariance, PTL

\* simulate_game feeds every copy the same actions, so all seats see the same
\* tokens, stacks, deck and hands, and reading the loop condition, the score and
\* the result from seat 0 alone is enough.
THEOREM CopiesStayAligned == Spec => []CopiesAgree
<1>1. IInv => CopiesAgree
  BY DEF IInv
<1>2. QED
  BY <1>1, Invariance, PTL

-----------------------------------------------------------------------------
(* Cards that have left the hands *)

\* The cards of identity id that have been drawn and are in no hand of st.
GoneCards(st, id) == {o \in Orders : /\ o <= st.cardOrder
                                     /\ shuffled[o] = id
                                     /\ \A p \in Players : o \notin st.hands[p]}

\* What CopiesAccounted says of one copy.
Accounted(st) == \A id \in Ids : BaseCount(st, id) = Cardinality(GoneCards(st, id))

-----------------------------------------------------------------------------
(* Sets of cards and stacks *)

\* The cards that have gone are finitely many.
LEMMA GoneFinite ==
  ASSUME NEW st, NEW id
  PROVE  IsFiniteSet(GoneCards(st, id))
<1>1. IsFiniteSet(Orders)
  BY TableFacts, FS_Interval DEF Orders
<1>2. QED
  BY <1>1, FS_Subset DEF GoneCards

\* A card on its stack, or in the discard pile, counts once more for its identity and
\* for no other.
LEMMA CountedOnce ==
  ASSUME NEW st \in State, NEW new \in State, NEW id \in Ids, NEW x \in Ids,
         \/ /\ new.discard_stacks = Gone(st.discard_stacks, id)
            /\ new.play_stacks = st.play_stacks
         \/ /\ new.play_stacks = Stacked(st.play_stacks, id)
            /\ new.discard_stacks = st.discard_stacks
            /\ IsPlayable(st, id)
  PROVE  BaseCount(new, x) = BaseCount(st, x) + (IF x = id THEN 1 ELSE 0)
<1>1. /\ st.play_stacks \in [Suits -> 0 .. MaxRank]
      /\ st.discard_stacks \in [Ids -> Nat]
      /\ MaxRank \in Nat
      /\ id # NoId
      /\ id[1] \in Suits /\ x[1] \in Suits
      /\ id[2] \in Int /\ x[2] \in Int
  BY IdFacts, TableFacts DEF State, Ranks, Ids
<1>2. /\ st.play_stacks[id[1]] \in Int
      /\ st.play_stacks[x[1]] \in Int
      /\ st.discard_stacks[x] \in Int
  BY <1>1
<1>3. x = id <=> x[1] = id[1] /\ x[2] = id[2]
  BY DEF Ids
<1>4. CASE /\ new.discard_stacks = Gone(st.discard_stacks, id)
           /\ new.play_stacks = st.play_stacks
  <2>1. new.discard_stacks[x] = st.discard_stacks[x] + (IF x = id THEN 1 ELSE 0)
    BY <1>1, <1>2, <1>4 DEF Gone
  <2>2. QED
    BY <1>2, <1>4, <2>1 DEF BaseCount
<1>5. CASE /\ new.play_stacks = Stacked(st.play_stacks, id)
           /\ new.discard_stacks = st.discard_stacks
           /\ IsPlayable(st, id)
  <2>1. new.play_stacks[x[1]] = IF x[1] = id[1] THEN id[2] ELSE st.play_stacks[x[1]]
    BY <1>1, <1>5 DEF Stacked
  <2>2. id[2] = st.play_stacks[id[1]] + 1
    BY <1>5 DEF IsPlayable
  <2>3. CASE x[1] = id[1]
    BY <1>1, <1>2, <1>3, <1>5, <2>1, <2>2, <2>3 DEF BaseCount
  <2>4. CASE x[1] # id[1]
    BY <1>1, <1>2, <1>3, <1>5, <2>1, <2>4 DEF BaseCount
  <2>5. QED
    BY <2>3, <2>4
<1>6. QED
  BY <1>4, <1>5

-----------------------------------------------------------------------------
(* One copy *)

\* A copy whose hands, order and stacks stay as they are stays accounted for.
LEMMA SameAccount ==
  ASSUME NEW st, NEW new, Accounted(st),
         new.hands = st.hands, new.cardOrder = st.cardOrder,
         new.play_stacks = st.play_stacks, new.discard_stacks = st.discard_stacks
  PROVE  Accounted(new)
BY DEF Accounted, BaseCount, GoneCards

\* A card that is drawn goes to a hand: no other card goes or comes back.
LEMMA DrawAccount ==
  ASSUME NEW st \in State, NEW p \in Players, NEW o \in Orders, NEW id \in Ids \cup {NoId},
         o = st.cardOrder + 1, Accounted(st)
  PROVE  Accounted(HandleDraw(st, p, o, id))
<1> DEFINE new == HandleDraw(st, p, o, id)
<1>1. /\ new.hands = With(st.hands, p, o)
      /\ new.cardOrder = o
      /\ new.play_stacks = st.play_stacks
      /\ new.discard_stacks = st.discard_stacks
  BY DrawFields
<1>2. st.hands \in [Players -> SUBSET Orders] /\ st.cardOrder \in Int
  BY TableFacts DEF State, Orders
<1>3. \A q \in Players : new.hands[q] = IF q = p THEN st.hands[q] \cup {o} ELSE st.hands[q]
  BY <1>1, <1>2 DEF With
<1>4. ASSUME NEW x \in Ids
      PROVE  GoneCards(new, x) = GoneCards(st, x)
  <2>1. \A c \in Orders : c <= new.cardOrder <=> c <= st.cardOrder \/ c = o
    BY <1>1, <1>2, TableFacts DEF Orders
  <2>2. ~(o <= st.cardOrder)
    BY <1>2
  <2>3. \A c \in Orders : /\ c # o => (\A q \in Players : c \notin new.hands[q]
                                          <=> c \notin st.hands[q])
                          /\ c = o => c \in new.hands[p]
    BY <1>3
  <2>4. QED
    BY <2>1, <2>2, <2>3 DEF GoneCards
<1>5. QED
  BY <1>1, <1>4 DEF Accounted, BaseCount

\* A card that is played or discarded leaves the one hand it was in and counts from now on.
LEMMA ActedAccount ==
  ASSUME NEW st \in State, NEW p \in Players, NEW perform \in PerformActions,
         shuffled \in [Orders -> Ids],
         perform.type = "CLUE" => st.clue_tokens > 0,
         perform.type # "CLUE" => perform.target \in st.hands[p],
         Held(st), Accounted(st)
  PROVE  Accounted(Acted(st, perform, p))
<1> DEFINE o     == perform.target
           id    == shuffled[o]
           acted == Acted(st, perform, p)
<1>1. CASE perform.type = "CLUE"
  <2>1. /\ acted.hands = st.hands /\ acted.cardOrder = st.cardOrder
        /\ acted.play_stacks = st.play_stacks /\ acted.discard_stacks = st.discard_stacks
    BY <1>1, ActedFields
  <2>2. QED
    BY <2>1, SameAccount
<1>2. CASE perform.type # "CLUE"
  <2>1. /\ acted \in State
        /\ o \in Orders /\ id \in Ids
        /\ acted.hands = Without(st.hands, p, o)
        /\ acted.cardOrder = st.cardOrder
        /\ \/ /\ acted.discard_stacks = Gone(st.discard_stacks, id)
              /\ acted.play_stacks = st.play_stacks
           \/ /\ acted.play_stacks = Stacked(st.play_stacks, id)
              /\ acted.discard_stacks = st.discard_stacks
              /\ IsPlayable(st, id)
    BY <1>2, ActedFields
  <2>2. st.hands \in [Players -> SUBSET Orders]
    BY DEF State
  <2>3. \A q \in Players : acted.hands[q] = IF q = p THEN st.hands[q] \ {o} ELSE st.hands[q]
    BY <2>1, <2>2 DEF Without
  <2>4. /\ o \in st.hands[p]
        /\ o <= st.cardOrder
        /\ \A q \in Players : o \notin acted.hands[q]
        /\ \A q \in Players, c \in Orders : c # o => (c \in acted.hands[q] <=> c \in st.hands[q])
    BY <1>2, <2>3 DEF Held
  <2>5. ASSUME NEW x \in Ids
        PROVE  BaseCount(acted, x) = Cardinality(GoneCards(acted, x))
    <3>1. BaseCount(acted, x) = BaseCount(st, x) + (IF x = id THEN 1 ELSE 0)
      BY <2>1, CountedOnce
    <3>2. BaseCount(st, x) = Cardinality(GoneCards(st, x))
      BY DEF Accounted
    <3>3. CASE x = id
      <4>1. o \notin GoneCards(st, x)
        BY <2>4 DEF GoneCards
      <4>2. GoneCards(acted, x) = GoneCards(st, x) \cup {o}
        BY <2>1, <2>4, <3>3 DEF GoneCards
      <4>3. Cardinality(GoneCards(acted, x)) = Cardinality(GoneCards(st, x)) + 1
        BY <4>1, <4>2, GoneFinite, FS_AddElement
      <4>4. QED
        BY <3>1, <3>2, <3>3, <4>3
    <3>4. CASE x # id
      <4>1. GoneCards(acted, x) = GoneCards(st, x)
        BY <2>1, <2>4, <3>4 DEF GoneCards
      <4>2. BaseCount(st, x) \in Int
        <5>1. st.discard_stacks[x] \in Int
          BY DEF State
        <5>2. QED
          BY <5>1 DEF BaseCount
      <4>3. QED
        BY <3>1, <3>2, <3>4, <4>1, <4>2
    <3>5. QED
      BY <3>3, <3>4
  <2>6. QED
    BY <2>5 DEF Accounted
<1>3. QED
  BY <1>1, <1>2

\* A turn keeps a copy accounted for, also if a card is drawn.
LEMMA AdvanceAccount ==
  ASSUME TypeOK, NEW i \in Players, NEW p \in Players, NEW perform \in PerformActions,
         perform.type = "CLUE" => games[i].clue_tokens > 0,
         perform.type # "CLUE" => perform.target \in games[i].hands[p],
         Held(games[i]), Accounted(games[i])
  PROVE  Accounted(Advance(i, perform, p))
<1> DEFINE st    == games[i]
           acted == Acted(st, perform, p)
           order == st.cardOrder + 1
           draws == /\ ~(acted.strikes = MaxStrikes \/ Perfect(acted))
                    /\ perform.type # "CLUE"
                    /\ order < DeckSize
<1>1. st \in State /\ shuffled \in [Orders -> Ids]
  BY DEF TypeOK
<1>2. acted \in State /\ acted.cardOrder = st.cardOrder /\ Accounted(acted)
  BY <1>1, ActedFields, ActedAccount
<1>3. Advance(i, perform, p) = IF draws THEN HandleDraw(acted, p, order, SeenBy(i, p, order))
                                       ELSE acted
  BY DEF Advance, Acted
<1>4. CASE draws
  <2>1. order \in Orders
    BY <1>1, <1>4, NextOrder
  <2>2. SeenBy(i, p, order) \in Ids \cup {NoId}
    BY <1>1, <2>1 DEF SeenBy
  <2>3. QED
    BY <1>2, <1>3, <1>4, <2>1, <2>2, DrawAccount
<1>5. CASE ~draws
  BY <1>2, <1>3, <1>5
<1>6. QED
  BY <1>4, <1>5

-----------------------------------------------------------------------------
(* All copies *)

AllAccounted == \A i \in Players : Accounted(games[i])

\* In a blank State nothing has gone, and nothing is counted.
LEMMA InitAccount == Init => AllAccounted
<1> SUFFICES ASSUME Init, NEW i \in Players, NEW id \in Ids
             PROVE  BaseCount(games[i], id) = Cardinality(GoneCards(games[i], id))
  BY DEF AllAccounted, Accounted
<1>1. games[i] = InitialState
  BY DEF Init
<1>2. id[1] \in Suits /\ id[2] \in Ranks
  BY IdFacts
<1>3. BaseCount(games[i], id) = 0
  BY <1>1, <1>2 DEF BaseCount, InitialState, Ranks
<1>4. GoneCards(games[i], id) = {}
  BY <1>1, TableFacts DEF GoneCards, InitialState, Orders
<1>5. QED
  BY <1>3, <1>4, FS_EmptySet

\* No step of the driver leaves a card unaccounted for.
LEMMA StepAccount == IInv /\ AllAccounted /\ [Next]_vars => AllAccounted'
<1> SUFFICES ASSUME IInv, AllAccounted, [Next]_vars, NEW i \in Players
             PROVE  Accounted(games[i])'
  BY DEF AllAccounted
<1>1. /\ TypeOK /\ games \in [Players -> State] /\ shuffled \in [Orders -> Ids]
      /\ Accounted(games[i]) /\ Held(games[i])
  BY DEF IInv, TypeOK, AllAccounted, HandsOK
<1>2. ASSUME shuffled' = shuffled, NEW st, games'[i] = st, Accounted(st)
      PROVE  Accounted(games[i])'
  BY <1>2 DEF Accounted, GoneCards, BaseCount
<1>3. CASE DealCard
  <2>1. PICK j \in Players, p \in Players :
          /\ p * HandSize <= games[j].cardOrder + 1
          /\ games[j].cardOrder + 1 < (p + 1) * HandSize
          /\ games' = [games EXCEPT ![j] =
                         HandleDraw(games[j], p, games[j].cardOrder + 1,
                                    SeenBy(j, p, games[j].cardOrder + 1))]
    BY <1>3 DEF DealCard
  <2>2. shuffled' = shuffled
    BY <1>3 DEF DealCard
  <2>3. CASE i = j
    <3>1. games[j].cardOrder + 1 \in Orders
      <4>1. pc = "deal" /\ games[j].cardOrder \in Int
        <5>1. games[j].cardOrder \in Orders \cup {-1}
          BY <1>1 DEF State
        <5>2. QED
          BY <1>3, <5>1 DEF DealCard, Orders
      <4>2. games[j].cardOrder + 1 < DeckSize
        <5>1. games[j].cardOrder < NumPlayers * HandSize
          BY <4>1 DEF IInv, Dealing
        <5>2. NumPlayers * HandSize \in Int
          BY TableFacts
        <5>3. games[j].cardOrder + 1 <= NumPlayers * HandSize
          BY <4>1, <5>1, <5>2
        <5>4. QED
          BY <4>1, <5>2, <5>3, TableFacts
      <4>3. QED
        BY <1>1, <4>2, NextOrder
    <3>2. SeenBy(j, p, games[j].cardOrder + 1) \in Ids \cup {NoId}
      BY <1>1, <3>1 DEF SeenBy
    <3>3. Accounted(HandleDraw(games[j], p, games[j].cardOrder + 1,
                               SeenBy(j, p, games[j].cardOrder + 1)))
      BY <1>1, <2>3, <3>1, <3>2, DrawAccount
    <3>4. QED
      BY <1>1, <1>2, <2>1, <2>2, <2>3, <3>3
  <2>4. CASE i # j
    BY <1>1, <1>2, <2>1, <2>2, <2>4
  <2>5. QED
    BY <2>3, <2>4
<1>4. CASE NextTurn
  <2>1. shuffled' = shuffled /\ turn \in Nat /\ currentPlayerIndex \in Players
    BY <1>1, <1>4 DEF NextTurn, TypeOK
  <2>2. games'[i] = games[i] \/ games'[i] = HandleTurn(games[i], turn, currentPlayerIndex)
    BY <1>1, <1>4 DEF NextTurn
  <2>3. Accounted(HandleTurn(games[i], turn, currentPlayerIndex))
    BY <1>1, <2>1, TurnFields, SameAccount DEF SameTable
  <2>4. QED
    BY <1>1, <1>2, <2>1, <2>2, <2>3
<1>5. CASE ApplyAction
  <2>1. /\ shuffled' = shuffled /\ pc = "apply" /\ currentPlayerIndex \in Players
        /\ games'[i] = Advance(i, performAction, currentPlayerIndex)
    BY <1>1, <1>5 DEF ApplyAction, TypeOK
  <2>2. /\ performAction \in PerformActions
        /\ performAction.type = "CLUE" => games[i].clue_tokens > 0
        /\ performAction.type # "CLUE" => performAction.target \in games[i].hands[currentPlayerIndex]
    BY <2>1 DEF IInv, PerformOK, CopiesAgree, SameTable, SameCards
  <2>3. Accounted(Advance(i, performAction, currentPlayerIndex))
    BY <1>1, <2>1, <2>2, AdvanceAccount
  <2>4. QED
    BY <1>2, <2>1, <2>3
<1>6. CASE StartLoop \/ TakeAction \/ EndGame \/ Throw \/ Finished \/ UNCHANGED vars
  <2>1. shuffled' = shuffled /\ games' = games
    BY <1>6 DEF StartLoop, TakeAction, EndGame, Throw, Finished, vars
  <2>2. QED
    BY <1>1, <1>2, <2>1
<1>7. QED
  BY <1>3, <1>4, <1>5, <1>6 DEF Next, Step

-----------------------------------------------------------------------------
(* The theorem *)

\* In every copy, baseCount counts exactly the drawn cards that are in no hand, however
\* the conventions play and misplay (State.baseCount, onPlay, onDiscard).
THEOREM CardsAccounted == Spec => []CopiesAccounted
<1>1. Init => IInv /\ AllAccounted
  BY InitIInv, InitAccount
<1>2. (IInv /\ AllAccounted) /\ [Next]_vars => (IInv /\ AllAccounted)'
  BY StepIInv, StepAccount
<1>3. IInv /\ AllAccounted => CopiesAccounted
  BY DEF AllAccounted, Accounted, GoneCards, CopiesAccounted
<1>4. QED
  BY <1>1, <1>2, <1>3, PTL DEF Spec
=============================================================================
