------------------------------- MODULE Engine -------------------------------
(***************************************************************************)
(* The public game state of hanabi-bot and the handlers that update it:    *)
(* class State (src/basics/State.js), onClue/onDiscard/onDraw/onPlay       *)
(* (src/basics.js) and the part of handle_action (src/action-handler.js)   *)
(* that touches the State.  Every handler is a function from the old state *)
(* record to the new one, as in the code.                                  *)
(*                                                                         *)
(* The module has no variables: SelfPlay runs the handlers.                *)
(* Convention data (thoughts, links, notes) is left to other modules, and  *)
(* a hand is the set of its card orders: no handler here looks at slots.   *)
(***************************************************************************)
EXTENDS Sums, FiniteSets

CONSTANTS
  NumPlayers,      \* playerNames.length
  Suits,           \* suit indices of the variant
  MaxRank,         \* 5 in the code
  Copies,          \* [Ids -> Nat]: _cardCount, the multiplicity of each identity
  DeckSize,        \* total number of cards
  MaxClues,        \* 8 in the code
  MaxStrikes,      \* 3 in the code
  DefaultHandSize, \* HAND_SIZE[numPlayers]
  HandSizeOption   \* -1 oneLessCard, 1 oneExtraCard, 0 neither

Players == 0 .. NumPlayers - 1
Ranks   == 1 .. MaxRank
Orders  == 0 .. DeckSize - 1
Ids     == Suits \X Ranks
NoId    == <<-1, -1>>                 \* an identity the code writes as -1/-1

\* State.handSize
HandSize == DefaultHandSize + HandSizeOption

ASSUME TableAssumption ==
  /\ NumPlayers \in Nat \ {0, 1}
  /\ IsFiniteSet(Suits)
  /\ MaxRank \in Nat \ {0}
  /\ DeckSize \in Nat \ {0}
  /\ MaxClues \in Nat \ {0}
  /\ MaxStrikes \in Nat \ {0}
  /\ DefaultHandSize \in Nat \ {0}
  /\ HandSizeOption \in {-1, 0, 1}
  /\ HandSize > 0
  /\ NumPlayers * HandSize < DeckSize
  /\ Copies \in [Ids -> Nat \ {0}]

\* The shuffled decks: every identity occurs as often as the variant says.
Decks == {d \in [Orders -> Ids] :
            \A id \in Ids : Cardinality({o \in Orders : d[o] = id}) = Copies[id]}

-----------------------------------------------------------------------------
(* The state record *)

\* deck: the identity this player knows for an order.  drawn_index: the turn
\* it was drawn on (-1 while undrawn).  deck_ids: Game.deck_ids.
State == [turn_count         : Nat,
          clue_tokens        : 0 .. MaxClues,
          strikes            : Nat,
          hands              : [Players -> SUBSET Orders],
          deck               : [Orders -> Ids \cup {NoId}],
          deck_ids           : [Orders -> Ids \cup {NoId}],
          drawn_index        : [Orders -> Nat \cup {-1}],
          play_stacks        : [Suits -> 0 .. MaxRank],
          discard_stacks     : [Ids -> Nat],
          max_ranks          : [Suits -> 0 .. MaxRank],
          cardsLeft          : Int,
          cardOrder          : Orders \cup {-1},
          currentPlayerIndex : Players,
          endgameTurns       : -1 .. NumPlayers]

InitialState ==
  [turn_count         |-> 0,
   clue_tokens        |-> MaxClues,
   strikes            |-> 0,
   hands              |-> [p \in Players |-> {}],
   deck               |-> [o \in Orders |-> NoId],
   deck_ids           |-> [o \in Orders |-> NoId],
   drawn_index        |-> [o \in Orders |-> -1],
   play_stacks        |-> [s \in Suits |-> 0],
   discard_stacks     |-> [id \in Ids |-> 0],
   max_ranks          |-> [s \in Suits |-> MaxRank],
   cardsLeft          |-> DeckSize,
   cardOrder          |-> -1,
   currentPlayerIndex |-> 0,
   endgameTurns       |-> -1]

-----------------------------------------------------------------------------
(* Getters of State *)

Score(st)    == Sum(st.play_stacks)
MaxScore(st) == Sum(st.max_ranks)

PerfectScore == Cardinality(Suits) * MaxRank

NextPlayerIndex(p) == (p + 1) % NumPlayers

\* copies of id on the play stacks or the discard stacks
BaseCount(st, id) ==
  (IF st.play_stacks[id[1]] >= id[2] THEN 1 ELSE 0) + st.discard_stacks[id]

IsBasicTrash(st, id) ==
  id[2] <= st.play_stacks[id[1]] \/ id[2] > st.max_ranks[id[1]]

\* Mutant of IsCritical: a card that can no longer be played counts too.
MutantIsCritical(st, id) == st.discard_stacks[id] = Copies[id] - 1

IsCritical(st, id) ==
  ~IsBasicTrash(st, id) /\ st.discard_stacks[id] = Copies[id] - 1

\* Mutant of IsPlayable: any card above its stack.
MutantIsPlayable(st, id) == id[2] > st.play_stacks[id[1]]

IsPlayable(st, id) == id[2] = st.play_stacks[id[1]] + 1

-----------------------------------------------------------------------------
(* Handlers *)

\* one more of the last turns has been taken
CountDown(turns) == IF turns # -1 THEN turns - 1 ELSE turns

\* Mutant of Regain: the maximum is forgotten.
MutantRegain(tokens) == tokens + 1

\* a clue token comes back, unless they are all there
Regain(tokens) == IF tokens < MaxClues THEN tokens + 1 ELSE tokens

Without(hands, p, o) == [hands EXCEPT ![p] = @ \ {o}]

\* the identity of a card leaving the hand becomes known to everybody
Reveal(f, o, id) == IF id # NoId THEN [f EXCEPT ![o] = id] ELSE f

OnClue(st) ==
  [st EXCEPT !.clue_tokens = @ - 1, !.endgameTurns = CountDown(@)]

\* one more copy of id in the discard pile
Gone(stacks, id) == IF id # NoId THEN [stacks EXCEPT ![id] = @ + 1] ELSE stacks

\* the maximum ranks once gone is discarded, the last card being an id
Lowered(ranks, gone, id) ==
  IF id # NoId /\ gone[id] = Copies[id] /\ id[2] - 1 < ranks[id[1]]
  THEN [ranks EXCEPT ![id[1]] = id[2] - 1]
  ELSE ranks

OnDiscard(st, p, o, id, failed) ==
  [st EXCEPT
     !.hands          = Without(@, p, o),
     !.deck           = Reveal(@, o, id),
     !.deck_ids       = Reveal(@, o, id),
     !.discard_stacks = Gone(@, id),
     !.max_ranks      = Lowered(@, Gone(st.discard_stacks, id), id),
     !.endgameTurns   = CountDown(@),
     !.strikes        = IF failed THEN @ + 1 ELSE @,
     !.clue_tokens    = IF failed THEN @ ELSE Regain(@)]

\* the card goes on its stack, whatever the stack holds
Stacked(stacks, id) == IF id # NoId THEN [stacks EXCEPT ![id[1]] = id[2]] ELSE stacks

OnPlay(st, p, o, id) ==
  [st EXCEPT
     !.hands        = Without(@, p, o),
     !.deck         = Reveal(@, o, id),
     !.deck_ids     = Reveal(@, o, id),
     !.play_stacks  = Stacked(@, id),
     !.endgameTurns = CountDown(@),
     !.clue_tokens  = IF id[2] = MaxRank THEN Regain(@) ELSE @]

\* the deck as the drawer's copy sees it: what it was told, or what deck_ids kept
Seen(deck, ids, o, id) == [deck EXCEPT ![o] = IF ids[o] # NoId THEN ids[o] ELSE id]

\* onDraw asserts before it adds the card that the hand is not too long.
With(hands, p, o) == [hands EXCEPT ![p] = @ \cup {o}]

\* Mutant of OnDraw: a card the drawer cannot see is not taken off cardsLeft.
MutantOnDraw(st, p, o, id) ==
  [st EXCEPT
     !.hands        = With(@, p, o),
     !.deck         = Seen(@, st.deck_ids, o, id),
     !.deck_ids     = Reveal(@, o, id),
     !.drawn_index  = [@ EXCEPT ![o] = st.turn_count],
     !.cardOrder    = o,
     !.cardsLeft    = IF id # NoId THEN @ - 1 ELSE @,
     !.endgameTurns = IF st.cardsLeft = 1 THEN NumPlayers ELSE @]

OnDraw(st, p, o, id) ==
  [st EXCEPT
     !.hands        = With(@, p, o),
     !.deck         = Seen(@, st.deck_ids, o, id),
     !.deck_ids     = Reveal(@, o, id),
     !.drawn_index  = [@ EXCEPT ![o] = st.turn_count],
     !.cardOrder    = o,
     !.cardsLeft    = @ - 1,
     !.endgameTurns = IF st.cardsLeft = 1 THEN NumPlayers ELSE @]

-----------------------------------------------------------------------------
(* handle_action: the cases that touch the State *)

\* 'draw': the first turn begins once every hand has HAND_SIZE[numPlayers] cards
HandleDraw(st, p, o, id) ==
  LET dealt == OnDraw(st, p, o, id)
  IN  IF /\ st.turn_count = 0
         /\ \A q \in Players : Cardinality(dealt.hands[q]) = DefaultHandSize
      THEN [dealt EXCEPT !.turn_count = 1]
      ELSE dealt

HandleTurn(st, num, p) ==
  [st EXCEPT !.currentPlayerIndex = p, !.turn_count = num + 1]

\* The action with which a turn is taken.
HandleTableAction(st, a) ==
  CASE a.type = "clue"    -> OnClue(st)
    [] a.type = "discard" -> OnDiscard(st, a.playerIndex, a.order, a.id, a.failed)
    [] a.type = "play"    -> OnPlay(st, a.playerIndex, a.order, a.id)
=============================================================================
