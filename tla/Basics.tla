-------------------------------- MODULE Basics --------------------------------
(***************************************************************************)
(* The handlers of src/basics.js in full, with team_elimP, checkFix and    *)
(* distribution_clue of src/basics/helper.js and the sarcastic discards of *)
(* src/conventions/shared/sarcastic.js: what every convention builds on.   *)
(*                                                                         *)
(* A game is one program's: state (with ourPlayerIndex), common, players,  *)
(* last_actions, next_ignore, actionList, and what the convention adds.    *)
(* An action is a record with a type, and the fields of the code.  A clue  *)
(* has lock once it was found to lock its target (Playful Sieve).          *)
(***************************************************************************)
EXTENDS Thinks

NoAction == [type |-> "none"]

\* A waiting connection.  A connection is [type, reacting, order, identities].
InWaiting(wc) == {k \in DOMAIN wc.connections : k >= wc.conn_index}

-----------------------------------------------------------------------------
(* team_elimP *)

\* The patches of common knowledge on a view: possible and inferred are cut down
\* to what the player held possible, anything else is copied.
Patched(common, view) ==
  [view EXCEPT
     !.thoughts = [o \in DOMAIN common.patches |->
                     [possible |-> common.thoughts[o].possible \cap view.thoughts[o].possible,
                      inferred |-> common.thoughts[o].inferred \cap view.thoughts[o].possible]
                     @@ common.patches[o] @@ view.thoughts[o]] @@ @,
     !.waiting_connections = common.waiting_connections]

TeamElimP(game) ==
  LET taught(view) ==
        RefreshLinks(GoodTouchElim(CardElim(Patched(game.common, view), game.state),
                                   game.state, NumPlayers = 2), game.state)
  IN  [game EXCEPT !.players        = [p \in Players |-> taught(game.players[p])],
                   !.common.patches = << >>]

-----------------------------------------------------------------------------
(* onClue, onDiscard, onPlay and onDraw *)

\* good_touch_elim and refresh_links of common knowledge
Settled(common, st) == RefreshLinks(GoodTouchElim(common, st, FALSE), st)

FirstTouched(c, giver, turn) ==
  IF c.clued THEN << >>
  ELSE [newly_clued |-> TRUE, clued |-> TRUE, firstTouch |-> [giver |-> giver, turn |-> turn],
        status |-> "CLUED", last_status |-> c.status]

\* Mutant of TouchedCard: what was ruled out before comes back.
MutantTouchedCard(c, a, turn) ==
  [possible |-> ClueIds[a.clue], inferred |-> c.inferred \cap ClueIds[a.clue],
   clues    |-> Append(c.clues, [type |-> a.clue.type, value |-> a.clue.value,
                                 giver |-> a.giver, turn |-> turn]),
   reasoning_turn |-> turn]
  @@ FirstTouched(c, a.giver, turn)

TouchedCard(c, a, turn) ==
  LET ids      == ClueIds[a.clue]
      inferred == c.inferred \cap ids
  IN  [possible       |-> c.possible \cap ids,
       inferred       |-> inferred,
       clues          |-> Append(c.clues, [type |-> a.clue.type, value |-> a.clue.value,
                                           giver |-> a.giver, turn |-> turn]),
       reasoning_turn |-> IF inferred # c.inferred THEN turn ELSE c.reasoning_turn]
      @@ FirstTouched(c, a.giver, turn)

UntouchedCard(c, a) ==
  [possible |-> c.possible \ ClueIds[a.clue], inferred |-> c.inferred \ ClueIds[a.clue]]

\* Mutant of Heard: the cards of all hands are looked at.
MutantHeard(common, st, a) ==
  FoldLeft(LAMBDA v, o : WithThoughts(v, o,
             IF o \in a.list THEN TouchedCard(v.thoughts[o], a, st.turn_count)
             ELSE UntouchedCard(v.thoughts[o], a)),
           common, NewestFirst(Held(st)))

Heard(common, st, a) ==
  FoldLeft(LAMBDA v, o : WithThoughts(v, o,
             IF o \in a.list THEN TouchedCard(v.thoughts[o], a, st.turn_count)
             ELSE UntouchedCard(v.thoughts[o], a)),
           common, NewestFirst(st.hands[a.target]))

GameClue(game, a) ==
  LET st == OnClue(game.state)
  IN  TeamElimP([game EXCEPT
                   !.state  = st,
                   !.common = Settled(CardElim(Heard(game.common, game.state, a), st), st)])

\* Mutant of Revealed: the card becomes another one.
MutantRevealed(common, o, id) == WithThoughts(common, o, NewCard({id}, id))

\* Card o turns out to be id.
Revealed(common, o, id) ==
  LET c == common.thoughts[o]
  IN  WithThoughts(common, o, [id |-> id, old_inferred |-> c.inferred,
                               possible |-> c.possible \cap {id}, inferred |-> c.inferred \cap {id}])

GoneFrom(game, st, a) ==
  TeamElimP([game EXCEPT
               !.state  = st,
               !.common = IF a.id = NoId THEN @
                          ELSE Settled(CardElim(Revealed(@, a.order, a.id), st), st)])

GameDiscard(game, a) ==
  GoneFrom(game, OnDiscard(game.state, a.playerIndex, a.order, a.id, a.failed), a)

GamePlay(game, a) == GoneFrom(game, OnPlay(game.state, a.playerIndex, a.order, a.id), a)

\* onDraw.  Good touch of common knowledge still looks at the state before.
GameDraw(game, a) ==
  LET st    == HandleDraw(game.state, a.playerIndex, a.order, a.id)
      us    == game.state.ourPlayerIndex
      drawn(view, id) ==
        CardElim([view EXCEPT !.thoughts = (a.order :> NewCard(view.all_possible, id)) @@ @], st)
      seen(p) == IF p # a.playerIndex \/ p = us THEN a.id ELSE NoId
  IN  [game EXCEPT
         !.state   = st,
         !.players = [p \in Players |-> RefreshLinks(drawn(game.players[p], seen(p)), st)],
         !.common  = RefreshLinks(GoodTouchElim(drawn(game.common, NoId), game.state, FALSE), st)]

-----------------------------------------------------------------------------
(* checkFix: old are the thoughts of common knowledge before the clue a.   *)

DependentConnections(view, o) ==
  {wc \in ToSet(view.waiting_connections) :
     \E k \in InWaiting(wc) : wc.connections[k].order = o}

\* The cards that lost their last inference.
FixResets(game, old, a) ==
  {o \in game.state.hands[a.target] : old[o].inferred # {} /\ game.common.thoughts[o].inferred = {}}

\* common knowledge once they are reset
FixReset(game, old, a) ==
  RefreshLinks([game.common EXCEPT
                  !.thoughts = [o \in FixResets(game, old, a) |->
                                  ResetInferences(game.common.thoughts[o])] @@ @],
               game.state)

\* The card that a waiting connection depends on and that is now known: the game
\* is replayed with its identity.
FixRewind(game, old, a) ==
  LET common == FixReset(game, old, a)
  IN  Newest({o \in FixResets(game, old, a) :
                /\ ~common.thoughts[o].rewinded
                /\ Cardinality(common.thoughts[o].possible) = 1
                /\ DependentConnections(common, o) # {}})

\* the sequence without the first occurrence of o
WithoutFirst(s, o) ==
  IF o \in ToSet(s) THEN RemoveAt(s, CHOOSE k \in DOMAIN s : s[k] = o /\ \A j \in 1 .. k - 1 : s[j] # o)
  ELSE s

\* What was inferred of the reset cards is given back to the cards it was taken
\* from, but not to the reset cards themselves.
Rechecked(common, old, resets) ==
  LET before  == NewestFirst({o \in resets : InferredIdentity(old[o], FALSE) # NoId})
      id(o)   == InferredIdentity(old[o], FALSE)
      lost(v, o) == [UndoHypoStacks(v, id(o)) EXCEPT
                       !.elims = (id(o) :> WithoutFirst(v.elims[id(o)], o)) @@ v.elims]
      without == FoldLeft(lost, common, before)
  IN  FoldLeft(LAMBDA v, o : RestoreElim(v, id(o)), without, before)

SameClue(c, clue) == {k \in DOMAIN c.clues : c.clues[k].type = clue.type /\ c.clues[k].value = clue.value}

\* The touched cards that are now known to be copies of touched cards.
DuplicateReveal(game, old, a) ==
  {o \in a.list :
     LET c == game.common.thoughts[o]
     IN  /\ Cardinality(c.possible) # Cardinality(old[o].possible)
         /\ Identity(c) # NoId
         /\ Cardinality(SameClue(c, a.clue)) = 1
         /\ \E q \in VisibleFind(game.common, game.state, Identity(c), {a.giver}) \ {o} :
              Touched(game.common.thoughts[q])}

\* checkFix without the rewind: [game, all_resets, duplicate_reveal]
CheckFix(game, old, a) ==
  LET resets == FixResets(game, old, a)
      fixed  == [game EXCEPT !.common = Rechecked(FixReset(game, old, a), old, resets)]
  IN  [game |-> fixed, all_resets |-> resets, duplicate_reveal |-> DuplicateReveal(fixed, old, a)]

-----------------------------------------------------------------------------
(* distribution_clue *)

Pace(st) == Score(st) + st.cardsLeft + NumPlayers - MaxScore(st)

InEndgame(st) == Pace(st) < NumPlayers

DistributionClue(game, a, focus) ==
  LET st     == game.state
      me     == game.players[st.ourPlayerIndex]
      c      == game.common.thoughts[focus]
      poss   == IF a.clue.type = "rank" THEN {id \in c.possible : id[2] = a.clue.value} ELSE c.possible
      useful == {id \in poss : ~IsBasicTrash(st, id)}
  IN  /\ InEndgame(st) \/ MaxScore(st) - Score(st) <= Cardinality(Suits)
      /\ \E o \in a.list : game.common.thoughts[o].newly_clued
      /\ InferredIdentity(c, FALSE) = NoId \/ ~IsBasicTrash(st, InferredIdentity(c, FALSE))
      /\ useful # {}
      /\ \A id \in useful :
           \E o \in Held(st) \ st.hands[a.target] :
             Touched(game.common.thoughts[o]) /\ Identity(me.thoughts[o]) = id

-----------------------------------------------------------------------------
(* Sarcastic discards *)

SarcasticMatch(c, id) ==
  /\ c.clued \/ c.hidden
  /\ id \in c.possible
  /\ ~(Cardinality(c.inferred) = 1 /\ Only(c.inferred)[2] < id[2])
  /\ c.info_lock = NoSet \/ id \in c.info_lock

\* find_sarcastics
FindSarcastics(st, p, view, id) ==
  LET known == {o \in st.hands[p] : InferredIdentity(view.thoughts[o], TRUE) = id}
  IN  IF known # {} THEN known ELSE {o \in st.hands[p] : SarcasticMatch(view.thoughts[o], id)}

\* apply_unknown_sarcastic
SarcasticLink(common, sarcastics, id) ==
  IF sarcastics = {} THEN common
  ELSE [common EXCEPT !.links = Append(@, [orders |-> sarcastics, identities |-> {id},
                                           promised |-> TRUE])]

SarcasticUndone(told, st, sarcastics, id) ==
  IF \/ sarcastics = {}
     \/ \E o \in sarcastics : \E i \in told.thoughts[o].inferred : PlayableAway(st, i) > 0
  THEN UndoHypoStacks(told, id) ELSE told

ApplyUnknownSarcastic(common, st, sarcastics, id) ==
  SarcasticUndone(
    SarcasticLink(
      FoldLeft(LAMBDA v, o : WithThoughts(v, o, [inferred |-> v.thoughts[o].inferred \cup {id},
                                                 trash    |-> FALSE]),
               common, NewestFirst(sarcastics)),
      sarcastics, id),
    st, sarcastics, id)

\* apply_locked_discard
ApplyLockedDiscard(common, st, p) ==
  FoldLeft(LAMBDA v, o :
             IF v.thoughts[o].status # NoStatus THEN v
             ELSE WithThoughts(v, o, [status |-> "CM", last_status |-> NoStatus]),
           common, NewestFirst(st.hands[NextPlayerIndex(p)]))

UnknownSarcastic(game, common, sarcastics, a) ==
  LET linked == ApplyUnknownSarcastic(common, game.state, sarcastics, a.id)
      last   == game.last_actions[NextPlayerIndex(a.playerIndex)]
  IN  IF /\ NumPlayers = 2 /\ ThinksLocked(game.common, game.state, a.playerIndex)
         /\ ~(last.type = "clue" /\ last.lock)
      THEN ApplyLockedDiscard(linked, game.state, a.playerIndex) ELSE linked

\* The players from us on.
FromUs(st) == [i \in 1 .. NumPlayers |-> (st.ourPlayerIndex + i - 1) % NumPlayers]

\* common knowledge after interpret_sarcastic of a discard that another copy of
\* which is somewhere in sight, or unless we discarded it, in our hand
InterpretSarcastic(game, a) ==
  LET st == game.state
      us == st.ourPlayerIndex
      me == game.players[us]
      ours       == FindSarcastics(st, us, me, a.id)
      theirs(p)  == FindSarcastics(st, p, game.common, a.id)
      receives(p) == /\ p # a.playerIndex
                     /\ \E o \in theirs(p) :
                          (IF p = us THEN InferredIdentity(me.thoughts[o], FALSE)
                           ELSE Identity(me.thoughts[o])) = a.id
      receivers  == SelectSeq(FromUs(st), receives)
  IN  IF VisibleFind(me, st, a.id, {}) = {}
      THEN IF a.playerIndex = us THEN game.common
           ELSE IF Cardinality(ours) = 1
           THEN WithThoughts(game.common, Only(ours), [inferred |-> {a.id}, trash |-> FALSE])
           ELSE UnknownSarcastic(game, game.common, ours, a)
      ELSE IF receivers = << >> THEN game.common
      ELSE IF Cardinality(theirs(receivers[1])) = 1
      THEN WithThoughts(game.common, Only(theirs(receivers[1])), [inferred |-> {a.id}])
      ELSE UnknownSarcastic(game, game.common, theirs(receivers[1]), a)
=============================================================================
