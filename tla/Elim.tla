-------------------------------- MODULE Elim --------------------------------
(***************************************************************************)
(* card_elim (src/basics/player-elim.js): what a player can rule out about *)
(* the cards in all hands from the copies it can account for.              *)
(*                                                                         *)
(* A view is what class Player keeps for it: the thoughts about every card *)
(* and the identities a card not drawn yet may have.  A set of identities  *)
(* is an IdentitySet, whose array is in order of suit and rank (InOrder).  *)
(* A loop over identities is a function of the passes made; what calls     *)
(* itself, one of how often it may still do so, a bound never reached.     *)
(***************************************************************************)
EXTENDS Cards

View == [playerIndex : Players \cup {Common}, thoughts : [Orders -> Card],
         all_possible : SUBSET Ids, thrown : BOOLEAN]

\* copies of ids that are neither played nor discarded
TotalMultiplicity(st, ids) == Sum([id \in ids |-> Copies[id] - BaseCount(st, id)])

-----------------------------------------------------------------------------
(* The variables of card_elim as one record.  certain maps every identity  *)
(* to the cards known to have it, and open to those among them of which    *)
(* the holder does not know.  The candidates are in the order of the loop  *)
(* that finds them (SlotNumber).                                           *)

Work == [thoughts   : [Orders -> Card],
         certain    : [Ids -> SUBSET Orders],
         open       : [Ids -> SUBSET Orders],
         candidates : SUBSET Orders,
         eliminated : SUBSET Ids,
         thrown     : BOOLEAN]

\* What update_map returns
Accs == [w : Work, changed : BOOLEAN, recursive_ids : Seq(Ids)]

\* Players in turn, and each hand from its newest card on.
SlotNumber(st) == [o \in Held(st) |-> HeldBy(st, o) * DeckSize + (DeckSize - o)]

\* the cards that are id as far as the view can tell
CertainOf(view, st, id) ==
  {o \in Held(st) : id = IF view.playerIndex = Common THEN Symmetric(view.thoughts[o])
                         ELSE Identity(view.thoughts[o])}

CrossElimCandidates(view, st) ==
  {o \in Held(st) : LET c == view.thoughts[o]
                    IN  /\ Cardinality(c.possible) > 1
                        /\ \E id \in c.possible : ~IsBasicTrash(st, id)
                        /\ Cardinality(c.possible) < 5 \/ c.clued}

Start(view, st) ==
  [thoughts   |-> view.thoughts,
   certain    |-> [id \in Ids |-> CertainOf(view, st, id)],
   open       |-> [id \in Ids |-> {o \in CertainOf(view, st, id) : Symmetric(view.thoughts[o]) = NoId}],
   candidates |-> CrossElimCandidates(view, st),
   eliminated |-> {},
   thrown     |-> FALSE]

\* The cards in orders lose id; those that lose their last inference are reset.
Losing(c, id) == [c EXCEPT !.possible = @ \ {id}, !.inferred = @ \ {id}]

Refilled(c) == IF c.inferred = {} /\ ~c.reset THEN ResetInferences(c) ELSE c

Narrowed(thoughts, orders, id) ==
  [o \in Orders |-> IF o \in orders THEN Refilled(Losing(thoughts[o], id)) ELSE thoughts[o]]

\* The narrowed cards with one possibility left, unless they have just been reset.
Found(w, thoughts, orders) ==
  {o \in orders : /\ Cardinality(thoughts[o].possible) = 1
                  /\ thoughts[o].reset = w.thoughts[o].reset}

Sole(thoughts, o) == Only(thoughts[o].possible)

\* They become certain, and everybody knows it.
FoundToBe(thoughts, found, id) == {o \in found : Sole(thoughts, o) = id}

Record(w, thoughts, found) ==
  [w EXCEPT !.thoughts   = thoughts,
            !.certain    = [id \in Ids |-> w.certain[id] \cup FoundToBe(thoughts, found, id)],
            !.open       = [id \in Ids |-> w.open[id] \ FoundToBe(thoughts, found, id)],
            !.candidates = @ \ found]

\* changed and recursive_ids, in the order of the cards
SoleIds(thoughts, list) == [k \in DOMAIN list |-> Sole(thoughts, list[k])]

Recorded(w, st, thoughts, found, changed) ==
  [w |-> Record(w, thoughts, found), changed |-> changed,
   recursive_ids |-> SoleIds(thoughts, Ordered(found, SlotNumber(st)))]

RecordFound(w, st, thoughts, orders) ==
  Recorded(w, st, thoughts, Found(w, thoughts, orders), orders # {})

Subtract(w, st, orders, id) == RecordFound(w, st, Narrowed(w.thoughts, orders, id), orders)

\* The assertion of update_map
Failing(w, orders) == \E o \in orders : w.thoughts[o].possible = {}

Asserted(result, orders) ==
  [result EXCEPT !.w = [@ EXCEPT !.thrown = result.w.thrown \/ Failing(result.w, orders)]]

\* what update_map does to the cards it is about
Taken(w, st, orders, id) == Asserted(Subtract(w, st, orders, id), orders)

\* Mutant of UpdateMap: the cards that account for the copies lose id as well.
MutantUpdateMap(w, st, id, exclude) ==
  Taken(w, st, {o \in UNION {st.hands[p] : p \in Players \ exclude} :
                  id \in w.thoughts[o].possible}, id)

\* the players who hold id unknowingly
Ignorant(w, st, id) == {HeldBy(st, o) : o \in w.open[id]}

\* update_map: id is taken off every card, except those of the players in
\* exclude, those that have it, and those of a player who holds it unknowingly.
UpdateMap(w, st, id, exclude) ==
  Taken(w, st, {o \in UNION {st.hands[p] : p \in Players \ (exclude \cup Ignorant(w, st, id))} :
                  id \in w.thoughts[o].possible /\ o \notin w.certain[id]}, id)

AllKnown(w, st, id) == BaseCount(st, id) + Cardinality(w.certain[id]) = Copies[id]

\* changed and recursive_ids before update_map is called
Unchanged(w) == [w |-> w, changed |-> FALSE, recursive_ids |-> << >>]

\* The loop of basic_elim.  changed and recursive_ids are those of the last
\* identity for which update_map was called.
BasicStep(acc, st, id) ==
  IF ~AllKnown(acc.w, st, id) THEN acc
  ELSE UpdateMap([acc.w EXCEPT !.eliminated = @ \cup {id}], st, id, {})

BasicPass(w, st, ids) ==
  LET pass[k \in 0 .. Len(ids)] ==
        IF k = 0 THEN Unchanged(w) ELSE BasicStep(pass[k - 1], st, ids[k])
  IN  pass[Len(ids)]

\* basic_elim calls itself with what it has found out.  Every pass but the last one
\* finds out a card, which is not found out again.
Recurse(again, first) ==
  LET more[n \in 0 .. DeckSize] ==
        [acc \in Accs |-> IF n = 0 \/ acc.recursive_ids = << >> THEN acc.w
                          ELSE more[n - 1][again[acc]]]
  IN  [w |-> more[DeckSize][first], changed |-> first.changed]

Passing(st) == [acc \in Accs |-> BasicPass(acc.w, st, acc.recursive_ids)]

BasicElim(w, st, ids) == Recurse(Passing(st), BasicPass(w, st, ids))

-----------------------------------------------------------------------------
(* endgame_elim: with the deck empty everybody knows which cards everybody *)
(* holds, though not where.                                                *)

VisibleId(st, w, o) == IF st.deck[o] # NoId THEN st.deck[o] ELSE Identity(w.thoughts[o])

HasIt(st, w, o, id) == st.deck[o] = id \/ Identity(w.thoughts[o]) = id

Having(st, w, p, id) == {o \in st.hands[p] : HasIt(st, w, o, id)}

Holders(w, st, id) ==
  LET total == BaseCount(st, id) + Cardinality(UNION {Having(st, w, p, id) : p \in Players})
  IN  {p \in Players : \/ Having(st, w, p, id) # {}
                       \/ /\ total # Copies[id]
                          /\ \E o \in st.hands[p] : VisibleId(st, w, o) = NoId}

EndgameStep(w, st, id) ==
  LET orders == {o \in UNION {st.hands[p] : p \in Players \ Holders(w, st, id)} :
                   id \in w.thoughts[o].possible /\ ~HasIt(st, w, o, id)}
  IN  Subtract(w, st, orders, id).w

EndgamePass(w, st, ids) ==
  LET pass[k \in 0 .. Len(ids)] == IF k = 0 THEN w ELSE EndgameStep(pass[k - 1], st, ids[k])
  IN  pass[Len(ids)]

EndgameElim(w, st, view, ids) ==
  IF st.cardsLeft > 0 \/ view.playerIndex # Common THEN w ELSE EndgamePass(w, st, ids)

-----------------------------------------------------------------------------
(* perform_elim of cross_elim: entries are as many cards as there are      *)
(* copies of ids left.                                                     *)

\* First, the cards among them that can be seen to be all copies of an identity
\* take it off the cards of the other players.
Group(w, st, entries, id) == {o \in entries : VisibleId(st, w, o) = id}

\* the identities of the groups, in the order of their first cards
GroupOrder(w, st, entries, ids) ==
  Ordered(ids, [id \in ids |-> Min({SlotNumber(st)[o] : o \in Group(w, st, entries, id)})])

Groups(w, st, entries) ==
  GroupOrder(w, st, entries, {VisibleId(st, w, o) : o \in entries} \ {NoId})

Holding(st, entries) == {HeldBy(st, o) : o \in entries}

Share(acc, st, id, group) ==
  IF Cardinality(group) < TotalMultiplicity(st, {id}) - Cardinality(acc.w.certain[id] \ group)
  THEN acc
  ELSE UpdateMap(acc.w, st, id, Holding(st, group))

ShareAll(w, st, entries, ids) ==
  LET pass[k \in 0 .. Len(ids)] ==
        IF k = 0 THEN Unchanged(w)
        ELSE Share(pass[k - 1], st, ids[k], Group(w, st, entries, ids[k]))
  IN  pass[Len(ids)]

SymmetricPairs(w, st, entries) == ShareAll(w, st, entries, Groups(w, st, entries))

\* Then the entries take all of ids off the cards of the players outside.
NakedPairs(shared, st, entries, ids) ==
  LET pass[k \in 0 .. Len(ids)] ==
        IF k = 0 THEN shared ELSE UpdateMap(pass[k - 1].w, st, ids[k], Holding(st, entries))
  IN  pass[Len(ids)]

WithBasicElim(crossed, st, ids) ==
  [BasicElim(crossed.w, st, ids) EXCEPT !.changed = @ \/ crossed.changed]

PerformElim(w, st, entries, ids) ==
  WithBasicElim(NakedPairs(SymmetricPairs(w, st, entries), st, entries, InOrder(ids)), st, InOrder(ids))

-----------------------------------------------------------------------------
(* gen_subset: the subsets of the candidates, up to the first that changes *)
(* a card.  A call has the state of the work and the arguments.            *)

Calls == [w : Work, contained : SUBSET Orders, acc_ids : SUBSET Ids, certains : SUBSET Orders,
          nextIndex : 0 .. DeckSize]

\* copies of acc_ids that are not known to be elsewhere
Copied(st, call) == TotalMultiplicity(st, call.acc_ids) - Cardinality(call.certains)

\* The subset is tried; perform is perform_elim.
Tried(perform, st, call) ==
  IF Cardinality(call.contained) >= 2 /\ Copied(st, call) = Cardinality(call.contained)
  THEN perform[call]
  ELSE [w |-> call.w, changed |-> FALSE]

\* the subsets with the next candidate
Include(st, call, item) ==
  LET possible == call.w.thoughts[item].possible
      known    == UNION {call.w.certain[id] : id \in possible \ call.acc_ids}
  IN  [call EXCEPT !.contained = @ \cup {item},
                   !.acc_ids   = @ \cup possible,
                   !.certains  = (@ \cup known) \ (call.contained \cup {item}),
                   !.nextIndex = @ + 1]

\* the subsets without it
Skip(call, w) == [call EXCEPT !.w = w, !.nextIndex = @ + 1]

NextItem(st, call) == Ordered(call.w.candidates, SlotNumber(st))[call.nextIndex + 1]

\* The calls that a call makes after its subset has been tried; gen is gen_subset.
ElseSkip(gen, call, included) == IF included.changed THEN included ELSE gen[Skip(call, included.w)]

Branch(gen, st, call) == ElseSkip(gen, call, gen[Include(st, call, NextItem(st, call))])

Extend(gen, st, call, tried) ==
  IF tried.changed \/ call.nextIndex >= Cardinality(tried.w.candidates) THEN tried
  ELSE Branch(gen, st, [call EXCEPT !.w = tried.w])

OutOfReach(st, call) ==
  Copied(st, call) > Cardinality(call.contained) + Cardinality(call.w.candidates) - call.nextIndex

\* nextIndex grows with every call.
GenSubset(perform, st, start) ==
  LET gen[n \in 0 .. DeckSize + 1] ==
        [call \in Calls |->
           IF n = 0 \/ OutOfReach(st, call) THEN [w |-> call.w, changed |-> FALSE]
           ELSE Extend(gen[n - 1], st, call, Tried(perform, st, call))]
  IN  gen[DeckSize + 1][start]

\* perform_elim for the subset of a call
Performing(st) == [call \in Calls |-> PerformElim(call.w, st, call.contained, call.acc_ids)]

Whole(w) == [w |-> w, contained |-> {}, acc_ids |-> {}, certains |-> {}, nextIndex |-> 0]

CrossElim(w, st) ==
  IF Cardinality(w.candidates) <= 1 THEN [w |-> w, changed |-> FALSE]
  ELSE GenSubset(Performing(st), st, Whole(w))

-----------------------------------------------------------------------------
(* card_elim *)

\* while (cross_elim() || endgame_elim(...)): endgame_elim never returns true.
Again(loop, crossed, st, view, ids) ==
  IF crossed.changed THEN loop[crossed.w] ELSE EndgameElim(crossed.w, st, view, ids)

Crossing(st) == [w \in Work |-> CrossElim(w, st)]

\* Every round but the last takes a possibility off a card.
Rounds == DeckSize * Cardinality(Ids) + 1

CrossLoop(cross, start, st, view, ids) ==
  LET loop[n \in 0 .. Rounds] ==
        [w \in Work |-> IF n = 0 THEN w ELSE Again(loop[n - 1], cross[w], st, view, ids)]
  IN  loop[Rounds][start]

Eliminated(view, st, ids) ==
  CrossLoop(Crossing(st), BasicElim(EndgameElim(Start(view, st), st, view, ids), st, ids).w,
            st, view, ids)

Learn(view, w) == [view EXCEPT !.thoughts     = w.thoughts,
                               !.all_possible = @ \ w.eliminated,
                               !.thrown       = @ \/ w.thrown]

CardElim(view, st) ==
  Learn(view, Eliminated(view, st, InOrder(UNION {view.thoughts[o].possible : o \in Held(st)})))
=============================================================================
