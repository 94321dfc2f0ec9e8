------------------------------ MODULE GoodTouch ------------------------------
(***************************************************************************)
(* good_touch_elim, find_links, refresh_links and restore_elim             *)
(* (src/basics/player-elim.js): what a player rules out about touched      *)
(* cards on the assumption that no card is touched twice, the links        *)
(* between cards one of which must be a given identity, and giving an      *)
(* identity back that was ruled out wrongly.                               *)
(*                                                                         *)
(* The state has ourPlayerIndex besides the fields of State in Engine.     *)
(* The target of a link, only set by the H-Group conventions, is left out. *)
(***************************************************************************)
EXTENDS Elim

\* state.deck[o].matches(id), and with { assume: true }
DeckMatches(st, o, id)  == id # NoId /\ st.deck[o] = id
DeckMayMatch(st, o, id) == st.deck[o] \in {id, NoId}

\* copies of id that are left for cards other than o
Elsewhere(st, id, o) ==
  BaseCount(st, id) + Cardinality({q \in Held(st) \ {o} : DeckMatches(st, q, id)})

\* withThoughts: common knowledge lists what was assigned, for team_elimP.
WithThoughts(view, o, changes) ==
  [view EXCEPT
     !.thoughts = (o :> (changes @@ view.thoughts[o])) @@ @,
     !.patches  = IF view.playerIndex = Common
                  THEN (o :> (changes @@ (IF o \in DOMAIN @ THEN @[o] ELSE << >>))) @@ @
                  ELSE @]

-----------------------------------------------------------------------------
(* good_touch_elim: its variables are one record, g.                       *)
(*   match, hard   the cards that are an identity, and those it is certain *)
(*                 or focused for (None once it is dropped)                *)
(*   cross         the cards that share a set of inferences, in the order  *)
(*                 of cross_map                                            *)
(*   candidates    elim_candidates                                         *)
(*   updated       the keys of newThoughts                                 *)

None == {-1}

Symmetrically(view, p) == view.playerIndex \in {Common, p}

\* the set of cards that share the inferences ids grows by o
Sharing(cross, ids, o) ==
  IF \E k \in DOMAIN cross : cross[k].ids = ids
  THEN [k \in DOMAIN cross |->
          IF cross[k].ids = ids /\ o \notin ToSet(cross[k].orders)
          THEN [cross[k] EXCEPT !.orders = Append(@, o)] ELSE cross[k]]
  ELSE Append(cross, [ids |-> ids, orders |-> <<o>>])

Matched(g, st, id, o, certainly) ==
  LET match   == g.match[id] \cup {o}
      hard    == IF certainly THEN (g.hard[id] \ None) \cup {o} ELSE g.hard[id]
      crowded == /\ BaseCount(st, id) + Cardinality(match) > Copies[id]
                 /\ \E q \in match : DeckMatches(st, q, id)
  IN  [g EXCEPT !.match = (id :> match) @@ @,
                !.hard  = (id :> IF crowded THEN None ELSE hard) @@ @]

AddToMaps(g, view, st, o, p) ==
  LET c  == g.thoughts[o]
      id == InferredIdentity(c, Symmetrically(view, p))
  IN  IF ~Touched(c) \/ c.uncertain THEN g
      ELSE IF id # NoId THEN Matched(g, st, id, o, Identity(c) = id \/ c.focused)
      ELSE IF Cardinality(c.inferred) < 5 /\ view.playerIndex = Common
      THEN [g EXCEPT !.cross = Sharing(@, c.inferred, o)]
      ELSE g

Candidate(view, st, c) ==
  /\ ~c.trash /\ Symmetric(c) = NoId
  /\ c.inferred # {} /\ ~c.certain_finessed
  /\ \E id \in c.possible : ~IsBasicTrash(st, id)
  /\ Touched(c) \/ c.status = "CM"

WithoutTrash(c, trash_ids) ==
  LET left == c.inferred \ trash_ids
  IN  IF c.status # "CM" /\ left = {} /\ ~c.reset THEN ResetInferences(c)
      ELSE [c EXCEPT !.inferred = left]

\* The first loop, over the cards: s is one of them.
Consider(g, view, st, trash_ids, s) ==
  LET c   == view.thoughts[s.order]
      new == [g EXCEPT
                !.candidates = Append(@, [order |-> s.order, playerIndex |-> s.playerIndex,
                                          cm |-> ~Touched(c) /\ view.playerIndex = Common])]
  IN  IF ~Candidate(view, st, c) THEN g
      ELSE IF c.inferred \cap trash_ids = {} THEN new
      ELSE [new EXCEPT !.thoughts = (s.order :> WithoutTrash(c, trash_ids)) @@ @,
                       !.updated  = @ \cup {s.order}]

Considered(g, view, st, trash_ids, slots) ==
  FoldLeft(LAMBDA v, s : Consider(AddToMaps(v, view, st, s.order, s.playerIndex),
                                  view, st, trash_ids, s),
           g, slots)

\* only_self: the player only looks at the own hand.
GoodTouchStart(view, st, only_self) ==
  LET ids   == UNION {view.thoughts[o].inferred : o \in Held(st)}
      trash == {id \in ids : IsBasicTrash(st, id)}
  IN  Considered([thoughts   |-> view.thoughts,
                  match      |-> [id \in Ids |-> {}],
                  hard       |-> [id \in Ids |-> None],
                  cross      |-> << >>,
                  candidates |-> << >>,
                  updated    |-> {},
                  elims      |-> view.elims,
                  identities |-> ids \ trash],
                 view, st, trash,
                 SelectSeq(Slots(st), LAMBDA s : ~only_self \/ s.playerIndex = view.playerIndex))

-----------------------------------------------------------------------------
(* basic_elim *)

Matches(g, id) == IF g.hard[id] # None THEN g.hard[id] ELSE g.match[id]

\* no match can be the identity
BadElim(st, id, matches) ==
  /\ matches # {}
  /\ \A o \in matches : \/ st.deck[o] \notin {NoId, id}
                        \/ Elsewhere(st, id, o) = Copies[id]

VisibleElim(st, id, matches) ==
  /\ \E o \in matches \cap Held(st) : DeckMayMatch(st, o, id)
  /\ BaseCount(st, id) + Cardinality(matches) >= Copies[id]

\* Every match was touched by the holder of card c, or is in the hand of the
\* player who touched c: they may not know that c is no copy.
AsymmetricGT(g, st, id, matches, cand) ==
  LET c    == g.thoughts[cand.order]
      turn == IF c.firstTouch = NoTouch THEN 0 ELSE c.firstTouch.turn
  IN  /\ ~IsCritical(st, id)
      /\ ~(cand.cm /\ VisibleElim(st, id, matches))
      /\ matches # {}
      /\ \/ \A o \in matches : /\ g.thoughts[o].firstTouch.giver = cand.playerIndex
                               /\ g.thoughts[o].firstTouch.turn > turn
         \/ /\ c.firstTouch # NoTouch
            /\ \A o \in matches : /\ o \in st.hands[c.firstTouch.giver]
                                  /\ Cardinality(Possibilities(g.thoughts[o])) > 1

SelfElim(g, view, st, id, matches, cand) ==
  /\ view.playerIndex # Common /\ matches # {}
  /\ \A o \in matches : /\ o \in st.hands[cand.playerIndex]
                        /\ InferredIdentity(g.thoughts[o], TRUE) # id

RecentlyFinessed(st, c) ==
  BlindPlaying(c) /\ c.finesse_index \in {st.turn_count, st.turn_count - 1}

OursUnfocused(g, st, matches, cand) ==
  /\ BlindPlaying(g.thoughts[cand.order])
  /\ cand.playerIndex = st.ourPlayerIndex
  /\ ~\E o \in matches : g.thoughts[o].focused

\* id is taken off the inferences of card c.
Less(c, id, cm) ==
  LET left == [c EXCEPT !.inferred = @ \ {id}]
  IN  IF ~cm /\ left.inferred = {} /\ ~c.reset THEN ResetInferences(left) ELSE left

\* The array of identities grows by one that is now the only inference.  A card
\* in newThoughts is changed in place, so that old_card shows the change as well
\* and nothing is added.
NewlyFound(g, st, id, cand) ==
  LET left == g.thoughts[cand.order].inferred \ {id}
  IN  IF /\ ~cand.cm /\ cand.order \notin g.updated
         /\ Cardinality(left) = 1 /\ ~IsBasicTrash(st, Only(left))
      THEN <<Only(left)>> ELSE << >>

GTEliminate(b, st, id, cand) ==
  [b EXCEPT
     !.g.thoughts = (cand.order :> Less(b.g.thoughts[cand.order], id, cand.cm)) @@ @,
     !.g.elims    = (id :> Append(b.g.elims[id], cand.order)) @@ @,
     !.g.updated  = @ \cup {cand.order},
     !.curr       = @ \o NewlyFound(b.g, st, id, cand),
     !.new        = @ \ {id},
     !.changed    = TRUE]

\* elim_candidates.splice within the loop over elim_candidates
Spliced(b, k) == [b EXCEPT !.g.candidates = RemoveAt(@, k)]

TryCandidate(b, view, st, id, matches, k) ==
  LET cand == b.g.candidates[k]
      c    == b.g.thoughts[cand.order]
  IN  IF \/ cand.order \in matches \/ id \notin c.inferred
         \/ AsymmetricGT(b.g, st, id, matches, cand)
         \/ SelfElim(b.g, view, st, id, matches, cand)
      THEN b
      ELSE IF RecentlyFinessed(st, c)
      THEN [Spliced(b, k) EXCEPT
              !.g.thoughts = (cand.order :> [c EXCEPT !.certain_finessed = TRUE]) @@ @,
              !.g.updated  = @ \cup {cand.order}]
      ELSE IF OursUnfocused(b.g, st, matches, cand) THEN Spliced(b, k)
      ELSE IF cand.cm /\ ~VisibleElim(st, id, matches) THEN b
      ELSE GTEliminate(b, st, id, cand)

\* A candidate that follows a spliced one is passed over.
RECURSIVE TryFrom(_, _, _, _, _, _)
TryFrom(b, view, st, id, matches, k) ==
  IF k > Len(b.g.candidates) THEN b
  ELSE TryFrom(TryCandidate(b, view, st, id, matches, k), view, st, id, matches, k + 1)

TryIdentity(b, view, st, id) ==
  IF b.g.match[id] = {} \/ BadElim(st, id, Matches(b.g, id)) THEN b
  ELSE TryFrom(b, view, st, id, Matches(b.g, id), 1)

\* The array of identities grows while it is iterated.
RECURSIVE ElimFrom(_, _, _, _)
ElimFrom(b, view, st, i) ==
  IF i > Len(b.curr) THEN b
  ELSE ElimFrom(TryIdentity(b, view, st, b.curr[i]), view, st, i + 1)

GTBasicElim(g, view, st) ==
  LET b == ElimFrom([g |-> g, curr |-> InOrder(g.identities), new |-> g.identities,
                     changed |-> FALSE], view, st, 1)
  IN  [changed |-> b.changed,
       g |-> FoldLeft(LAMBDA v, cand : AddToMaps(v, view, st, cand.order, cand.playerIndex),
                      [b.g EXCEPT !.identities = b.new], b.g.candidates)]

-----------------------------------------------------------------------------
(* cross_elim of good_touch_elim: as many cards as identities share them.  *)

Clue1(c) == IF c.clues = << >> THEN NoTouch
            ELSE [giver |-> c.clues[1].giver, turn |-> c.clues[1].turn]

CrossAsymmetric(g, st, o, q) ==
  LET touch == Clue1(g.thoughts[o])
      other == Clue1(g.thoughts[q])
  IN  /\ ~IsCritical(st, st.deck[q])
      /\ \/ /\ other.giver = HeldBy(st, o)
            /\ other.turn > (IF touch = NoTouch THEN 0 ELSE touch.turn)
         \/ /\ touch.giver = HeldBy(st, q)
            /\ Cardinality(Possibilities(g.thoughts[q])) > 1

\* Card o cannot be what q is, a card of another player that is visible.
CrossPair(x, st, o, q) ==
  IF /\ o # q /\ st.deck[q] # NoId
     /\ ~CrossAsymmetric(x.g, st, o, q)
     /\ HeldBy(st, o) # HeldBy(st, q)
     /\ st.deck[q] \in x.g.thoughts[o].inferred
  THEN [x EXCEPT !.g.thoughts = (o :> [x.g.thoughts[o] EXCEPT !.inferred = @ \ {st.deck[q]}]) @@ @,
                 !.g.updated  = @ \cup {o},
                 !.change     = TRUE]
  ELSE x

CrossEntry(g, st, entry) ==
  IF Len(entry.orders) # Cardinality(entry.ids) THEN [g |-> g, change |-> FALSE]
  ELSE FoldLeft(LAMBDA x, o : FoldLeft(LAMBDA y, q : CrossPair(y, st, o, q), x, entry.orders),
                [g |-> g, change |-> FALSE], entry.orders)

\* The cards of an entry that changed are sorted in again.
Resorted(g, view, st, k, orders) ==
  FoldLeft(LAMBDA v, o : AddToMaps(v, view, st, o, HeldBy(st, o)),
           [g EXCEPT !.cross = RemoveAt(@, k)], orders)

RECURSIVE CrossFrom(_, _, _, _, _)

CrossNext(x, view, st, k, changed) ==
  IF x.change
  THEN CrossFrom(Resorted(x.g, view, st, k, x.g.cross[k].orders), view, st, k, TRUE)
  ELSE CrossFrom(x.g, view, st, k + 1, changed)

CrossFrom(g, view, st, k, changed) ==
  IF k > Len(g.cross) THEN [g |-> g, changed |-> changed]
  ELSE CrossNext(CrossEntry(g, st, g.cross[k]), view, st, k, changed)

GTCrossElim(g, view, st) == CrossFrom(g, view, st, 1, FALSE)

-----------------------------------------------------------------------------
(* good_touch_elim *)

RECURSIVE GTLoop(_, _, _, _)

GTAgain(basic, view, st, cross_changed) ==
  IF basic.changed \/ cross_changed THEN GTLoop(GTCrossElim(basic.g, view, st), basic.changed, view, st)
  ELSE basic.g

GTLoop(cross, basic_changed, view, st) ==
  IF basic_changed \/ cross.changed
  THEN GTAgain(GTBasicElim(cross.g, view, st), view, st, cross.changed)
  ELSE cross.g

GTRound(basic, view, st) == GTLoop(GTCrossElim(basic.g, view, st), basic.changed, view, st)

GTLearn(view, g) == [view EXCEPT !.thoughts = g.thoughts, !.elims = g.elims]

GoodTouchElim(view, st, only_self) ==
  GTLearn(view, GTRound(GTBasicElim(GoodTouchStart(view, st, only_self), view, st), view, st))

-----------------------------------------------------------------------------
(* Links *)

\* One of the orders has the focus: it is the identity, and the others are not.
FocusOne(view, o, focus, id) ==
  LET c    == view.thoughts[o]
      left == IF o = focus THEN c.inferred \cap {id} ELSE c.inferred \ {id}
  IN  [view EXCEPT
         !.thoughts = (o :> IF left = {} /\ ~c.reset THEN ResetInferences(c)
                            ELSE [c EXCEPT !.inferred = left]) @@ @]

Focused(view, orders) == {o \in orders : view.thoughts[o].focused}

FocusLink(view, orders, focused, id) ==
  FoldLeft(LAMBDA v, o : FocusOne(v, o, Only(focused), id), view, NewestFirst(orders))

Linkable(view, st, linked, o) ==
  LET c == view.thoughts[o]
  IN  /\ o \notin linked /\ Identity(c) = NoId
      /\ Cardinality(c.inferred) \in 1 .. 3
      /\ \E id \in c.inferred : ~IsBasicTrash(st, id)

Linked(links) == UNION {link.orders : link \in ToSet(links)}

\* An order of the hand, in the loop of find_links: old is the player before it.
FindLink(acc, old, st, hand, o) ==
  LET ids     == old.thoughts[o].inferred
      orders  == {q \in hand : old.thoughts[q].inferred = ids}
      focused == Focused(old, orders)
  IN  IF ~Linkable(old, st, Linked(old.links) \cup Linked(acc.links), o) \/ Cardinality(orders) = 1
      THEN acc
      ELSE IF Cardinality(focused) = 1 /\ Cardinality(ids) = 1
      THEN [acc EXCEPT !.view = FocusLink(acc.view, orders, focused, Only(ids))]
      ELSE IF Cardinality(orders) >= Cardinality(ids)
      THEN [acc EXCEPT !.links = Append(@, [orders |-> orders, identities |-> ids,
                                            promised |-> FALSE])]
      ELSE acc

Relinked(acc) == [acc.view EXCEPT !.links = @ \o acc.links]

FindHandLinks(view, st, hand) ==
  Relinked(FoldLeft(LAMBDA acc, o : FindLink(acc, view, st, hand, o),
                    [view |-> view, links |-> << >>], NewestFirst(hand)))

FindLinks(view, st) ==
  IF view.playerIndex # Common THEN FindHandLinks(view, st, st.hands[view.playerIndex])
  ELSE FoldLeft(LAMBDA v, p : FindHandLinks(v, st, st.hands[p]), view,
                [i \in 1 .. NumPlayers |-> i - 1])

\* A promised link ends once a card is the identity, or only one can be, or none.
RefreshPromised(acc, old, link) ==
  LET id     == Only(link.identities)
      viable == {o \in link.orders : id \in old.thoughts[o].possible}
  IN  IF (\E o \in link.orders : Identity(old.thoughts[o]) = id) \/ viable = {} THEN acc
      ELSE IF Cardinality(viable) = 1
      THEN LET o == Only(viable)
           IN  [acc EXCEPT !.view.thoughts =
                  (o :> [acc.view.thoughts[o] EXCEPT !.inferred = @ \cap {id}]) @@ @]
      ELSE [acc EXCEPT !.links = Append(@, [link EXCEPT !.orders = viable])]

\* A link of good touch ends once a card is known or can no longer be one of them.
RefreshUnpromised(acc, link) ==
  LET card(o)  == acc.view.thoughts[o]
      focused  == Focused(acc.view, link.orders)
  IN  IF \E o \in link.orders : Identity(card(o)) # NoId \/ ~(link.identities \subseteq card(o).possible)
      THEN acc
      ELSE IF Cardinality(focused) = 1 /\ Cardinality(link.identities) = 1
      THEN [acc EXCEPT !.view = FocusLink(@, link.orders, focused, Only(link.identities))]
      ELSE IF \E o \in link.orders : ~(link.identities \subseteq card(o).inferred) THEN acc
      ELSE [acc EXCEPT !.links = Append(@, link)]

RefreshLink(acc, old, link) ==
  IF link.promised THEN RefreshPromised(acc, old, link) ELSE RefreshUnpromised(acc, link)

Refreshed(acc, st) == FindLinks([acc.view EXCEPT !.links = acc.links], st)

RefreshLinks(view, st) ==
  Refreshed(FoldLeft(LAMBDA acc, link : RefreshLink(acc, view, link),
                     [view |-> view, links |-> << >>], view.links), st)

\* restore_elim.  The filter of its first statement only builds a function for
\* every order, which counts as true: nothing is filtered.
RestoreElim(view, id) ==
  [FoldLeft(LAMBDA v, o :
              IF v.thoughts[o].focused THEN v
              ELSE WithThoughts(v, o, [inferred |-> v.thoughts[o].inferred \cup {id}]),
            view, view.elims[id])
     EXCEPT !.elims = (id :> << >>) @@ @]
=============================================================================
