------------------------------- MODULE Thinks -------------------------------
(***************************************************************************)
(* What a player concludes about hands from its thoughts: the methods of   *)
(* class Player (src/basics/Player.js) and RS_Player                       *)
(* (src/conventions/rs-player.js), and the functions of                    *)
(* src/basics/hanabi-util.js they use.                                     *)
(*                                                                         *)
(* The sieves never look at playables without { assume: true }, so the     *)
(* tests of the H-Group about conflicting connections do not matter here.  *)
(***************************************************************************)
EXTENDS GoodTouch

-----------------------------------------------------------------------------
(* Clues *)

CONSTANTS Clues,         \* every clue there is, [type, value]
          ClueIds,       \* the identities it touches (find_possibilities)
          Convention     \* the convention of the players

ASSUME CluesAssumption ==
  /\ Convention \in {"RefSieve", "PlayfulSieve"}
  /\ \A clue \in Clues : clue.type \in {"colour", "rank"} /\ clue.value \in Nat
  /\ ClueIds \in [Clues -> SUBSET Ids]

CardTouched(id, clue) == id \in ClueIds[[type |-> clue.type, value |-> clue.value]]

\* state.clueTouched
ClueTouched(st, hand, clue) == {o \in hand : st.deck[o] # NoId /\ CardTouched(st.deck[o], clue)}

\* state.allValidClues
AllValidClues(st, target) == {clue \in Clues : ClueTouched(st, st.hands[target], clue) # {}}

-----------------------------------------------------------------------------
(* Locating cards *)

\* visibleFind of an inferring player, in the hands of all players but those in ignore
VisibleFind(view, st, id, ignore) ==
  {o \in Held(st) : /\ HeldBy(st, o) \notin ignore
                    /\ InferredIdentity(view.thoughts[o], HeldBy(st, o) = view.playerIndex) = id}

UnknownIdentities(view, st, id) ==
  Copies[id] - BaseCount(st, id) - Cardinality({o \in Held(st) : Identity(view.thoughts[o]) = id})

\* linkedOrders: the cards of links that cannot all be what they are linked for
LinkedOrders(view, st) ==
  UNION {link.orders : link \in
    {l \in ToSet(view.links) :
       Cardinality(l.orders) > FoldSet(LAMBDA id, n : n + UnknownIdentities(view, st, id), 0, l.identities)}}

\* refer: the card next to o, in a direction, that was not touched before.  The
\* slots of the hand are its orders from the newest on.
RECURSIVE ReferFrom(_, _, _, _)
ReferFrom(view, slots, offset, k) ==
  LET c == view.thoughts[slots[k + 1]]
  IN  IF Touched(c) /\ ~c.newly_clued THEN ReferFrom(view, slots, offset, (k + offset) % Len(slots))
      ELSE slots[k + 1]

Refer(view, hand, o, direction) ==
  LET slots  == NewestFirst(hand)
      offset == IF direction = "right" THEN 1 ELSE Len(slots) - 1
      index  == (CHOOSE k \in DOMAIN slots : slots[k] = o) - 1
  IN  ReferFrom(view, slots, offset, (index + offset) % Len(slots))

-----------------------------------------------------------------------------
(* Playable and useless cards *)

\* A linked card is not played, RS_Player says, and class Player if it may be lost.
UnsafeLinked(view, st, linked, o) ==
  LET c == view.thoughts[o]
  IN  /\ o \in linked
      /\ \/ Convention = "RefSieve" \/ st.strikes = MaxStrikes - 1 \/ st.endgameTurns # -1
         \/ \E id \in c.possible : id[2] > st.play_stacks[id[1]] + 1 /\ id[2] <= st.max_ranks[id[1]]
         \/ c.focused /\ linked # {o}

\* Mutant of PlayableOrders: what can be played once the others have played.
MutantPlayableOrders(view, st, linked, p, symmetric) ==
  {o \in st.hands[p] : /\ ~UnsafeLinked(view, st, linked, o)
                       /\ \A id \in Possibilities(view.thoughts[o]) :
                            id[2] = view.hypo.stacks[id[1]] + 1}

\* thinksPlayables.  For class Player, a chop moved card may be trash as well.
PlayableOrders(view, st, linked, p, symmetric) ==
  {o \in st.hands[p] :
     LET c == view.thoughts[o]
     IN  /\ ~(c.trash /\ \E id \in c.possible : IsBasicTrash(st, id))
         /\ ~UnsafeLinked(view, st, linked, o)
         /\ \E id \in Possibilities(c) : IsPlayable(st, id)
         /\ \A id \in Possibilities(c) :
              \/ IsPlayable(st, id)
              \/ Convention # "RefSieve" /\ c.status = "CM" /\ IsBasicTrash(st, id)
         /\ symmetric \/ HasConsistentInferences(st, o, c)}

ThinksPlayables(view, st, p, symmetric) ==
  PlayableOrders(view, st, LinkedOrders(view, st), p, symmetric)

VisibleElsewhere(view, st, id, o) ==
  /\ ~\E link \in ToSet(view.links) : o \in link.orders
  /\ \E q \in Held(st) \ {o} :
       LET c == view.thoughts[q]
       IN  /\ InferMatches(c, id) /\ DeckMayMatch(st, q, id)
           /\ c.clued \/ (BlindPlaying(c) /\ ~c.uncertain)

\* thinksTrash
ThinksTrash(view, st, p) ==
  {o \in st.hands[p] :
     LET c == view.thoughts[o]
     IN  \/ c.trash
         \/ \A id \in (IF c.uncertain THEN c.possible ELSE Possibilities(c)) :
              IsBasicTrash(st, id) \/ VisibleElsewhere(view, st, id, o)}

ThinksLoaded(view, st, p) ==
  ThinksPlayables(view, st, p, FALSE) # {} \/ ThinksTrash(view, st, p) # {}

ThinksLocked(view, st, p) ==
  (\A o \in st.hands[p] : Saved(view.thoughts[o])) /\ ~ThinksLoaded(view, st, p)

\* isSaved and isTrash, with { infer }
IsSaved(view, st, id, o, infer) ==
  \E q \in Held(st) \ {o} :
    /\ DeckMayMatch(st, q, id)
    /\ IF infer THEN InferMatches(view.thoughts[q], id) ELSE Identity(view.thoughts[q]) = id
    /\ ~\E link \in ToSet(view.links) : id \in link.identities /\ o \in link.orders
    /\ Touched(view.thoughts[q]) \/ view.thoughts[q].status = "CM"

IsTrash(view, st, id, o, infer) == IsBasicTrash(st, id) \/ IsSaved(view, st, id, o, infer)

-----------------------------------------------------------------------------
(* update_hypo_stacks: the stacks once every card that can be played has   *)
(* been (stacks), the cards that will be played (played), those of them    *)
(* whose identity is unknown (unknown), and the identities that are gone   *)
(* (good_touch).  Common knowledge plays no card it could not be, and not  *)
(* the second of two unknown cards that are the same: dupes lists those    *)
(* for every such identity, and ignored are cards left out to try another. *)

DelayedPlayable(h, poss) ==
  LET left == poss \ h.good_touch
  IN  left # {} /\ \A id \in left : h.stacks[id[1]] + 1 = id[2]

\* inferences of waiting connections that will be proven wrong
FakeInferences(view, st, o) ==
  {Masked(wc.inference) : wc \in {w \in ToSet(view.waiting_connections) :
                                     w.focus = o /\ ~DeckMayMatch(st, o, w.inference)}}

HypoPlayable(h, view, st, linked, o) ==
  LET c == view.thoughts[o]
  IN  /\ Saved(c) /\ c.id \notin h.good_touch
      /\ o \notin linked \cup h.played \cup h.ignored
      /\ HasConsistentInferences(st, o, c)
      /\ \/ DelayedPlayable(h, c.possible)
         \/ DelayedPlayable(h, c.inferred \ FakeInferences(view, st, o))
         \/ BlindPlaying(c) /\ c.id # NoId /\ DelayedPlayable(h, {c.id})

\* Common knowledge must not be misled by the card, which is id as far as it knows.
Misleading(view, st, o, id) ==
  /\ view.playerIndex = Common
  /\ \/ id # NoId /\ Elsewhere(st, id, o) = Copies[id]
     \/ st.deck[o] # NoId /\ st.deck[o] \notin view.thoughts[o].inferred

\* the unknown plays that are the same as card o
Existing(h, view, st, o) ==
  IF view.playerIndex # Common \/ st.deck[o] = NoId THEN {}
  ELSE {q \in h.unknown : st.deck[q] = st.deck[o]}

Duplicated(h, id, first, o) ==
  LET k == {i \in DOMAIN h.dupes : h.dupes[i].id = id}
  IN  IF k = {} THEN [h EXCEPT !.dupes = Append(@, [id |-> id, orders |-> <<first, o>>])]
      ELSE [h EXCEPT !.dupes = [i \in DOMAIN @ |->
              IF i \in k THEN [@[i] EXCEPT !.orders = Append(@, o)] ELSE @[i]]]

OnStack(h, id) == [h EXCEPT !.stacks     = (id[1] :> id[2]) @@ @,
                            !.good_touch = @ \cup {id}]

\* The promised links that o completes: their identity is played.
Fulfilled(h, view, o) ==
  FoldLeft(LAMBDA v, link :
             IF /\ link.promised /\ o \in link.orders /\ link.orders \subseteq v.unknown
                /\ Only(link.identities)[2] = v.stacks[Only(link.identities)[1]] + 1
             THEN OnStack(v, Only(link.identities)) ELSE v,
           h, view.links)

HypoPlayed(h, view, st, o, id) ==
  LET same == Existing(h, view, st, o)
  IN  IF Misleading(view, st, o, id) THEN h
      ELSE IF same # {} THEN Duplicated(h, st.deck[o], Only(same), o)
      ELSE IF id = NoId
      THEN Fulfilled([h EXCEPT !.unknown = @ \cup {o}, !.played = @ \cup {o}], view, o)
      ELSE IF id[2] # h.stacks[id[1]] + 1 THEN h
      ELSE OnStack([h EXCEPT !.played = @ \cup {o}], id)

HypoPass(h, view, st, linked) ==
  FoldLeft(LAMBDA v, s :
             IF ~HypoPlayable(v, view, st, linked, s.order) THEN v
             ELSE HypoPlayed(v, view, st, s.order,
                    InferredIdentity(view.thoughts[s.order], view.playerIndex = s.playerIndex)),
           h, Slots(st))

RECURSIVE HypoLoop(_, _, _, _, _)
HypoLoop(h, before, view, st, linked) ==
  IF h.played = before THEN h
  ELSE HypoLoop(HypoPass(h, view, st, linked), h.played, view, st, linked)

HypoStart(st, ignored) ==
  [stacks |-> st.play_stacks, unknown |-> {}, played |-> {}, good_touch |-> {},
   dupes |-> << >>, ignored |-> ignored]

\* before is no set of cards: there is a first pass in any case
HypoFrom(view, st, ignored) ==
  HypoLoop(HypoStart(st, ignored), {NoOrder}, view, st, LinkedOrders(view, st))

HypoScore(h) == Sum(h.stacks) + Cardinality(h.unknown)

\* More and more of the duplicates are left out, as long as that is better.
HypoRetry(h, view, st, orders) ==
  FoldLeft(LAMBDA best, k :
             LET other == HypoFrom(view, st, {orders[i] : i \in 1 .. k})
             IN  IF HypoScore(other) > HypoScore(best) THEN other ELSE best,
           h, [k \in DOMAIN orders |-> k])

HypoBest(h, view, st) ==
  FoldLeft(LAMBDA best, dupe : HypoRetry(best, view, st, dupe.orders), h, h.dupes)

\* hypo_stacks, unknown_plays and hypo_plays of a view
Hypo(view, st) ==
  LET best == HypoBest(HypoFrom(view, st, {}), view, st)
  IN  [stacks |-> best.stacks, unknown |-> best.unknown, played |-> best.played]

UpdateHypoStacks(view, st) == [view EXCEPT !.hypo = Hypo(view, st)]

\* undo_hypo_stacks
UndoHypoStacks(view, id) ==
  [view EXCEPT !.hypo.stacks[id[1]] = IF id[2] - 1 < @ THEN id[2] - 1 ELSE @]

-----------------------------------------------------------------------------
(* Prompts and finesses *)

\* find_prompt: the oldest card that was clued for an identity like id.  The
\* suits are plain.
FindPrompt(view, st, p, id, connected) ==
  Oldest({o \in st.hands[p] \ connected :
            LET c == view.thoughts[o]
            IN  /\ c.clued /\ ~c.newly_clued
                /\ id \in c.possible
                /\ c.info_lock = NoSet \/ id \in c.info_lock
                /\ Cardinality(c.inferred) # 1 \/ id \in c.inferred
                /\ \E k \in DOMAIN c.clues : CardTouched(id, c.clues[k])})

\* find_finesse: the newest card that is not touched
FindFinesse(view, st, p, connected) ==
  Newest({o \in st.hands[p] \ connected : ~Touched(view.thoughts[o])})
=============================================================================
