------------------------------- MODULE Endgame -------------------------------
(***************************************************************************)
(* The endgame solver (src/conventions/shared/endgame.js).  solve_game     *)
(* works out which cards are unseen, gives our unknown cards every         *)
(* identity they may have (the arrangements), searches each arrangement    *)
(* for the actions that win most often, and adds the results up.  It gives *)
(* up with UnsolvedGame, also when the time is over.  Afterwards the       *)
(* position is played on by any legal moves, to compare what the solver's  *)
(* tests claim with what comes of it.                                      *)
(*                                                                         *)
(* find_clues and find_discards are the defaults: no clue, and the first   *)
(* basic trash is discarded.  The caches are left out.                     *)
(***************************************************************************)
EXTENDS Playout, Fraction

CONSTANTS
  Us,           \* the player whose turn it is
  Hints,        \* bound: what the clues told us of a card of ours, see Agrees
  Guesses,      \* bound: what we may infer of a card of ours
  MonteCarlo    \* MONTE_CARLO

VARIABLES
  possible,   \* [our unknown cards -> SUBSET Ids]: thought.possible
  guess,      \* [some of them -> Ids]: identity({ infer: true })
  pc,         \* "solve", "search", "solved", "unsolved", "threw"
  todo,       \* arranged_games: the positions not searched yet, <<[at, prob]>>
  performs,   \* best_performs: <<[act, rate]>>
  late        \* Date.now() > timeout

vars == <<pos, possible, guess, pc, todo, performs, late, lost>>

-----------------------------------------------------------------------------
(* find_remaining_identities *)

IdSeq == [k \in 1 .. Cardinality(Ids) |-> <<(k - 1) \div MaxRank, ((k - 1) % MaxRank) + 1>>]

Ours(p) == Hand(p, Us)

\* the cards whose identity we know: those of the others and some of ours
Identified(p) == {o \in UNION {Hand(p, i) : i \in Players} : o \notin Ours(p) \/ o \in p.known}

Inferring(g, id) == {o \in DOMAIN g : g[o] = id}

SeenOf(p, id) == Cardinality({o \in Identified(p) : Id(p, o) = id})

TooMany(p, g, id) == SeenOf(p, id) + Cardinality(Inferring(g, id)) + Base(p, id) > Copies[id]

\* The inferences we act on.
Believed(p, g) == {o \in DOMAIN g : ~TooMany(p, g, g[o])}

\* remaining_ids: what is in the deck and among our unknown cards
Missing(p, g, id) ==
  Copies[id] - Base(p, id) - SeenOf(p, id) - Cardinality(Inferring(g, id) \cap Believed(p, g))

Remaining(p, g) == [id \in Ids |-> IF Missing(p, g, id) > 0 THEN Missing(p, g, id) ELSE 0]

\* useful identities of which not one copy was seen
WhollyMissing(p, g) ==
  {id \in Ids : Remaining(p, g)[id] = Copies[id] /\ ~Trash(p, id)}

\* unknown_own; the inferences we do not act on come last.
Unknown(p, g) ==
  SelectSeq(p.hands[Us], LAMBDA o : o \notin p.known \cup DOMAIN g) \o
  SelectSeq(p.hands[Us], LAMBDA o : o \in DOMAIN g \ Believed(p, g))

Supposed(unknown, ids) ==
  [o \in {unknown[k] : k \in DOMAIN ids} |-> ids[CHOOSE k \in DOMAIN ids : unknown[k] = o]]

\* The position with our cards as we know, infer or suppose them.
Assigned(p, g, arr) ==
  [p EXCEPT !.deck = Supposed(Unknown(p, g), arr.ids) @@ Restrict(g, Believed(p, g)) @@ p.deck,
            !.rest = arr.rest]

-----------------------------------------------------------------------------
(* arrangements *)

\* Mutant of Expand: what is known of a card does not count.
MutantExpand(arr, known) ==
  LET With(id) == [ids  |-> Append(arr.ids, id),
                   prob |-> Divide(Multiply(arr.prob, <<arr.rest[id], 1>>), <<Sum(arr.rest), 1>>),
                   rest |-> Less(arr.rest, id)]
      Each(ids) == [k \in DOMAIN ids |-> With(ids[k])]
  IN  Each(SelectSeq(IdSeq, LAMBDA id : arr.rest[id] > 0))

\* expand_arr: the next unknown card, of which `known` is possible, is each of the
\* identities that remain.  The other tests of `impossible` rule out nothing: the
\* deck does not know the card, so that it matches; and where the identity is
\* trash and possible, some possible identity is trash.
Expand(arr, known) ==
  LET With(id) == [ids  |-> Append(arr.ids, id),
                   prob |-> Divide(Multiply(arr.prob, <<arr.rest[id], 1>>), <<Sum(arr.rest), 1>>),
                   rest |-> Less(arr.rest, id)]
      Each(ids) == [k \in DOMAIN ids |-> With(ids[k])]
  IN  Each(SelectSeq(IdSeq, LAMBDA id : arr.rest[id] > 0 /\ id \in known))

\* all unknown cards, one after the other
Expanded(arrs, unknown, poss) ==
  FoldLeft(LAMBDA list, o : FlattenSeq([k \in DOMAIN list |-> Expand(list[k], poss[o])]),
           arrs, unknown)

SumOf(arrs) == FoldLeft(LAMBDA f, arr : Plus(f, arr.prob), Zero, arrs)

Scaled(arrs, sum) == [k \in DOMAIN arrs |-> [arrs[k] EXCEPT !.prob = Divide(arrs[k].prob, sum)]]

Normalised(arrs) == Scaled(arrs, SumOf(arrs))

Arrangements(p, g, poss) ==
  Normalised(Expanded(<<[ids |-> <<>>, prob |-> One, rest |-> Remaining(p, g)]>>,
                      Unknown(p, g), poss))

\* the unknown cards that are trash in an arrangement, by which they are grouped
TrashIn(p, arr) == {k \in DOMAIN arr.ids : Trash(p, arr.ids[k])}

Group(p, arrs, key) == SelectSeq(arrs, LAMBDA arr : TrashIn(p, arr) = key)

\* The keys of groups that are numbers, as joined from indices that start at 0.
\* Bound: of three unknown cards, the most there are.
Numbers == <<{1}, {2}, {3}, {2, 3}>>

\* The groups in the order of Object.values: the numbers, then in order of arrival.
GroupKeys(arrived) ==
  FoldLeft(LAMBDA keys, key : IF key \in ToSet(keys) THEN keys ELSE Append(keys, key),
           SelectSeq(Numbers, LAMBDA key : key \in ToSet(arrived)), arrived)

\* at most three of a group, which share its probability
Selected(arrs) ==
  LET Shares(amt, sum) == [k \in 1 .. amt |-> [arrs[k] EXCEPT !.prob = Divide(sum, <<amt, 1>>)]]
  IN  Shares(IF Len(arrs) < 3 THEN Len(arrs) ELSE 3, SumOf(arrs))

\* One arrangement or three stand for a group.  The list they are appended to
\* is the group without trash itself, which is then selected from as well.
Sampled(p, arrs) ==
  FoldLeft(LAMBDA list, key :
             list \o Selected(IF key = {} THEN list ELSE Group(p, arrs, key)),
           Group(p, arrs, {}), GroupKeys([k \in DOMAIN arrs |-> TrashIn(p, arrs[k])]))

\* The game as it is, in which our cards are not known and nothing is drawn.
Unassigned(p) ==
  [p EXCEPT !.deck = [o \in Orders |-> IF o \in Ours(p) THEN NoId ELSE p.deck[o]],
            !.rest = [id \in Ids |-> 0]]

\* arranged_games: the game as it is when there is no arrangement.
ArrangedGames(p, g, arrs) ==
  IF arrs = <<>> THEN <<[at |-> Unassigned(p), prob |-> One]>>
  ELSE [k \in DOMAIN arrs |-> [at |-> Assigned(p, g, arrs[k]), prob |-> arrs[k].prob]]

-----------------------------------------------------------------------------
(* winnable_simpler, without its cache *)

RECURSIVE Simpler(_)
Simpler(p) ==
  \/ Won(p)
  \/ /\ ~Unwinnable(p)
     /\ \E a \in SimplerActions(p) : \E q \in Outcomes(p, a) : Simpler(q)

-----------------------------------------------------------------------------
(* possible_actions *)

\* what is thought of a card, also of one of ours that the deck does not know
Thought(p, o) == IF Id(p, o) = NoId THEN pos.deck[o] ELSE Id(p, o)

\* thinksPlayables: playable cards that their holder knows
ThinksPlayables(p, i) == {o \in Hand(p, i) : o \in p.known /\ Playable(p, Thought(p, o))}

\* winnable_if: the draws after which the game can be won
WinnableDraws(p, a) ==
  {id \in Unseen(p) : Simpler([Advance(p, a, id) EXCEPT !.rest = Less(p.rest, id)])}

WinnableIf(p, a) ==
  IF a.type = "clue" \/ p.left = 0 THEN Simpler(Advance(p, a, NoId))
  ELSE WinnableDraws(p, a) # {}

TooManyClues(p) == p.clues > NumPlayers

\* the first card that is known to be trash
NotUseful(p) ==
  FirstOf(p, {o \in Hand(p, p.turn) : Id(p, o) # NoId /\ Trash(p, Id(p, o))})

\* the actions considered: known plays, the first basic trash, a clue
Candidates(p) ==
  {PlayAct(o) : o \in {o \in ThinksPlayables(p, p.turn) : Id(p, o) # NoId}} \cup
  {TossAct(o) : o \in IF Pace(p) > 0 /\ p.tokens # MaxClues THEN NotUseful(p) ELSE {}} \cup
  {a \in {ClueAct} : p.tokens > 0 /\ ~TooManyClues(p)}

\* plays in the order of the hand, then discards, then clues
InOrder(hand, acts) ==
  SelectSeq([k \in 1 .. 2 * Len(hand) + 1 |->
               IF k <= Len(hand) THEN PlayAct(hand[k])
               ELSE IF k <= 2 * Len(hand) THEN TossAct(hand[k - Len(hand)]) ELSE ClueAct],
            LAMBDA a : a \in acts)

PossibleActions(p) == InOrder(p.hands[p.turn], {a \in Candidates(p) : WinnableIf(p, a)})

-----------------------------------------------------------------------------
(* winnable and optimize *)

\* Mutant of Trivial: two players may count on the same card.
MutantTrivial(p) ==
  \/ Won(p)
  \/ /\ p.turns # -1 /\ Goal(p) - ScoreOf(p) <= p.turns
     /\ \A i \in InTurn(p) : Cardinality(ThinksPlayables(p, i)) <= 1
     /\ ScoreOf(p) + Cardinality(UNION {ThinksPlayables(p, i) : i \in InTurn(p)}) = Goal(p)

\* trivially_winnable: won, or everybody who is still to move has one known
\* card at most, and these are all that is missing.
KnownInTurn(p) == UNION {ThinksPlayables(p, i) : i \in InTurn(p)}

Trivial(p) ==
  \/ Won(p)
  \/ /\ p.turns # -1 /\ Goal(p) - ScoreOf(p) <= p.turns
     /\ \A i \in InTurn(p) : Cardinality(ThinksPlayables(p, i)) <= 1
     /\ Cardinality({Id(p, o) : o \in KnownInTurn(p)} \ {NoId}) = Cardinality(KnownInTurn(p))
     /\ ScoreOf(p) + Cardinality(KnownInTurn(p)) = Goal(p)

BottomDecked(p) ==
  Unseen(p) # {} /\ \A id \in Unseen(p) : Critical(p, id) /\ id[2] # MaxRank

\* gen_hypo_games: the draws in order, each with its probability; NoId: none
Draws(p, a) ==
  IF a.type = "clue" \/ Unseen(p) = {} THEN <<NoId>>
  ELSE SelectSeq(IdSeq, LAMBDA id : p.rest[id] > 0)

Chance(p, draw) == IF draw = NoId THEN One ELSE <<p.rest[draw], p.left>>

RECURSIVE Winnable(_)
RECURSIVE Optimize(_, _, _, _)
RECURSIVE Gather(_, _, _, _, _, _, _)

\* The next draws count only as long as the action can still become the best.
Bounded(p, a, allowed, draws, all, rem, best) ==
  IF LessThan(Plus(all, rem), best) THEN all ELSE Gather(p, a, allowed, draws, all, rem, best)

\* One draw, after which the position is q.
Weighed(p, a, allowed, draws, all, rem, best, q) ==
  IF Goal(q) < Goal(p) THEN Gather(p, a, allowed, Tail(draws), all, rem, best)
  ELSE Bounded(p, a, allowed, Tail(draws),
               Plus(all, Multiply(Chance(p, draws[1]), Winnable(q))),
               Subtract(rem, Chance(p, draws[1])), best)

\* the winrate of a: the sum over the draws
Gather(p, a, allowed, draws, all, rem, best) ==
  IF draws = <<>> THEN all
  ELSE IF draws[1] # NoId /\ draws[1] \notin allowed
       THEN Gather(p, a, allowed, Tail(draws), all, rem, best)
  ELSE Weighed(p, a, allowed, draws, all, rem, best, AdvanceGame(p, a, draws[1]))

Compared(p, pool, acts, best, all) ==
  IF SameValue(all, One) THEN [rate |-> all, acts |-> <<acts[1]>>]
  ELSE Optimize(p, pool, Tail(acts),
         IF LessThan(best.rate, all) THEN [rate |-> all, acts |-> <<acts[1]>>]
         ELSE IF SameValue(all, best.rate) THEN [best EXCEPT !.acts = Append(best.acts, acts[1])]
         ELSE best)

\* The best winrate and the actions that have it; pool is what remains when the
\* draws were tested, which at the root includes our unknown cards.
Optimize(p, pool, acts, best) ==
  IF acts = <<>> THEN best
  ELSE Compared(p, pool, acts, best,
         Gather(p, acts[1],
                IF acts[1].type = "clue" THEN {} ELSE WinnableDraws([p EXCEPT !.rest = pool], acts[1]),
                Draws(p, acts[1]), Zero, One, best.rate))

NoBest == [rate |-> Zero, acts |-> <<>>]

Winnable(p) ==
  IF Trivial(p) THEN One
  ELSE IF Unwinnable(p) \/ BottomDecked(p) THEN Zero
  ELSE Optimize(p, p.rest, PossibleActions(p), NoBest).rate

-----------------------------------------------------------------------------
(* solve_game *)

\* A clue told the suit or the rank of a card that is truth.
Agrees(hint, id, truth) ==
  /\ hint = "suit" => id[1] = truth[1]
  /\ hint = "rank" => id[2] = truth[2]

\* what we know of an unknown card of ours: what we were told and see of the others
Told(p, o, hint) ==
  {id \in Ids : Agrees(hint, id, Id(p, o)) /\ SeenOf(p, id) + Base(p, id) < Copies[id]}

Init ==
  /\ PlayInit
  /\ \E hint \in [Ours(pos) \ pos.known -> Hints] :
       possible = [o \in Ours(pos) \ pos.known |-> Told(pos, o, hint[o])]
  /\ \A o \in DOMAIN possible : Cardinality(possible[o]) > 1
  /\ guess \in UNION {[S -> Guesses] : S \in SUBSET DOMAIN possible}
  /\ \A o \in DOMAIN guess : guess[o] \in possible[o]
  /\ pc = "solve" /\ todo = <<>> /\ performs = <<>> /\ late = FALSE

\* Everything is known, or the arrangements are to be searched one by one.
Start ==
  /\ pc = "solve"
  /\ IF Cardinality(WhollyMissing(pos, guess)) > 2
     THEN pc' = "unsolved" /\ UNCHANGED todo
     ELSE IF pos.left + Len(Unknown(pos, guess)) = 0
     THEN pc' = "exact" /\ UNCHANGED todo
     ELSE /\ pc' = "search"
          /\ LET arrs == Arrangements(pos, guess, possible)
             IN  todo' = ArrangedGames(pos, guess, IF MonteCarlo THEN Sampled(pos, arrs) ELSE arrs)
  /\ UNCHANGED <<pos, possible, guess, performs, late, lost>>

\* The action of trivially_winnable; none when the game is won.
TrivialAct(p) ==
  LET known == ThinksPlayables(p, p.turn)
  IN  IF known # {} THEN PlayAct(CHOOSE o \in known : TRUE)
      ELSE TossAct(Last(p.hands[p.turn]))

\* Nothing is unknown.  A won position has no action to report, and a search
\* that was cut short has no first action: both end in a TypeError.
Known(p, g) == Assigned(p, g, [ids |-> <<>>, rest |-> Remaining(p, g)])

Answer(p) ==
  IF Trivial(p) THEN [act |-> TrivialAct(p), rate |-> One]
  ELSE LET First(b) == [act |-> b.acts[1], rate |-> b.rate]
       IN  First(Optimize(p, p.rest, PossibleActions(p), NoBest))

Exact ==
  /\ pc = "exact"
  /\ IF late THEN pc' \in {"unsolved", "threw"} /\ UNCHANGED performs
     ELSE IF Won(Known(pos, guess)) THEN pc' = "threw" /\ UNCHANGED performs
     ELSE IF SameValue(Winnable(Known(pos, guess)), Zero) THEN pc' = "unsolved" /\ UNCHANGED performs
     ELSE pc' = "solved" /\ performs' = <<Answer(Known(pos, guess))>>
  /\ UNCHANGED <<pos, possible, guess, todo, late, lost>>

\* best_performs: the rate of an arrangement counts with its probability.
Credited(list, act, rate) ==
  IF \E k \in DOMAIN list : list[k].act = act
  THEN [k \in DOMAIN list |-> IF list[k].act = act
                              THEN [list[k] EXCEPT !.rate = Plus(list[k].rate, rate)] ELSE list[k]]
  ELSE Append(list, [act |-> act, rate |-> rate])

Best(p, pool) == Optimize(p, pool, PossibleActions([p EXCEPT !.rest = pool]), NoBest)

CreditedAll(list, b, prob) ==
  IF SameValue(b.rate, Zero) THEN list
  ELSE FoldLeft(LAMBDA l, act : Credited(l, act, Multiply(b.rate, prob)), list, b.acts)

SearchOne ==
  /\ pc = "search" /\ todo # <<>> /\ ~late
  /\ performs' = CreditedAll(performs, Best(todo[1].at, Remaining(pos, guess)), todo[1].prob)
  /\ todo' = Tail(todo)
  /\ UNCHANGED <<pos, possible, guess, pc, late, lost>>

TimeUp ==
  /\ pc \in {"exact", "search"} /\ ~late
  /\ late' = TRUE
  /\ UNCHANGED <<pos, possible, guess, pc, todo, performs, lost>>

\* The last test of the time comes before the answer.
Conclude ==
  /\ pc = "search" /\ (todo = <<>> \/ late)
  /\ pc' = IF late \/ performs = <<>> THEN "unsolved" ELSE "solved"
  /\ UNCHANGED <<pos, possible, guess, todo, performs, late, lost>>

-----------------------------------------------------------------------------
(* The game goes on *)

Play ==
  /\ pc \in {"solved", "unsolved", "play"} /\ PlayOn
  /\ pc' = "play" /\ possible' = [o \in {} |-> {}] /\ guess' = [o \in {} |-> NoId]
  /\ todo' = <<>> /\ performs' = <<>> /\ late' = FALSE

Next == Start \/ Exact \/ SearchOne \/ TimeUp \/ Conclude \/ Play

Spec == Init /\ [][Next]_vars

-----------------------------------------------------------------------------
(* Reference definitions *)

\* Some play by people who see all cards, and some order of the deck, reaches
\* the maximum score of p.
RECURSIVE CanWin(_)
CanWin(p) ==
  \/ Won(p)
  \/ /\ ~Over(p)
     /\ \E a \in LegalMoves(p) : \E q \in After(p, a) : Goal(q) = Goal(p) /\ CanWin(q)

\* The chance to win of the best strategy with the solver's actions: play a known
\* card, give a clue, discard the first trash.
OptionsOf(p) ==
  {PlayAct(o) : o \in ThinksPlayables(p, p.turn)} \cup
  {TossAct(o) : o \in IF p.tokens = MaxClues THEN {} ELSE NotUseful(p)} \cup
  (IF p.tokens > 0 THEN {ClueAct} ELSE {})

Better(f, g) == IF LessThan(f, g) THEN g ELSE f

RECURSIVE BestChance(_)
BestChance(p) ==
  IF Won(p) THEN One
  ELSE IF Over(p) THEN Zero
  ELSE FoldLeft(Better, Zero,
         SetToSeq({FoldLeft(LAMBDA f, d : Plus(f, Multiply(Chance(p, d),
                                BestChance(AdvanceGame(p, a, d)))), Zero, Draws(p, a)) :
                   a \in OptionsOf(p)}))

\* The positions that winnable_simpler may meet when it starts from p.
RECURSIVE Visited(_)
Visited(p) ==
  IF Won(p) \/ Unwinnable(p) THEN {}
  ELSE {p} \cup UNION {UNION {Visited(q) : q \in Outcomes(p, a)} : a \in SimplerActions(p)}

\* The ways to deal the unseen copies to our unknown cards.
FairDeals(p, g, poss) ==
  LET unseen == {<<id, n>> \in Ids \X (1 .. MaxOrder + 1) : n <= Remaining(p, g)[id]}
      ours   == Unknown(p, g)
  IN  {d \in [DOMAIN ours -> unseen] :
         /\ IsInjective(d)
         /\ \A k \in DOMAIN ours : d[k][1] \in poss[ours[k]]}

-----------------------------------------------------------------------------
(* Properties *)

\* The game goes on, or is about to be solved.
Live == pc \in {"solve", "play"} /\ pos.strikes < 3

\* winnable_simpler promises no win that does not exist.
SimplerHolds == Live /\ Simpler(pos) => CanWin(pos)

\* simpler_cache: two positions of a search with the same hash have the same result,
\* although the hash has neither the stacks nor the ends of the hands.  (Those of
\* different arrangements have different decks.)
Agree(seen) ==
  Cardinality({Key(p) : p \in seen}) = Cardinality({<<Key(p), Simpler(p)>> : p \in seen})

CacheHolds == pc = "solve" => Agree(Visited(pos))

\* Nothing is unknown, and what is inferred is true.
AllKnown ==
  /\ pos.left + Len(Unknown(pos, guess)) = 0
  /\ \A o \in DOMAIN guess : guess[o] = Id(pos, o)

\* winnable promises no more than the best strategy, in spite of the draws it
\* skips and the actions it stops early; neither does the search of an arrangement,
\* which tests the draws with our unknown cards among them; and the action that
\* solve_game reports when all is known keeps what it promises.
WinrateHolds ==
  /\ Live => ~LessThan(BestChance(pos), Winnable(pos))
  /\ pc = "solved" /\ AllKnown =>
       ~LessThan(BestChance(AdvanceGame(pos, performs[1].act, NoId)), performs[1].rate)
  /\ pc = "search" /\ todo # <<>> =>
       ~LessThan(BestChance(todo[1].at), Best(todo[1].at, Remaining(pos, guess)).rate)

\* Each arrangement leaves as many cards as the deck has (assert.equal in
\* solve_game) and has the share of the deals that give our unknown cards its
\* identities; no deal that what we know allows is left out (expand_arr).
SharedFairly ==
  pc = "solve" =>
    LET arrs == Arrangements(pos, guess, possible)
        fair == FairDeals(pos, guess, possible)
        Of(ids) == {d \in fair : ids = [k \in DOMAIN d |-> d[k][1]]}
    IN  /\ \A arr \in ToSet(arrs) :
             /\ Sum(arr.rest) = pos.left
             /\ SameValue(arr.prob, <<Cardinality(Of(arr.ids)), Cardinality(fair)>>)
        /\ \A d \in fair : \E arr \in ToSet(arrs) : d \in Of(arr.ids)
        /\ IsInjective([k \in DOMAIN arrs |-> arrs[k].ids])

=============================================================================
