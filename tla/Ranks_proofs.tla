---------------------------- MODULE Ranks_proofs ----------------------------
(***************************************************************************)
(* The bookkeeping of ranks in State is right: max_ranks are the ranks the *)
(* discard pile leaves within reach, and isCritical predicts what a        *)
(* discard costs; and the self-play loop implements the rules of Hanabi,   *)
(* for every number of players, hand size, variant and set of shuffles.    *)
(***************************************************************************)
EXTENDS SelfPlay_proofs, Sums_proofs

-----------------------------------------------------------------------------
(* Ranks that can still be reached *)

\* The stacks are within max_ranks, which are what the discard pile leaves within
\* reach.
RanksOK(st) ==
  \A s \in Suits :
    /\ st.play_stacks[s] <= st.max_ranks[s]
    /\ \A k \in 1 .. st.max_ranks[s] : st.discard_stacks[<<s, k>>] < Copies[<<s, k>>]
    /\ st.max_ranks[s] < MaxRank
         => st.discard_stacks[<<s, st.max_ranks[s] + 1>>] = Copies[<<s, st.max_ranks[s] + 1>>]

\* No more cards of an identity are on the table than there are in the deck.
LEMMA AtMostCopies ==
  ASSUME NEW st \in State, Accounted(st), shuffled \in Decks, NEW id \in Ids
  PROVE  BaseCount(st, id) <= Copies[id]
<1> DEFINE All == {o \in Orders : shuffled[o] = id}
<1>1. Cardinality(All) = Copies[id]
  BY DEF Decks
<1>2. IsFiniteSet(All)
  <2>1. IsFiniteSet(Orders)
    BY TableFacts, FS_Interval DEF Orders
  <2>2. QED
    BY <2>1, FS_Subset
<1>3. GoneCards(st, id) \subseteq All
  BY DEF GoneCards
<1>4. Cardinality(GoneCards(st, id)) <= Cardinality(All)
  BY <1>2, <1>3, FS_Subset
<1>5. QED
  BY <1>1, <1>4 DEF Accounted

\* What a decision does to the tokens, the strikes, the maximum ranks and the countdown.
LEMMA ActedTable ==
  ASSUME NEW st \in State, NEW perform \in PerformActions, NEW p \in Players,
         shuffled \in [Orders -> Ids]
  PROVE  LET id    == shuffled[perform.target]
             acted == Acted(st, perform, p)
         IN  /\ acted.endgameTurns = CountDown(st.endgameTurns)
             /\ perform.type = "CLUE" =>
                  /\ acted.clue_tokens = st.clue_tokens - 1
                  /\ acted.strikes = st.strikes
                  /\ acted.max_ranks = st.max_ranks
             /\ perform.type = "DISCARD" =>
                  /\ acted.clue_tokens = Regain(st.clue_tokens)
                  /\ acted.strikes = st.strikes
                  /\ acted.play_stacks = st.play_stacks
                  /\ acted.discard_stacks = Gone(st.discard_stacks, id)
                  /\ acted.max_ranks = Lowered(st.max_ranks, Gone(st.discard_stacks, id), id)
             /\ perform.type = "PLAY" /\ IsPlayable(st, id) =>
                  /\ acted.clue_tokens = IF id[2] = MaxRank THEN Regain(st.clue_tokens)
                                         ELSE st.clue_tokens
                  /\ acted.strikes = st.strikes
                  /\ acted.play_stacks = Stacked(st.play_stacks, id)
                  /\ acted.discard_stacks = st.discard_stacks
                  /\ acted.max_ranks = st.max_ranks
             /\ perform.type = "PLAY" /\ ~IsPlayable(st, id) =>
                  /\ acted.clue_tokens = st.clue_tokens
                  /\ acted.strikes = st.strikes + 1
                  /\ acted.play_stacks = st.play_stacks
                  /\ acted.discard_stacks = Gone(st.discard_stacks, id)
                  /\ acted.max_ranks = Lowered(st.max_ranks, Gone(st.discard_stacks, id), id)
<1> DEFINE id    == shuffled[perform.target]
           acted == Acted(st, perform, p)
<1>1. perform.type \in {"CLUE", "DISCARD", "PLAY"}
  BY DEF PerformActions
<1>2. CASE perform.type = "CLUE"
  <2>1. acted = OnClue(st)
    BY <1>2, ActedCases
  <2>2. QED
    BY <1>2, <2>1 DEF OnClue, State
<1>3. CASE perform.type = "DISCARD"
  <2>1. acted = OnDiscard(st, p, perform.target, id, FALSE)
    BY <1>3, ActedCases
  <2>2. QED
    BY <1>3, <2>1 DEF OnDiscard, State
<1>4. CASE perform.type = "PLAY" /\ IsPlayable(st, id)
  <2>1. acted = OnPlay(st, p, perform.target, id)
    BY <1>4, ActedCases
  <2>2. QED
    BY <1>4, <2>1 DEF OnPlay, State
<1>5. CASE perform.type = "PLAY" /\ ~IsPlayable(st, id)
  <2>1. acted = OnDiscard(st, p, perform.target, id, TRUE)
    BY <1>5, ActedCases
  <2>2. QED
    BY <1>5, <2>1 DEF OnDiscard, State
<1>6. QED
  BY <1>1, <1>2, <1>3, <1>4, <1>5

\* The identity of a rank, and the ranks of an identity.
LEMMA RankFacts ==
  ASSUME NEW st \in State
  PROVE  /\ MaxRank \in Nat
         /\ \A s \in Suits : st.play_stacks[s] \in 0 .. MaxRank /\ st.max_ranks[s] \in 0 .. MaxRank
         /\ \A s \in Suits, k \in 1 .. MaxRank :
              /\ <<s, k>> \in Ids
              /\ st.discard_stacks[<<s, k>>] \in Nat
              /\ Copies[<<s, k>>] \in Nat /\ Copies[<<s, k>>] > 0
BY TableAssumption DEF State, Ids, Ranks

\* A card added to the discard pile keeps the ranks right.
LEMMA DiscardRanks ==
  ASSUME NEW st \in State, NEW new \in State, NEW id \in Ids, RanksOK(st),
         \A x \in Ids : BaseCount(new, x) <= Copies[x],
         new.discard_stacks = Gone(st.discard_stacks, id),
         new.play_stacks = st.play_stacks,
         new.max_ranks = Lowered(st.max_ranks, Gone(st.discard_stacks, id), id)
  PROVE  RanksOK(new)
<1> DEFINE s1   == id[1]
           k1   == id[2]
           gone == new.discard_stacks
           low  == gone[id] = Copies[id] /\ k1 - 1 < st.max_ranks[s1]
<1>1. /\ id # NoId /\ s1 \in Suits /\ k1 \in 1 .. MaxRank /\ id = <<s1, k1>>
  BY IdFacts DEF Ids, Ranks
<1>2. \A x \in Ids : gone[x] = st.discard_stacks[x] + (IF x = id THEN 1 ELSE 0)
  BY <1>1 DEF Gone, State
<1>3. \A s \in Suits, k \in 1 .. MaxRank : (<<s, k>> = id <=> s = s1 /\ k = k1)
  BY <1>1
<1>4. new.max_ranks = IF low THEN [st.max_ranks EXCEPT ![s1] = k1 - 1] ELSE st.max_ranks
  BY <1>1 DEF Lowered
<1>5. \A s \in Suits : new.max_ranks[s] = IF s = s1 /\ low THEN k1 - 1 ELSE st.max_ranks[s]
  BY <1>1, <1>4 DEF State
<1>6. gone[id] <= Copies[id]
  <2>1. BaseCount(new, id) <= Copies[id] /\ gone[id] \in Nat /\ Copies[id] \in Nat
    BY <1>1, RankFacts
  <2>2. QED
    BY <2>1 DEF BaseCount
<1>7. low => st.play_stacks[s1] <= k1 - 1
  <2> SUFFICES ASSUME low PROVE st.play_stacks[s1] <= k1 - 1
    OBVIOUS
  <2>1. BaseCount(new, id) <= Copies[id] /\ gone[id] = Copies[id] /\ Copies[id] \in Nat
    BY <1>1, RankFacts
  <2>2. ~(new.play_stacks[s1] >= k1)
    BY <2>1 DEF BaseCount
  <2>3. QED
    BY <1>1, <2>2, RankFacts
<1> SUFFICES ASSUME NEW s \in Suits
             PROVE  /\ new.play_stacks[s] <= new.max_ranks[s]
                    /\ \A k \in 1 .. new.max_ranks[s] : gone[<<s, k>>] < Copies[<<s, k>>]
                    /\ new.max_ranks[s] < MaxRank
                         => gone[<<s, new.max_ranks[s] + 1>>] = Copies[<<s, new.max_ranks[s] + 1>>]
  BY DEF RanksOK
<1> HIDE DEF low, gone, s1, k1
<1>8. /\ st.play_stacks[s] <= st.max_ranks[s]
      /\ \A k \in 1 .. st.max_ranks[s] : st.discard_stacks[<<s, k>>] < Copies[<<s, k>>]
      /\ st.max_ranks[s] < MaxRank
           => st.discard_stacks[<<s, st.max_ranks[s] + 1>>] = Copies[<<s, st.max_ranks[s] + 1>>]
  BY DEF RanksOK
<1>9. /\ MaxRank \in Nat /\ st.max_ranks[s] \in 0 .. MaxRank /\ st.play_stacks[s] \in 0 .. MaxRank
      /\ \A k \in 1 .. MaxRank : /\ <<s, k>> \in Ids
                                 /\ st.discard_stacks[<<s, k>>] \in Nat
                                 /\ Copies[<<s, k>>] \in Nat
  BY RankFacts
<1>10. CASE s = s1 /\ low
  <2>1. new.max_ranks[s] = k1 - 1 /\ gone[<<s, k1>>] = Copies[<<s, k1>>]
    BY <1>1, <1>5, <1>10 DEF low
  <2>2. k1 \in Int /\ k1 - 1 < st.max_ranks[s]
    BY <1>1, <1>10 DEF low
  <2>3. \A k \in 1 .. k1 - 1 : gone[<<s, k>>] < Copies[<<s, k>>]
    <3> SUFFICES ASSUME NEW k \in 1 .. k1 - 1 PROVE gone[<<s, k>>] < Copies[<<s, k>>]
      OBVIOUS
    <3>1. k \in 1 .. st.max_ranks[s] /\ k \in 1 .. MaxRank /\ k # k1
      BY <1>1, <1>9, <2>2
    <3>2. gone[<<s, k>>] = st.discard_stacks[<<s, k>>]
      BY <1>2, <1>3, <1>9, <3>1
    <3>3. QED
      BY <1>8, <3>1, <3>2
  <2>4. QED
    BY <1>1, <1>7, <1>10, <2>1, <2>2, <2>3
<1>11. CASE ~(s = s1 /\ low)
  <2>1. new.max_ranks[s] = st.max_ranks[s]
    BY <1>5, <1>11
  <2>2. \A k \in 1 .. st.max_ranks[s] : gone[<<s, k>>] < Copies[<<s, k>>]
    <3> SUFFICES ASSUME NEW k \in 1 .. st.max_ranks[s] PROVE gone[<<s, k>>] < Copies[<<s, k>>]
      OBVIOUS
    <3>1. k \in 1 .. MaxRank
      BY <1>9
    <3>2. CASE <<s, k>> = id
      <4>1. s = s1 /\ k = k1 /\ ~low
        BY <1>3, <1>11, <3>1, <3>2
      <4>2. gone[id] # Copies[id]
        BY <1>9, <4>1 DEF low
      <4>3. gone[id] \in Int /\ Copies[id] \in Int
        BY <1>2, <1>9, <3>1, <3>2
      <4>4. QED
        BY <1>6, <3>2, <4>2, <4>3
    <3>3. CASE <<s, k>> # id
      BY <1>2, <1>8, <1>9, <3>1, <3>3
    <3>4. QED
      BY <3>2, <3>3
  <2>3. ASSUME st.max_ranks[s] < MaxRank
        PROVE  gone[<<s, st.max_ranks[s] + 1>>] = Copies[<<s, st.max_ranks[s] + 1>>]
    <3> DEFINE x == <<s, st.max_ranks[s] + 1>>
    <3>1. x \in Ids /\ st.discard_stacks[x] = Copies[x] /\ Copies[x] \in Nat
      BY <1>8, <1>9, <2>3
    <3>2. x # id
      <4>1. x = id => gone[id] = Copies[id] + 1
        BY <1>2, <3>1
      <4>2. QED
        BY <1>6, <3>1, <4>1
    <3>3. QED
      BY <1>2, <3>1, <3>2
  <2>4. QED
    BY <1>8, <2>1, <2>2, <2>3
<1>12. QED
  BY <1>10, <1>11

\* A card played on its stack keeps the ranks right: the rank above a stack that has
\* come to its end is in the discard pile, all of it.
LEMMA PlayRanks ==
  ASSUME NEW st \in State, NEW new \in State, NEW id \in Ids, RanksOK(st),
         \A x \in Ids : BaseCount(new, x) <= Copies[x],
         IsPlayable(st, id),
         new.play_stacks = Stacked(st.play_stacks, id),
         new.discard_stacks = st.discard_stacks,
         new.max_ranks = st.max_ranks
  PROVE  RanksOK(new)
<1>1. /\ id # NoId /\ id[1] \in Suits /\ id[2] \in 1 .. MaxRank /\ id = <<id[1], id[2]>>
  BY IdFacts DEF Ids, Ranks
<1>2. id[2] = st.play_stacks[id[1]] + 1 /\ new.play_stacks[id[1]] = id[2]
  BY <1>1 DEF IsPlayable, Stacked, State
<1>3. \A s \in Suits : s # id[1] => new.play_stacks[s] = st.play_stacks[s]
  BY <1>1 DEF Stacked, State
<1>4. id[2] <= st.max_ranks[id[1]]
  <2> SUFFICES ASSUME ~(id[2] <= st.max_ranks[id[1]]) PROVE FALSE
    OBVIOUS
  <2>1. st.max_ranks[id[1]] \in 0 .. MaxRank /\ st.play_stacks[id[1]] \in 0 .. MaxRank
    BY <1>1, RankFacts
  <2>2. st.play_stacks[id[1]] <= st.max_ranks[id[1]]
    BY <1>1 DEF RanksOK
  <2>3. id[2] = st.max_ranks[id[1]] + 1 /\ st.max_ranks[id[1]] < MaxRank
    BY <1>1, <1>2, <2>1, <2>2, TableFacts
  <2>4. st.discard_stacks[id] = Copies[id]
    BY <1>1, <2>3 DEF RanksOK
  <2>5. BaseCount(new, id) = 1 + Copies[id]
    BY <1>1, <1>2, <2>4 DEF BaseCount
  <2>6. Copies[id] \in Nat
    BY <1>1, RankFacts
  <2>7. QED
    BY <2>5, <2>6
<1>5. QED
  BY <1>1, <1>2, <1>3, <1>4 DEF RanksOK

\* Every decision keeps the ranks right.
LEMMA ActedRanks ==
  ASSUME NEW st \in State, NEW perform \in PerformActions, NEW p \in Players,
         shuffled \in Decks,
         perform.type = "CLUE" => st.clue_tokens > 0,
         perform.type # "CLUE" => perform.target \in st.hands[p],
         Held(st), Accounted(st), RanksOK(st)
  PROVE  RanksOK(Acted(st, perform, p))
<1> DEFINE id    == shuffled[perform.target]
           acted == Acted(st, perform, p)
<1>1. shuffled \in [Orders -> Ids] /\ perform.type \in {"CLUE", "DISCARD", "PLAY"}
  BY DEF Decks, PerformActions
<1>2. acted \in State /\ Accounted(acted)
  BY <1>1, ActedFields, ActedAccount
<1>3. \A x \in Ids : BaseCount(acted, x) <= Copies[x]
  BY <1>2, AtMostCopies
<1>4. CASE perform.type = "CLUE"
  <2>1. /\ acted.play_stacks = st.play_stacks /\ acted.discard_stacks = st.discard_stacks
        /\ acted.max_ranks = st.max_ranks
    BY <1>1, <1>4, ActedFields, ActedTable
  <2>2. QED
    BY <2>1 DEF RanksOK
<1>5. CASE perform.type # "CLUE"
  <2>1. id \in Ids
    BY <1>1, <1>5, ActedFields
  <2>2. CASE perform.type = "PLAY" /\ IsPlayable(st, id)
    BY <1>1, <1>2, <1>3, <2>1, <2>2, ActedTable, PlayRanks
  <2>3. CASE perform.type = "DISCARD" \/ ~IsPlayable(st, id)
    BY <1>1, <1>2, <1>3, <1>5, <2>1, <2>3, ActedTable, DiscardRanks
  <2>4. QED
    BY <1>1, <1>5, <2>2, <2>3
<1>6. QED
  BY <1>4, <1>5

-----------------------------------------------------------------------------
(* Scores *)

\* Stacks and maximum ranks are functions that can be summed.
LEMMA ScoreFacts ==
  ASSUME NEW st \in State
  PROVE  /\ IsFiniteSet(Suits)
         /\ st.play_stacks \in [Suits -> Int] /\ st.max_ranks \in [Suits -> Int]
         /\ Score(st) \in Int /\ MaxScore(st) \in Int
<1>1. IsFiniteSet(Suits)
  BY TableAssumption
<1>2. st.play_stacks \in [Suits -> Int] /\ st.max_ranks \in [Suits -> Int]
  BY TableFacts DEF State
<1>3. Sum(st.play_stacks) \in Int /\ Sum(st.max_ranks) \in Int
  <2>1. \A f \in [Suits -> Int] : \A s \in Suits : f[s] <= f[s]
    OBVIOUS
  <2>2. QED
    BY <1>1, <1>2, <2>1, SumOrder
<1>4. QED
  BY <1>1, <1>2, <1>3 DEF Score, MaxScore

\* The score is perfect when every stack is complete, and only then.
LEMMA PerfectIsFull ==
  ASSUME NEW st \in State
  PROVE  Perfect(st) <=> \A s \in Suits : st.play_stacks[s] = MaxRank
<1> DEFINE full == [s \in Suits |-> MaxRank]
<1>1. MaxRank \in Nat /\ \A s \in Suits : st.play_stacks[s] \in 0 .. MaxRank
  BY RankFacts
<1>2. /\ IsFiniteSet(Suits) /\ st.play_stacks \in [Suits -> Int] /\ full \in [Suits -> Int]
      /\ \A s \in Suits : st.play_stacks[s] <= full[s]
  BY <1>1, ScoreFacts
<1>3. Sum(full) = PerfectScore
  <2>1. MaxRank \in Int
    BY <1>1
  <2>2. Sum([s \in Suits |-> MaxRank]) = Cardinality(Suits) * MaxRank
    BY <1>2, <2>1, SumConstant
  <2>3. QED
    BY <2>2 DEF PerfectScore
<1>4. Sum(st.play_stacks) = Sum(full) <=> st.play_stacks = full
  BY <1>2, SumOrder
<1>5. st.play_stacks = full <=> \A s \in Suits : st.play_stacks[s] = MaxRank
  BY <1>2
<1>6. QED
  BY <1>3, <1>4, <1>5 DEF Perfect, Score

\* While the maximum score is not reached the score is not perfect.
LEMMA NotPerfectYet ==
  ASSUME NEW st \in State, RanksOK(st), Score(st) # MaxScore(st)
  PROVE  ~Perfect(st)
<1> SUFFICES ASSUME Perfect(st) PROVE st.play_stacks = st.max_ranks
  BY DEF Score, MaxScore
<1>1. \A s \in Suits : /\ st.play_stacks[s] = MaxRank
                       /\ st.play_stacks[s] <= st.max_ranks[s]
                       /\ st.max_ranks[s] \in 0 .. MaxRank
  BY PerfectIsFull, RankFacts DEF RanksOK
<1>2. \A s \in Suits : st.play_stacks[s] = st.max_ranks[s]
  BY <1>1, TableFacts
<1>3. QED
  BY <1>2, ScoreFacts

\* The maximum score falls when a card is discarded exactly if it was critical.
LEMMA DiscardCost ==
  ASSUME NEW st \in State, NEW new \in State, NEW id \in Ids, RanksOK(st),
         \A x \in Ids : BaseCount(new, x) <= Copies[x],
         new.discard_stacks = Gone(st.discard_stacks, id),
         new.play_stacks = st.play_stacks,
         new.max_ranks = Lowered(st.max_ranks, Gone(st.discard_stacks, id), id)
  PROVE  MaxScore(new) < MaxScore(st) <=> IsCritical(st, id)
<1> DEFINE low == Gone(st.discard_stacks, id)[id] = Copies[id] /\ id[2] - 1 < st.max_ranks[id[1]]
<1>1. /\ id # NoId /\ id[1] \in Suits /\ id[2] \in 1 .. MaxRank /\ id = <<id[1], id[2]>>
  BY IdFacts DEF Ids, Ranks
<1>2. /\ st.discard_stacks[id] \in Nat /\ Copies[id] \in Nat
      /\ st.max_ranks[id[1]] \in 0 .. MaxRank /\ st.play_stacks[id[1]] \in 0 .. MaxRank
      /\ MaxRank \in Nat
  BY <1>1, RankFacts
<1>3. new.discard_stacks[id] = st.discard_stacks[id] + 1
  BY <1>1 DEF Gone, State
<1>4. low <=> IsCritical(st, id)
  <2>1. BaseCount(new, id) <= Copies[id]
    OBVIOUS
  <2>2. st.discard_stacks[id] + 1 = Copies[id] => st.play_stacks[id[1]] < id[2]
    BY <1>1, <1>2, <1>3, <2>1 DEF BaseCount
  <2>3. low <=> /\ st.discard_stacks[id] + 1 = Copies[id]
                /\ id[2] <= st.max_ranks[id[1]]
    BY <1>1, <1>2, <1>3
  <2>4. IsCritical(st, id) <=> /\ st.discard_stacks[id] + 1 = Copies[id]
                               /\ id[2] > st.play_stacks[id[1]]
                               /\ id[2] <= st.max_ranks[id[1]]
    BY <1>1, <1>2 DEF IsCritical, IsBasicTrash
  <2>5. QED
    BY <1>1, <1>2, <2>2, <2>3, <2>4
<1>5. new.max_ranks = IF low THEN [st.max_ranks EXCEPT ![id[1]] = id[2] - 1] ELSE st.max_ranks
  BY <1>1 DEF Lowered
<1> HIDE DEF low
<1>6. CASE low
  <2>1. new.max_ranks[id[1]] = id[2] - 1
    BY <1>1, <1>5, <1>6 DEF State
  <2>2. id[2] - 1 < st.max_ranks[id[1]]
    BY <1>6 DEF low
  <2>3. \A s \in Suits : new.max_ranks[s] <= st.max_ranks[s]
    <3> SUFFICES ASSUME NEW s \in Suits PROVE new.max_ranks[s] <= st.max_ranks[s]
      OBVIOUS
    <3>1. CASE s = id[1]
      BY <1>1, <1>2, <2>1, <2>2, <3>1
    <3>2. CASE s # id[1]
      <4>1. new.max_ranks[s] = st.max_ranks[s] /\ st.max_ranks[s] \in Int
        BY <1>5, <1>6, <3>2, ScoreFacts
      <4>2. QED
        BY <4>1
    <3>3. QED
      BY <3>1, <3>2
  <2>4. new.max_ranks # st.max_ranks
    BY <1>1, <1>2, <2>1, <2>2
  <2>5. Sum(new.max_ranks) < Sum(st.max_ranks)
    <3>1. /\ Sum(new.max_ranks) \in Int /\ Sum(st.max_ranks) \in Int
          /\ Sum(new.max_ranks) <= Sum(st.max_ranks)
          /\ Sum(new.max_ranks) # Sum(st.max_ranks)
      BY <2>3, <2>4, ScoreFacts, SumOrder
    <3>2. QED
      BY <3>1
  <2>6. QED
    BY <1>4, <1>6, <2>5 DEF MaxScore
<1>7. CASE ~low
  <2>1. MaxScore(new) = MaxScore(st) /\ MaxScore(st) \in Int
    BY <1>5, <1>7, ScoreFacts DEF MaxScore
  <2>2. QED
    BY <1>4, <1>7, <2>1
<1>8. QED
  BY <1>6, <1>7

-----------------------------------------------------------------------------
(* The invariant of the rules *)

AllRanks == \A i \in Players : RanksOK(games[i])

\* The countdown of the last round runs once the deck is empty.
LastRound == games[0].endgameTurns = -1 <=> games[0].cardOrder + 1 < DeckSize

\* A turn is only taken while the loop condition holds.
InPlay == pc \in {"act", "apply"} => Continue

RInv == /\ IInv /\ AllAccounted /\ shuffled \in Decks
        /\ AllRanks /\ LastRound /\ InPlay

\* Whether the copy st draws after it has acted.
Draws(acted, perform, order) ==
  /\ ~(acted.strikes = MaxStrikes \/ Perfect(acted))
  /\ perform.type # "CLUE"
  /\ order < DeckSize

\* What a turn leaves in a copy.
LEMMA AdvanceFields ==
  ASSUME TypeOK, NEW i \in Players, NEW p \in Players, NEW perform \in PerformActions,
         perform.type = "CLUE" => games[i].clue_tokens > 0
  PROVE  LET st    == games[i]
             acted == Acted(st, perform, p)
             order == st.cardOrder + 1
             new   == Advance(i, perform, p)
         IN  /\ acted \in State /\ new \in State
             /\ acted.cardOrder = st.cardOrder
             /\ new.clue_tokens = acted.clue_tokens
             /\ new.strikes = acted.strikes
             /\ new.play_stacks = acted.play_stacks
             /\ new.discard_stacks = acted.discard_stacks
             /\ new.max_ranks = acted.max_ranks
             /\ Draws(acted, perform, order) =>
                  /\ order \in Orders
                  /\ new.hands = With(acted.hands, p, order)
                  /\ new.cardOrder = order
                  /\ new.endgameTurns = IF st.cardsLeft = 1 THEN NumPlayers
                                        ELSE acted.endgameTurns
             /\ ~Draws(acted, perform, order) =>
                  /\ new.hands = acted.hands
                  /\ new.cardOrder = st.cardOrder
                  /\ new.endgameTurns = acted.endgameTurns
<1> DEFINE st    == games[i]
           acted == Acted(st, perform, p)
           order == st.cardOrder + 1
           new   == Advance(i, perform, p)
<1>1. st \in State /\ shuffled \in [Orders -> Ids]
  BY DEF TypeOK
<1>2. acted \in State /\ acted.cardOrder = st.cardOrder /\ acted.cardsLeft = st.cardsLeft
  BY <1>1, ActedFields
<1>3. new = IF Draws(acted, perform, order)
            THEN HandleDraw(acted, p, order, SeenBy(i, p, order)) ELSE acted
  BY DEF Advance, Acted, Draws
<1>4. CASE Draws(acted, perform, order)
  <2>1. order \in Orders
    BY <1>1, <1>4, NextOrder DEF Draws
  <2>2. SeenBy(i, p, order) \in Ids \cup {NoId}
    BY <1>1, <2>1 DEF SeenBy
  <2>3. new = HandleDraw(acted, p, order, SeenBy(i, p, order))
    BY <1>3, <1>4
  <2> HIDE DEF acted, order, new, st
  <2>4. QED
    BY <1>2, <1>4, <2>1, <2>2, <2>3, DrawFields DEF acted, order, new, st
<1>5. CASE ~Draws(acted, perform, order)
  BY <1>2, <1>3, <1>5
<1>6. QED
  BY <1>4, <1>5

\* The invariant holds when simulate_game begins.
LEMMA InitRInv == Init => RInv
<1> SUFFICES ASSUME Init PROVE RInv
  OBVIOUS
<1>1. IInv /\ AllAccounted /\ shuffled \in Decks
  BY InitIInv, InitAccount, ShuffleAssumption DEF Init
<1>2. \A i \in Players : games[i] = InitialState
  BY DEF Init
<1>3. AllRanks
  <2> SUFFICES ASSUME NEW i \in Players PROVE RanksOK(InitialState)
    BY <1>2 DEF AllRanks
  <2>1. \A s \in Suits, k \in 1 .. MaxRank : Copies[<<s, k>>] \in Nat /\ Copies[<<s, k>>] > 0
    BY InitialType, RankFacts
  <2>2. \A s \in Suits, k \in 1 .. MaxRank : <<s, k>> \in Ids
    BY InitialType, RankFacts
  <2>3. QED
    BY <2>1, <2>2, TableFacts DEF RanksOK, InitialState
<1>4. LastRound
  BY <1>2, TableFacts DEF LastRound, InitialState
<1>5. InPlay
  BY DEF Init, InPlay
<1>6. QED
  BY <1>1, <1>3, <1>4, <1>5 DEF RInv

\* The facts about the step of a turn that the lemmas below share.
LEMMA TurnTaken ==
  ASSUME RInv, ApplyAction, NEW i \in Players
  PROVE  /\ TypeOK /\ shuffled' = shuffled /\ pc = "apply" /\ pc' = "loop"
         /\ shuffled \in Decks /\ shuffled \in [Orders -> Ids]
         /\ currentPlayerIndex \in Players /\ performAction \in PerformActions
         /\ currentPlayerIndex' = NextPlayerIndex(currentPlayerIndex)
         /\ games[i] \in State /\ Held(games[i]) /\ Accounted(games[i]) /\ RanksOK(games[i])
         /\ performAction.type = "CLUE" => games[i].clue_tokens > 0
         /\ performAction.type # "CLUE"
              => performAction.target \in games[i].hands[currentPlayerIndex]
         /\ games'[i] = Advance(i, performAction, currentPlayerIndex)
<1>1. /\ pc = "apply" /\ pc' = "loop" /\ shuffled' = shuffled
      /\ currentPlayerIndex' = NextPlayerIndex(currentPlayerIndex)
      /\ games'[i] = Advance(i, performAction, currentPlayerIndex)
  BY DEF ApplyAction
<1>2. IInv /\ TypeOK /\ shuffled \in Decks /\ shuffled \in [Orders -> Ids]
  BY DEF RInv, IInv, Decks
<1>3. /\ games[i] \in State /\ currentPlayerIndex \in Players
      /\ Held(games[i]) /\ Accounted(games[i]) /\ RanksOK(games[i])
  BY <1>2 DEF RInv, IInv, TypeOK, HandsOK, AllAccounted, AllRanks
<1>4. /\ performAction \in PerformActions
      /\ performAction.type = "CLUE" => games[i].clue_tokens > 0
      /\ performAction.type # "CLUE"
           => performAction.target \in games[i].hands[currentPlayerIndex]
  BY <1>1, <1>2 DEF IInv, PerformOK, CopiesAgree, SameTable, SameCards
<1>5. QED
  BY <1>1, <1>2, <1>3, <1>4

\* A card is dealt to player p in the copy at seat i: nothing public but the cards changes.
LEMMA DrawStep ==
  ASSUME RInv, DealCard
  PROVE  \E i, p \in Players :
           LET order == games[i].cardOrder + 1
               new   == games'[i]
           IN  /\ games[i] \in State /\ order \in Orders
               /\ p * HandSize <= order /\ order < (p + 1) * HandSize
               /\ \A j \in Players \ {i} : games'[j] = games[j]
               /\ new.hands = With(games[i].hands, p, order)
               /\ new.cardOrder = order
               /\ new.clue_tokens = games[i].clue_tokens
               /\ new.strikes = games[i].strikes
               /\ new.play_stacks = games[i].play_stacks
               /\ new.discard_stacks = games[i].discard_stacks
               /\ new.max_ranks = games[i].max_ranks
               /\ new.endgameTurns = games[i].endgameTurns
               /\ games[i].cardOrder + 1 < NumPlayers * HandSize
<1>1. PICK i \in Players, p \in Players :
        LET order == games[i].cardOrder + 1
        IN  /\ p * HandSize <= order /\ order < (p + 1) * HandSize
            /\ games' = [games EXCEPT ![i] = HandleDraw(games[i], p, order, SeenBy(i, p, order))]
  BY DEF DealCard
<1> DEFINE order == games[i].cardOrder + 1
           new   == games'[i]
<1>2. /\ games \in [Players -> State] /\ games[i] \in State /\ shuffled \in [Orders -> Ids]
      /\ games[i].cardOrder \in Int
  <2>1. TypeOK
    BY DEF RInv, IInv
  <2>2. games \in [Players -> State] /\ shuffled \in [Orders -> Ids]
    BY <2>1 DEF TypeOK
  <2>3. games[i] \in State
    BY <2>2
  <2>4. games[i].cardOrder \in Orders \cup {-1}
    BY <2>3 DEF State
  <2>5. games[i].cardOrder \in Int
    BY <2>4 DEF Orders
  <2>6. QED
    BY <2>2, <2>3, <2>5
<1>3. order < NumPlayers * HandSize
  <2>1. (p + 1) * HandSize <= NumPlayers * HandSize
    BY Blocks
  <2>2. (p + 1) * HandSize \in Int /\ NumPlayers * HandSize \in Int
    BY TableFacts DEF Players
  <2>3. QED
    BY <1>1, <1>2, <2>1, <2>2
<1>4. order < DeckSize - 1
  <2>1. NumPlayers * HandSize \in Int
    BY TableFacts
  <2>2. QED
    BY <1>2, <1>3, <2>1, TableFacts
<1>5. order \in Orders
  <2>1. games[i].cardOrder + 1 < DeckSize
    BY <1>2, <1>4, TableFacts
  <2>2. QED
    BY <1>2, <2>1, NextOrder
<1>6. SeenBy(i, p, order) \in Ids \cup {NoId}
  BY <1>2, <1>5 DEF SeenBy
<1>7. new = HandleDraw(games[i], p, order, SeenBy(i, p, order))
  BY <1>1, <1>2
<1>8. games[i].cardsLeft # 1
  <2>1. games[i].cardsLeft = DeckSize - 1 - games[i].cardOrder
    BY DEF RInv, IInv, Counted
  <2>2. QED
    BY <1>2, <1>4, <2>1, TableFacts
<1>9. \A j \in Players \ {i} : games'[j] = games[j]
  BY <1>1, <1>2
<1> HIDE DEF order, new
<1>10. /\ new.hands = With(games[i].hands, p, order)
       /\ new.cardOrder = order
       /\ new.clue_tokens = games[i].clue_tokens
       /\ new.strikes = games[i].strikes
       /\ new.play_stacks = games[i].play_stacks
       /\ new.discard_stacks = games[i].discard_stacks
       /\ new.max_ranks = games[i].max_ranks
       /\ new.endgameTurns = games[i].endgameTurns
  BY <1>2, <1>5, <1>6, <1>7, <1>8, DrawFields
<1>11. QED
  BY <1>1, <1>2, <1>3, <1>5, <1>9, <1>10 DEF order, new

\* Every step keeps the ranks right.
LEMMA StepRanks ==
  ASSUME RInv, [Next]_vars
  PROVE  AllRanks'
<1> SUFFICES ASSUME NEW i \in Players PROVE RanksOK(games'[i])
  BY DEF AllRanks
<1>1. RanksOK(games[i]) /\ games[i] \in State /\ games \in [Players -> State]
  BY DEF RInv, AllRanks, IInv, TypeOK
<1>2. ASSUME NEW new, new.play_stacks = games[i].play_stacks,
             new.discard_stacks = games[i].discard_stacks, new.max_ranks = games[i].max_ranks
      PROVE  RanksOK(new)
  BY <1>1, <1>2 DEF RanksOK
<1>3. CASE DealCard
  <2>1. PICK j \in Players :
          /\ \A k \in Players \ {j} : games'[k] = games[k]
          /\ games'[j].play_stacks = games[j].play_stacks
          /\ games'[j].discard_stacks = games[j].discard_stacks
          /\ games'[j].max_ranks = games[j].max_ranks
    BY <1>3, DrawStep
  <2>2. QED
    BY <1>1, <1>2, <2>1
<1>4. CASE NextTurn
  <2>1. turn \in Nat /\ currentPlayerIndex \in Players
    BY DEF RInv, IInv, TypeOK
  <2>2. games'[i] = games[i] \/ games'[i] = HandleTurn(games[i], turn, currentPlayerIndex)
    BY <1>1, <1>4 DEF NextTurn
  <2>3. SameTable(HandleTurn(games[i], turn, currentPlayerIndex), games[i])
    BY <1>1, <2>1, TurnFields
  <2>4. QED
    BY <1>1, <1>2, <2>2, <2>3 DEF SameTable
<1>5. CASE ApplyAction
  <2> DEFINE acted == Acted(games[i], performAction, currentPlayerIndex)
  <2>1. RanksOK(acted)
    BY <1>5, TurnTaken, ActedRanks
  <2>2. /\ games'[i].play_stacks = acted.play_stacks
        /\ games'[i].discard_stacks = acted.discard_stacks
        /\ games'[i].max_ranks = acted.max_ranks
    BY <1>5, TurnTaken, AdvanceFields
  <2>3. QED
    BY <2>1, <2>2 DEF RanksOK
<1>6. CASE StartLoop \/ TakeAction \/ EndGame \/ Throw \/ Finished \/ UNCHANGED vars
  <2>1. games' = games
    BY <1>6 DEF StartLoop, TakeAction, EndGame, Throw, Finished, vars
  <2>2. QED
    BY <1>1, <2>1
<1>7. QED
  BY <1>3, <1>4, <1>5, <1>6 DEF Next, Step

\* The countdown starts with the last card drawn, and not before.
LEMMA StepLastRound ==
  ASSUME RInv, [Next]_vars
  PROVE  LastRound'
<1>0. 0 \in Players /\ games[0] \in State /\ games \in [Players -> State] /\ LastRound
  BY TableFacts DEF RInv, IInv, TypeOK
<1>1. games[0].cardOrder \in Int /\ games[0].endgameTurns \in Int
  BY <1>0, TableFacts DEF State, Orders
<1>2. CASE DealCard
  <2>1. PICK j \in Players :
          /\ \A k \in Players \ {j} : games'[k] = games[k]
          /\ games'[j].cardOrder = games[j].cardOrder + 1
          /\ games'[j].endgameTurns = games[j].endgameTurns
          /\ games[j].cardOrder + 1 < NumPlayers * HandSize
    BY <1>2, DrawStep
  <2>2. CASE j = 0
    <3>1. NumPlayers * HandSize \in Int /\ NumPlayers * HandSize < DeckSize /\ DeckSize \in Int
      BY TableFacts
    <3>2. QED
      BY <1>0, <1>1, <2>1, <2>2, <3>1 DEF LastRound
  <2>3. CASE j # 0
    BY <1>0, <2>1, <2>3 DEF LastRound
  <2>4. QED
    BY <2>2, <2>3
<1>3. CASE NextTurn
  <2>1. turn \in Nat /\ currentPlayerIndex \in Players
    BY DEF RInv, IInv, TypeOK
  <2>2. games'[0] = games[0] \/ games'[0] = HandleTurn(games[0], turn, currentPlayerIndex)
    BY <1>0, <1>3 DEF NextTurn
  <2>3. /\ HandleTurn(games[0], turn, currentPlayerIndex).cardOrder = games[0].cardOrder
        /\ HandleTurn(games[0], turn, currentPlayerIndex).endgameTurns = games[0].endgameTurns
    BY <1>0, <2>1, TurnFields DEF SameTable
  <2>4. QED
    BY <1>0, <2>2, <2>3 DEF LastRound
<1>4. CASE ApplyAction
  <2> DEFINE st    == games[0]
             acted == Acted(st, performAction, currentPlayerIndex)
             order == st.cardOrder + 1
  <2>1. acted.endgameTurns = CountDown(st.endgameTurns)
    BY <1>0, <1>4, TurnTaken, ActedTable
  <2>2. st.endgameTurns # 0
    <3>1. pc = "apply"
      BY <1>4 DEF ApplyAction
    <3>2. QED
      BY <3>1 DEF RInv, InPlay, Continue
  <2>3. acted.endgameTurns = -1 <=> st.endgameTurns = -1
    BY <1>1, <2>1, <2>2 DEF CountDown
  <2>4. CASE Draws(acted, performAction, order)
    <3>1. /\ games'[0].cardOrder = order
          /\ games'[0].endgameTurns = IF st.cardsLeft = 1 THEN NumPlayers ELSE acted.endgameTurns
      BY <1>0, <1>4, <2>4, TurnTaken, AdvanceFields
    <3>2. st.cardsLeft = DeckSize - 1 - st.cardOrder
      BY <1>0 DEF RInv, IInv, Counted
    <3>3. order < DeckSize
      BY <2>4 DEF Draws
    <3>4. st.cardsLeft = 1 <=> ~(order + 1 < DeckSize)
      BY <1>1, <3>2, <3>3, TableFacts
    <3>5. acted.endgameTurns = -1
      BY <1>0, <2>3, <3>3 DEF LastRound
    <3>6. QED
      BY <3>1, <3>4, <3>5, TableFacts DEF LastRound
  <2>5. CASE ~Draws(acted, performAction, order)
    <3>1. games'[0].cardOrder = st.cardOrder /\ games'[0].endgameTurns = acted.endgameTurns
      BY <1>0, <1>4, <2>5, TurnTaken, AdvanceFields
    <3>2. QED
      BY <1>0, <2>3, <3>1 DEF LastRound
  <2>6. QED
    BY <2>4, <2>5
<1>5. CASE StartLoop \/ TakeAction \/ EndGame \/ Throw \/ Finished \/ UNCHANGED vars
  <2>1. games' = games
    BY <1>5 DEF StartLoop, TakeAction, EndGame, Throw, Finished, vars
  <2>2. QED
    BY <1>0, <2>1 DEF LastRound
<1>6. QED
  BY <1>2, <1>3, <1>4, <1>5 DEF Next, Step

\* Between the test of the loop condition and the turn nothing it reads changes.
LEMMA StepInPlay ==
  ASSUME RInv, [Next]_vars
  PROVE  InPlay'
<1>1. CASE NextTurn
  <2>1. /\ turn \in Nat /\ currentPlayerIndex \in Players /\ Continue
        /\ 0 \in Players /\ games[0] \in State /\ games \in [Players -> State]
    BY <1>1, TableFacts DEF RInv, IInv, TypeOK, NextTurn
  <2>2. games'[0] = games[0] \/ games'[0] = HandleTurn(games[0], turn, currentPlayerIndex)
    BY <1>1, <2>1 DEF NextTurn
  <2>3. SameTable(HandleTurn(games[0], turn, currentPlayerIndex), games[0])
    BY <2>1, TurnFields
  <2>4. QED
    BY <2>1, <2>2, <2>3 DEF InPlay, Continue, SameTable, Score, MaxScore
<1>2. CASE DealCard \/ StartLoop \/ ApplyAction \/ EndGame \/ Throw
  BY <1>2 DEF DealCard, StartLoop, ApplyAction, EndGame, Throw, InPlay
<1>3. CASE TakeAction \/ Finished \/ UNCHANGED vars
  <2>1. games' = games /\ InPlay /\ (pc' \in {"act", "apply"} => pc \in {"act", "apply"})
    BY <1>3 DEF TakeAction, Finished, vars, RInv
  <2>2. QED
    BY <2>1 DEF InPlay, Continue
<1>4. QED
  BY <1>1, <1>2, <1>3 DEF Next, Step

\* RInv is inductive.
LEMMA StepRInv == RInv /\ [Next]_vars => RInv'
<1> SUFFICES ASSUME RInv, [Next]_vars PROVE RInv'
  OBVIOUS
<1>1. IInv' /\ AllAccounted'
  BY StepIInv, StepAccount DEF RInv
<1>2. shuffled' = shuffled
  BY DEF Next, Step, DealCard, StartLoop, NextTurn, TakeAction, ApplyAction, EndGame, Throw,
         Finished, vars
<1>3. AllRanks' /\ LastRound' /\ InPlay'
  BY StepRanks, StepLastRound, StepInPlay
<1>4. (shuffled \in Decks)'
  BY <1>2 DEF RInv, Decks
<1>5. QED
  BY <1>1, <1>3, <1>4 DEF RInv

\* The bookkeeping of ranks, the countdown and the loop condition belongs together.
THEOREM RulesInvariance == Spec => []RInv
<1>1. Init => RInv
  BY InitRInv
<1>2. RInv /\ [Next]_vars => RInv'
  BY StepRInv
<1>3. QED
  BY <1>1, <1>2, PTL DEF Spec

-----------------------------------------------------------------------------
(* isCritical *)

\* A step that discards a copy of id lowers the maximum score exactly if it was critical.
LEMMA StepCritical ==
  ASSUME RInv, [Next]_vars, NEW i \in Players, NEW id \in Ids,
         games'[i].discard_stacks[id] > games[i].discard_stacks[id]
  PROVE  MaxScore(games'[i]) < MaxScore(games[i]) <=> IsCritical(games[i], id)
<1>1. /\ games[i] \in State /\ games \in [Players -> State]
      /\ games[i].discard_stacks[id] \in Nat
  BY DEF RInv, IInv, TypeOK, State
<1>2. games'[i].discard_stacks # games[i].discard_stacks
  BY <1>1
<1>3. CASE ApplyAction
  <2> DEFINE acted == Acted(games[i], performAction, currentPlayerIndex)
             x     == shuffled[performAction.target]
  <2>1. /\ games'[i].discard_stacks = acted.discard_stacks
        /\ games'[i].max_ranks = acted.max_ranks
        /\ acted \in State
    BY <1>3, TurnTaken, AdvanceFields
  <2>2. Accounted(acted)
    BY <1>3, TurnTaken, ActedAccount
  <2>3. \A y \in Ids : BaseCount(acted, y) <= Copies[y]
    BY <1>3, <2>1, <2>2, TurnTaken, AtMostCopies
  <2>4. performAction.type \in {"CLUE", "DISCARD", "PLAY"}
    BY <1>3, TurnTaken DEF PerformActions
  <2>5. /\ performAction.type # "CLUE"
        /\ performAction.type = "PLAY" => ~IsPlayable(games[i], x)
    BY <1>2, <1>3, <2>1, <2>4, TurnTaken, ActedFields, ActedTable
  <2>6. x \in Ids
    BY <1>3, <2>5, TurnTaken, ActedFields
  <2>7. /\ acted.play_stacks = games[i].play_stacks
        /\ acted.discard_stacks = Gone(games[i].discard_stacks, x)
        /\ acted.max_ranks = Lowered(games[i].max_ranks, Gone(games[i].discard_stacks, x), x)
    BY <1>3, <2>4, <2>5, TurnTaken, ActedTable
  <2>8. x = id
    BY <1>1, <2>1, <2>6, <2>7 DEF Gone, State
  <2>9. MaxScore(acted) < MaxScore(games[i]) <=> IsCritical(games[i], id)
    BY <1>3, <2>1, <2>3, <2>6, <2>7, <2>8, TurnTaken, DiscardCost
  <2>10. QED
    BY <2>1, <2>9 DEF MaxScore
<1>4. CASE DealCard
  <2>1. PICK j \in Players :
          /\ \A k \in Players \ {j} : games'[k] = games[k]
          /\ games'[j].discard_stacks = games[j].discard_stacks
    BY <1>4, DrawStep
  <2>2. QED
    BY <1>2, <2>1
<1>5. CASE NextTurn
  <2>1. turn \in Nat /\ currentPlayerIndex \in Players
    BY DEF RInv, IInv, TypeOK
  <2>2. games'[i] = games[i] \/ games'[i] = HandleTurn(games[i], turn, currentPlayerIndex)
    BY <1>1, <1>5 DEF NextTurn
  <2>3. QED
    BY <1>1, <1>2, <2>1, <2>2, TurnFields DEF SameTable
<1>6. CASE StartLoop \/ TakeAction \/ EndGame \/ Throw \/ Finished \/ UNCHANGED vars
  BY <1>2, <1>6 DEF StartLoop, TakeAction, EndGame, Throw, Finished, vars
<1>7. QED
  BY <1>3, <1>4, <1>5, <1>6 DEF Next, Step

\* isCritical says exactly of which cards a discard or a misplay lowers the best score
\* still possible, through maxRanks (State.isCritical, onDiscard).
THEOREM CriticalIsCostly == Spec => CriticalDiscardCosts
<1>1. RInv /\ [Next]_vars
        => [\A i \in Players, id \in Ids :
              games'[i].discard_stacks[id] > games[i].discard_stacks[id]
                => (MaxScore(games'[i]) < MaxScore(games[i]) <=> IsCritical(games[i], id))]_vars
  BY StepCritical
<1>2. QED
  BY <1>1, RulesInvariance, PTL DEF Spec, CriticalDiscardCosts

-----------------------------------------------------------------------------
(* The last round *)

\* Remainders of the seats around the table.
LEMMA Around ==
  ASSUME NEW a \in Nat
  PROVE  /\ a < NumPlayers => a % NumPlayers = a
         /\ NumPlayers <= a /\ a < 2 * NumPlayers => a % NumPlayers = a - NumPlayers
<1>1. NumPlayers \in Nat /\ NumPlayers > 1
  BY TableFacts
<1>2. ASSUME a < NumPlayers PROVE a % NumPlayers = a
  BY <1>1, <1>2, Z3
<1>3. ASSUME NumPlayers <= a, a < 2 * NumPlayers PROVE a % NumPlayers = a - NumPlayers
  BY <1>1, <1>3, Z3
<1>4. QED
  BY <1>2, <1>3

\* The players who still have a turn when player c is next and the countdown says e.
StillToMove(c, e) == IF e = -1 THEN {} ELSE {(c + k) % NumPlayers : k \in 0 .. e - 1}

\* A full round is every player, and the player on turn is the first of a round.
LEMMA FullRound ==
  ASSUME NEW c \in Players
  PROVE  /\ StillToMove(c, NumPlayers) = Players
         /\ \A e \in 1 .. NumPlayers : c \in StillToMove(c, e)
<1>1. NumPlayers \in Nat /\ NumPlayers > 1 /\ c \in Nat /\ c < NumPlayers
  BY TableFacts DEF Players
<1>2. ASSUME NEW k \in 0 .. NumPlayers - 1
      PROVE  (c + k) % NumPlayers \in Players
  <2>1. c + k \in Nat /\ c + k < 2 * NumPlayers
    BY <1>1
  <2>2. QED
    BY <1>1, <2>1, Around DEF Players
<1>3. ASSUME NEW p \in Players
      PROVE  \E k \in 0 .. NumPlayers - 1 : p = (c + k) % NumPlayers
  <2>1. p \in Nat /\ p < NumPlayers
    BY <1>1 DEF Players
  <2>2. CASE c <= p
    <3>1. p - c \in 0 .. NumPlayers - 1 /\ c + (p - c) = p
      BY <1>1, <2>1, <2>2
    <3>2. QED
      BY <2>1, <3>1, Around
  <2>3. CASE p < c
    <3>1. /\ p + NumPlayers - c \in 0 .. NumPlayers - 1
          /\ c + (p + NumPlayers - c) = p + NumPlayers
          /\ p + NumPlayers \in Nat /\ NumPlayers <= p + NumPlayers
          /\ p + NumPlayers < 2 * NumPlayers
          /\ (p + NumPlayers) - NumPlayers = p
      BY <1>1, <2>1, <2>3
    <3>2. (p + NumPlayers) % NumPlayers = p
      BY <3>1, Around
    <3>3. QED
      BY <3>1, <3>2
  <2>4. QED
    BY <1>1, <2>1, <2>2, <2>3
<1>4. StillToMove(c, NumPlayers) = Players
  <2>1. NumPlayers # -1
    BY <1>1
  <2>2. StillToMove(c, NumPlayers) = {(c + k) % NumPlayers : k \in 0 .. NumPlayers - 1}
    BY <2>1 DEF StillToMove
  <2>3. QED
    BY <1>2, <1>3, <2>2
<1>5. ASSUME NEW e \in 1 .. NumPlayers PROVE c \in StillToMove(c, e)
  <2>1. (c + 0) % NumPlayers = c /\ 0 \in 0 .. e - 1 /\ e # -1
    BY <1>1, Around
  <2>2. QED
    BY <2>1 DEF StillToMove
<1>6. QED
  BY <1>4, <1>5

\* When the countdown goes down and the turn passes, the player who moved is done.
LEMMA OneFewer ==
  ASSUME NEW c \in Players, NEW e \in -1 .. NumPlayers, e # 0
  PROVE  StillToMove(NextPlayerIndex(c), CountDown(e)) = StillToMove(c, e) \ {c}
<1>1. NumPlayers \in Nat /\ NumPlayers > 1 /\ c \in Nat /\ c < NumPlayers /\ e \in Int
  BY TableFacts DEF Players
<1>2. CASE e = -1
  BY <1>2 DEF StillToMove, CountDown
<1>3. CASE e # -1
  <2> DEFINE d == NextPlayerIndex(c)
  <2>1. e \in 1 .. NumPlayers /\ CountDown(e) = e - 1 /\ e - 1 # -1
    BY <1>1, <1>3 DEF CountDown
  <2>2. /\ d \in Nat
        /\ \/ c + 1 < NumPlayers /\ d = c + 1
           \/ c + 1 = NumPlayers /\ d = 0
    <3>1. c + 1 \in Nat /\ c + 1 < 2 * NumPlayers
      BY <1>1
    <3>2. c + 1 < NumPlayers => d = c + 1
      BY <3>1, Around DEF NextPlayerIndex
    <3>3. ~(c + 1 < NumPlayers) => d = (c + 1) - NumPlayers
      BY <1>1, <3>1, Around DEF NextPlayerIndex
    <3>4. QED
      BY <1>1, <3>1, <3>2, <3>3
  <2>3. ASSUME NEW k \in 0 .. e - 2
        PROVE  (d + k) % NumPlayers = (c + (k + 1)) % NumPlayers
    <3>1. k \in Nat /\ k + 1 < NumPlayers
      BY <1>1, <2>1
    <3>2. CASE d = c + 1
      <4>1. d + k = c + (k + 1)
        BY <1>1, <3>1, <3>2
      <4>2. QED
        BY <4>1
    <3>3. CASE c + 1 = NumPlayers /\ d = 0
      <4>1. /\ d + k = k /\ k < NumPlayers /\ c + (k + 1) \in Nat
            /\ NumPlayers <= c + (k + 1) /\ c + (k + 1) < 2 * NumPlayers
            /\ (c + (k + 1)) - NumPlayers = k
        BY <1>1, <3>1, <3>3
      <4>2. k % NumPlayers = k /\ (c + (k + 1)) % NumPlayers = k
        BY <3>1, <4>1, Around
      <4>3. QED
        BY <4>1, <4>2
    <3>4. QED
      BY <2>2, <3>2, <3>3
  <2>4. ASSUME NEW k \in 1 .. e - 1
        PROVE  (c + k) % NumPlayers # c
    <3>1. k \in Nat /\ k >= 1 /\ k < NumPlayers /\ c + k \in Nat /\ c + k < 2 * NumPlayers
      BY <1>1, <2>1
    <3>2. CASE c + k < NumPlayers
      BY <1>1, <3>1, <3>2, Around
    <3>3. CASE ~(c + k < NumPlayers)
      <4>1. (c + k) % NumPlayers = (c + k) - NumPlayers
        BY <1>1, <3>1, <3>3, Around
      <4>2. QED
        BY <1>1, <3>1, <4>1
    <3>4. QED
      BY <3>2, <3>3
  <2>5. (c + 0) % NumPlayers = c
    BY <1>1, Around
  <2>6. StillToMove(d, e - 1) = {(c + k) % NumPlayers : k \in 1 .. e - 1}
    <3>1. StillToMove(d, e - 1) = {(d + k) % NumPlayers : k \in 0 .. e - 2}
      <4>1. (e - 1) - 1 = e - 2
        BY <1>1
      <4>2. QED
        BY <2>1, <4>1 DEF StillToMove
    <3>2. \A k \in 0 .. e - 2 : k + 1 \in 1 .. e - 1
      BY <1>1
    <3>3. \A k \in 1 .. e - 1 : k - 1 \in 0 .. e - 2 /\ k = (k - 1) + 1
      BY <1>1
    <3>4. \A k \in 1 .. e - 1 : (c + k) % NumPlayers = (d + (k - 1)) % NumPlayers
      BY <2>3, <3>3
    <3> HIDE DEF d
    <3>5. QED
      BY <2>3, <3>1, <3>2, <3>3, <3>4
  <2>7. StillToMove(c, e) = {(c + k) % NumPlayers : k \in 1 .. e - 1} \cup {c}
    <3>1. StillToMove(c, e) = {(c + k) % NumPlayers : k \in 0 .. e - 1}
      BY <1>3 DEF StillToMove
    <3>2. \A k \in 0 .. e - 1 : k = 0 \/ k \in 1 .. e - 1
      BY <1>1
    <3>3. 0 \in 0 .. e - 1 /\ \A k \in 1 .. e - 1 : k \in 0 .. e - 1
      BY <1>1, <2>1
    <3>4. QED
      BY <2>5, <3>1, <3>2, <3>3
  <2>8. QED
    BY <2>1, <2>4, <2>6, <2>7
<1>4. QED
  BY <1>2, <1>3

-----------------------------------------------------------------------------
(* One step of the loop is one step of the rules *)

\* max_ranks is the highest rank the rules can still reach.
LEMMA ReachableRank ==
  ASSUME RInv, NEW s \in Suits
  PROVE  Rules!Reachable(s) = games[0].max_ranks[s]
<1> DEFINE st == games[0]
           m  == st.max_ranks[s]
           R  == {r \in 0 .. MaxRank :
                    \A k \in 1 .. r : st.discard_stacks[<<s, k>>] < Copies[<<s, k>>]}
<1>1. st \in State /\ RanksOK(st)
  BY TableFacts DEF RInv, AllRanks, IInv, TypeOK
<1>2. m \in 0 .. MaxRank /\ MaxRank \in Nat
  BY <1>1, RankFacts
<1>3. m \in R
  BY <1>1, <1>2 DEF RanksOK
<1>4. ASSUME NEW r \in R PROVE r <= m
  <2> SUFFICES ASSUME m < r PROVE FALSE
    BY <1>2
  <2>1. m < MaxRank /\ m + 1 \in 1 .. r /\ <<s, m + 1>> \in Ids /\ m + 1 \in 1 .. MaxRank
    BY <1>1, <1>2, RankFacts
  <2>2. st.discard_stacks[<<s, m + 1>>] = Copies[<<s, m + 1>>]
    BY <1>1, <2>1 DEF RanksOK
  <2>3. Copies[<<s, m + 1>>] \in Nat
    BY <1>1, <2>1, RankFacts
  <2>4. st.discard_stacks[<<s, m + 1>>] < Copies[<<s, m + 1>>]
    BY <2>1
  <2>5. QED
    BY <2>2, <2>3, <2>4
<1>5. \A x \in R : x \in Int
  BY <1>2
<1>6. Rules!Reachable(s) = CHOOSE x \in R : \A y \in R : x >= y
  BY DEF Rules!Reachable, Rules!Max
<1> HIDE DEF R, m
<1>7. \A x \in R : (\A y \in R : x >= y) <=> x = m
  BY <1>3, <1>4, <1>5
<1>8. QED
  BY <1>3, <1>6, <1>7 DEF m

\* While the loop goes on the game is not over.
LEMMA NotOver ==
  ASSUME RInv, pc = "apply"
  PROVE  ~Rules!Over
<1> DEFINE st == games[0]
<1>1. Continue /\ LastRound
  BY DEF RInv, InPlay
<1>2. st \in State /\ currentPlayerIndex \in Players
  BY TableFacts DEF RInv, IInv, TypeOK
<1>3. ~\A s \in Suits : st.play_stacks[s] = Rules!Reachable(s)
  <2> SUFFICES ASSUME \A s \in Suits : st.play_stacks[s] = Rules!Reachable(s)
               PROVE  FALSE
    OBVIOUS
  <2>1. \A s \in Suits : st.play_stacks[s] = st.max_ranks[s]
    BY ReachableRank
  <2>2. st.play_stacks = st.max_ranks
    BY <1>2, <2>1, ScoreFacts
  <2>3. QED
    BY <1>1, <2>2 DEF Continue, Score, MaxScore
<1>4. ASSUME st.cardOrder + 1 = DeckSize
      PROVE  StillToMove(currentPlayerIndex, st.endgameTurns) # {}
  <2>1. st.endgameTurns # -1 /\ st.endgameTurns # 0 /\ st.endgameTurns \in -1 .. NumPlayers
    BY <1>1, <1>2, <1>4, TableFacts DEF LastRound, Continue, State
  <2>2. st.endgameTurns \in 1 .. NumPlayers
    BY <2>1, TableFacts
  <2>3. QED
    BY <1>2, <2>2, FullRound
<1>5. QED
  BY <1>1, <1>3, <1>4 DEF Rules!Over, Continue, StillToMove

\* The mover loses its card and draws as the rules say, whatever ends the game.
LEMMA ReplaceStep ==
  ASSUME RInv, ApplyAction, performAction.type # "CLUE"
  PROVE  LET acted == Acted(games[0], performAction, currentPlayerIndex)
             over  == acted.strikes = MaxStrikes \/ Perfect(acted)
         IN  /\ over  => Rules!Replace(performAction.target, TRUE)
             /\ ~over => Rules!Replace(performAction.target, FALSE)
<1> DEFINE st    == games[0]
           new   == games'[0]
           p     == currentPlayerIndex
           o     == performAction.target
           acted == Acted(st, performAction, p)
           order == st.cardOrder + 1
           over  == acted.strikes = MaxStrikes \/ Perfect(acted)
<1>1. /\ 0 \in Players /\ p \in Players /\ st \in State
      /\ p' = NextPlayerIndex(p)
      /\ LastRound
  BY TableFacts, TurnTaken DEF RInv
<1>2. /\ acted.hands = Without(st.hands, p, o)
      /\ acted.endgameTurns = CountDown(st.endgameTurns)
  BY <1>1, TurnTaken, ActedFields, ActedTable
<1>3. st.endgameTurns # 0
  <2>1. pc = "apply"
    BY DEF ApplyAction
  <2>2. QED
    BY <2>1 DEF RInv, InPlay, Continue
<1>4. /\ st.endgameTurns \in -1 .. NumPlayers
      /\ st.hands \in [Players -> SUBSET Orders]
      /\ st.cardOrder \in Int
      /\ DeckSize \in Int
  BY <1>1, TableFacts DEF State, Orders
<1>5. p' \in Players
  BY <1>1, TableFacts DEF NextPlayerIndex, Players
<1>6. Draws(acted, performAction, order) <=> order < DeckSize /\ ~over
  BY DEF Draws
<1>7. CASE order < DeckSize /\ ~over
  <2>1. /\ new.hands = With(acted.hands, p, order)
        /\ new.cardOrder = order
        /\ new.endgameTurns = IF st.cardsLeft = 1 THEN NumPlayers ELSE acted.endgameTurns
    BY <1>1, <1>6, <1>7, TurnTaken, AdvanceFields
  <2>2. new.hands = [st.hands EXCEPT ![p] = (@ \ {o}) \cup {order}]
    BY <1>1, <1>2, <1>4, <2>1 DEF With, Without
  <2>3. st.cardsLeft = DeckSize - 1 - st.cardOrder
    BY <1>1 DEF RInv, IInv, Counted
  <2>4. st.cardsLeft = 1 <=> order + 1 = DeckSize
    BY <1>4, <2>3
  <2>5. st.endgameTurns = -1 /\ acted.endgameTurns = -1
    BY <1>1, <1>2, <1>7 DEF LastRound, CountDown
  <2>6. StillToMove(p', new.endgameTurns) = IF order + 1 = DeckSize THEN Players ELSE {}
    BY <1>5, <2>1, <2>4, <2>5, FullRound DEF StillToMove
  <2>7. QED
    BY <1>7, <2>1, <2>2, <2>6 DEF Rules!Replace, Rules!Seats, Players, StillToMove
<1>8. CASE ~(order < DeckSize /\ ~over)
  <2>1. /\ new.hands = acted.hands
        /\ new.cardOrder = st.cardOrder
        /\ new.endgameTurns = CountDown(st.endgameTurns)
    BY <1>1, <1>2, <1>6, <1>8, TurnTaken, AdvanceFields
  <2>2. new.hands = [st.hands EXCEPT ![p] = @ \ {o}]
    BY <1>2, <2>1 DEF Without
  <2>3. StillToMove(p', new.endgameTurns) = StillToMove(p, st.endgameTurns) \ {p}
    BY <1>1, <1>3, <1>4, <2>1, OneFewer
  <2>4. QED
    BY <1>8, <2>1, <2>2, <2>3 DEF Rules!Replace, StillToMove
<1>9. QED
  BY <1>7, <1>8

\* A turn of the loop is a clue, a discard, a play or a misplay of the rules.
LEMMA ApplyActionRules ==
  ASSUME RInv, ApplyAction
  PROVE  Rules!Next
<1> DEFINE st      == games[0]
           new     == games'[0]
           p       == currentPlayerIndex
           perform == performAction
           o       == perform.target
           id      == shuffled[o]
           acted   == Acted(st, perform, p)
<1>1. /\ 0 \in Players /\ p \in Players /\ st \in State /\ perform \in PerformActions
      /\ pc = "apply" /\ pc' = "loop" /\ shuffled' = shuffled /\ shuffled \in [Orders -> Ids]
      /\ p' = NextPlayerIndex(p)
      /\ RanksOK(st)
      /\ perform.type = "CLUE" => st.clue_tokens > 0
      /\ perform.type # "CLUE" => o \in st.hands[p]
  BY TableFacts, TurnTaken
<1>2. Continue
  BY <1>1 DEF RInv, InPlay
<1>3. Rules!PassTurn
  BY <1>1, NotOver DEF Rules!PassTurn, NextPlayerIndex
<1>4. /\ acted \in State
      /\ new.clue_tokens = acted.clue_tokens
      /\ new.strikes = acted.strikes
      /\ new.play_stacks = acted.play_stacks
      /\ new.discard_stacks = acted.discard_stacks
  BY <1>1, TurnTaken, AdvanceFields
<1>5. ~Perfect(st) /\ st.strikes # MaxStrikes
  BY <1>1, <1>2, NotPerfectYet DEF Continue
<1>6. st.clue_tokens \in 0 .. MaxClues /\ MaxClues \in Nat
  BY <1>1, TableFacts DEF State
<1>7. Rules!Capped(st.clue_tokens + 1) = Regain(st.clue_tokens)
  BY <1>6 DEF Rules!Capped, Regain
<1>8. perform.type \in {"CLUE", "DISCARD", "PLAY"}
  BY <1>1 DEF PerformActions
<1>9. CASE perform.type = "CLUE"
  <2>1. /\ new.clue_tokens = st.clue_tokens - 1 /\ new.strikes = st.strikes
        /\ new.play_stacks = st.play_stacks /\ new.discard_stacks = st.discard_stacks
        /\ acted.hands = st.hands
        /\ acted.endgameTurns = CountDown(st.endgameTurns)
    BY <1>1, <1>4, <1>9, ActedFields, ActedTable
  <2>2. ~Draws(acted, perform, st.cardOrder + 1)
    BY <1>9 DEF Draws
  <2>3. /\ new.hands = st.hands /\ new.cardOrder = st.cardOrder
        /\ new.endgameTurns = CountDown(st.endgameTurns)
    BY <1>1, <2>1, <2>2, TurnTaken, AdvanceFields
  <2>4. st.endgameTurns # 0 /\ st.endgameTurns \in -1 .. NumPlayers
    BY <1>1, <1>2 DEF Continue, State
  <2>5. StillToMove(p', new.endgameTurns) = StillToMove(p, st.endgameTurns) \ {p}
    BY <1>1, <2>3, <2>4, OneFewer
  <2>6. Rules!Clue
    BY <1>1, <1>3, <1>9, <2>1, <2>3, <2>5 DEF Rules!Clue, StillToMove
  <2>7. QED
    BY <2>6 DEF Rules!Next
<1>10. ASSUME perform.type # "CLUE"
       PROVE  /\ o \in Rules!Cards /\ o \in st.hands[p]
              /\ id \in Ids /\ id # NoId /\ id[1] \in Suits
  <2>1. o \in Orders /\ id \in Ids
    BY <1>1, <1>10, ActedFields
  <2>2. QED
    BY <1>1, <1>10, <2>1, IdFacts DEF Rules!Cards, Orders
<1>11. CASE perform.type = "DISCARD"
  <2>1. /\ new.clue_tokens = Regain(st.clue_tokens) /\ new.strikes = st.strikes
        /\ new.play_stacks = st.play_stacks
        /\ new.discard_stacks = Gone(st.discard_stacks, id)
        /\ acted.strikes = st.strikes /\ acted.play_stacks = st.play_stacks
    BY <1>1, <1>4, <1>11, ActedTable
  <2>2. ~(acted.strikes = MaxStrikes \/ Perfect(acted))
    BY <1>5, <2>1 DEF Perfect, Score
  <2>3. Rules!Replace(o, FALSE)
    BY <1>11, <2>2, ReplaceStep
  <2>4. new.discard_stacks = [st.discard_stacks EXCEPT ![id] = @ + 1]
    BY <1>10, <1>11, <2>1 DEF Gone
  <2>5. Rules!Discard(o)
    BY <1>3, <1>7, <1>10, <1>11, <2>1, <2>3, <2>4 DEF Rules!Discard
  <2>6. \E c \in Rules!Cards : Rules!Discard(c)
    <3>1. PICK c \in Rules!Cards : c = o
      BY <1>10, <1>11
    <3>2. Rules!Discard(c)
      BY <2>5, <3>1 DEF Rules!Discard, Rules!Replace
    <3>3. QED
      BY <3>2
  <2>7. QED
    BY <2>6 DEF Rules!Next
<1>12. CASE perform.type = "PLAY" /\ IsPlayable(st, id)
  <2>1. /\ new.clue_tokens = IF id[2] = MaxRank THEN Regain(st.clue_tokens) ELSE st.clue_tokens
        /\ new.strikes = st.strikes
        /\ new.play_stacks = Stacked(st.play_stacks, id)
        /\ new.discard_stacks = st.discard_stacks
        /\ acted.strikes = st.strikes /\ acted.play_stacks = new.play_stacks
    BY <1>1, <1>4, <1>12, ActedTable
  <2>2. (\A s \in Suits : new.play_stacks[s] = MaxRank)
          <=> acted.strikes = MaxStrikes \/ Perfect(acted)
    BY <1>4, <1>5, <2>1, PerfectIsFull
  <2>3. Rules!Replace(o, \A s \in Suits : new.play_stacks[s] = MaxRank)
    <3>1. CASE \A s \in Suits : new.play_stacks[s] = MaxRank
      BY <1>12, <2>2, <3>1, ReplaceStep DEF Rules!Replace
    <3>2. CASE ~(\A s \in Suits : new.play_stacks[s] = MaxRank)
      BY <1>12, <2>2, <3>2, ReplaceStep DEF Rules!Replace
    <3>3. QED
      BY <3>1, <3>2
  <2>4. new.play_stacks = [st.play_stacks EXCEPT ![id[1]] = id[2]]
    BY <1>10, <1>12, <2>1 DEF Stacked
  <2>5. id[2] = st.play_stacks[id[1]] + 1
    BY <1>12 DEF IsPlayable
  <2>6. Rules!Play(o)
    BY <1>3, <1>7, <1>10, <1>12, <2>1, <2>3, <2>4, <2>5 DEF Rules!Play
  <2>7. \E c \in Rules!Cards : Rules!Play(c)
    <3>1. PICK c \in Rules!Cards : c = o
      BY <1>10, <1>12
    <3>2. Rules!Play(c)
      BY <2>6, <3>1 DEF Rules!Play, Rules!Replace
    <3>3. QED
      BY <3>2
  <2>8. QED
    BY <2>7 DEF Rules!Next
<1>13. CASE perform.type = "PLAY" /\ ~IsPlayable(st, id)
  <2>1. /\ new.clue_tokens = st.clue_tokens /\ new.strikes = st.strikes + 1
        /\ new.play_stacks = st.play_stacks
        /\ new.discard_stacks = Gone(st.discard_stacks, id)
        /\ acted.strikes = new.strikes /\ acted.play_stacks = st.play_stacks
    BY <1>1, <1>4, <1>13, ActedTable
  <2>2. new.strikes = MaxStrikes <=> acted.strikes = MaxStrikes \/ Perfect(acted)
    BY <1>5, <2>1 DEF Perfect, Score
  <2>3. Rules!Replace(o, new.strikes = MaxStrikes)
    <3>1. CASE new.strikes = MaxStrikes
      BY <1>13, <2>2, <3>1, ReplaceStep DEF Rules!Replace
    <3>2. CASE ~(new.strikes = MaxStrikes)
      BY <1>13, <2>2, <3>2, ReplaceStep DEF Rules!Replace
    <3>3. QED
      BY <3>1, <3>2
  <2>4. new.discard_stacks = [st.discard_stacks EXCEPT ![id] = @ + 1]
    BY <1>10, <1>13, <2>1 DEF Gone
  <2>5. id[2] # st.play_stacks[id[1]] + 1
    BY <1>13 DEF IsPlayable
  <2>6. Rules!Misplay(o)
    BY <1>3, <1>10, <1>13, <2>1, <2>3, <2>4, <2>5 DEF Rules!Misplay
  <2>7. \E c \in Rules!Cards : Rules!Misplay(c)
    <3>1. PICK c \in Rules!Cards : c = o
      BY <1>10, <1>13
    <3>2. Rules!Misplay(c)
      BY <2>6, <3>1 DEF Rules!Misplay, Rules!Replace
    <3>3. QED
      BY <3>2
  <2>8. QED
    BY <2>7 DEF Rules!Next
<1>14. QED
  BY <1>8, <1>9, <1>11, <1>12, <1>13

\* The rules count with the same operator.
LEMMA SameCardinality == \A S : Rules!Cardinality(S) = Cardinality(S)
BY DEF Rules!Cardinality, Cardinality

\* A card dealt in the copy at seat 0 is a card dealt; in the other copies it is nothing.
LEMMA DealCardRules ==
  ASSUME RInv, DealCard
  PROVE  Rules!Next \/ UNCHANGED Rules!hvars
<1>1. PICK i \in Players, p \in Players :
        LET order == games[i].cardOrder + 1
            new   == games'[i]
        IN  /\ games[i] \in State /\ order \in Orders
            /\ p * HandSize <= order /\ order < (p + 1) * HandSize
            /\ \A j \in Players \ {i} : games'[j] = games[j]
            /\ new.hands = With(games[i].hands, p, order)
            /\ new.cardOrder = order
            /\ new.clue_tokens = games[i].clue_tokens
            /\ new.strikes = games[i].strikes
            /\ new.play_stacks = games[i].play_stacks
            /\ new.discard_stacks = games[i].discard_stacks
            /\ new.max_ranks = games[i].max_ranks
            /\ new.endgameTurns = games[i].endgameTurns
            /\ games[i].cardOrder + 1 < NumPlayers * HandSize
  BY DrawStep
<1>2. /\ pc = "deal" /\ pc' = pc /\ shuffled' = shuffled
      /\ currentPlayerIndex' = currentPlayerIndex /\ 0 \in Players
  BY TableFacts DEF DealCard
<1>3. CASE i # 0
  <2>1. games'[0] = games[0]
    BY <1>1, <1>2, <1>3
  <2>2. QED
    BY <1>2, <2>1 DEF Rules!hvars
<1>4. CASE i = 0
  <2> DEFINE st    == games[0]
             order == st.cardOrder + 1
  <2>1. st.hands[p] = {o \in Start(p) : o <= st.cardOrder}
    BY <1>2, <1>4 DEF RInv, IInv, Dealing
  <2>2. st.hands \in [Players -> SUBSET Orders] /\ st.cardOrder \in Int
    BY <1>1, <1>4, TableFacts DEF State, Orders
  <2>3. /\ p * HandSize \in Int /\ p * HandSize >= 0 /\ HandSize \in Nat
        /\ (p + 1) * HandSize = p * HandSize + HandSize
        /\ DeckSize \in Nat
    <3>1. p \in Nat
      BY DEF Players
    <3>2. QED
      BY <3>1, TableFacts
  <2>4. st.hands[p] = (p * HandSize) .. st.cardOrder
    <3>1. \A x \in Int : p * HandSize <= x /\ x <= st.cardOrder
                           => x \in Orders /\ x < (p + 1) * HandSize
      BY <1>1, <1>4, <2>2, <2>3 DEF Orders
    <3>2. \A x \in Orders : x \in Int
      BY DEF Orders
    <3>3. QED
      BY <2>1, <2>2, <2>3, <3>1, <3>2 DEF Start
  <2>5. Cardinality(st.hands[p]) < HandSize
    <3>1. Cardinality((p * HandSize) .. st.cardOrder)
            = IF p * HandSize > st.cardOrder THEN 0 ELSE st.cardOrder - p * HandSize + 1
      BY <2>2, <2>3, FS_Interval
    <3>2. QED
      BY <1>1, <1>4, <2>2, <2>3, <2>4, <3>1, TableFacts
  <2>6. games'[0].hands = [st.hands EXCEPT ![p] = @ \cup {order}]
    BY <1>1, <1>4 DEF With
  <2>7. Rules!Deal(p)
    BY <1>1, <1>2, <1>4, <2>2, <2>5, <2>6, SameCardinality DEF Rules!Deal
  <2>8. QED
    BY <2>7 DEF Rules!Next, Rules!Seats, Players
<1>5. QED
  BY <1>3, <1>4

\* The loop starts when every hand is complete.
LEMMA StartLoopRules ==
  ASSUME RInv, StartLoop
  PROVE  Rules!Begin
<1> DEFINE st == games[0]
<1>1. /\ pc = "deal" /\ pc' = "loop" /\ 0 \in Players
      /\ UNCHANGED <<shuffled, games, currentPlayerIndex>>
      /\ st.cardOrder + 1 = NumPlayers * HandSize
  BY TableFacts DEF StartLoop, Dealt
<1>2. st \in State
  BY <1>1 DEF RInv, IInv, TypeOK
<1>3. st.cardOrder \in Int
  BY <1>2, TableFacts DEF State, Orders
<1>4. ASSUME NEW p \in Players PROVE Cardinality(st.hands[p]) = HandSize
  <2>1. st.hands[p] = {o \in Start(p) : o <= st.cardOrder}
    BY <1>1 DEF RInv, IInv, Dealing
  <2>2. /\ p * HandSize \in Int /\ p * HandSize >= 0 /\ HandSize \in Nat /\ HandSize > 0
        /\ (p + 1) * HandSize = p * HandSize + HandSize
        /\ DeckSize \in Nat /\ NumPlayers * HandSize < DeckSize /\ NumPlayers * HandSize \in Int
    <3>1. p \in Nat
      BY DEF Players
    <3>2. QED
      BY <3>1, TableFacts
  <2>3. (p + 1) * HandSize <= NumPlayers * HandSize
    BY Blocks
  <2>4. st.hands[p] = (p * HandSize) .. (p * HandSize + HandSize - 1)
    <3>1. \A x \in Int : p * HandSize <= x /\ x < (p + 1) * HandSize
                           => x \in Orders /\ x <= st.cardOrder
      BY <1>1, <1>3, <2>2, <2>3 DEF Orders
    <3>2. \A x \in Orders : x \in Int
      BY DEF Orders
    <3>3. QED
      BY <2>1, <2>2, <3>1, <3>2 DEF Start
  <2>5. QED
    BY <2>2, <2>4, FS_Interval
<1>5. QED
  BY <1>1, <1>4, SameCardinality DEF Rules!Begin, Rules!Seats, Players

\* Whose turn it is, what is decided and how the loop ends are no steps of the rules.
LEMMA OtherRules ==
  ASSUME RInv, NextTurn \/ TakeAction \/ EndGame \/ Throw \/ Finished \/ UNCHANGED vars
  PROVE  UNCHANGED Rules!hvars
<1>1. CASE NextTurn
  <2>1. /\ turn \in Nat /\ currentPlayerIndex \in Players
        /\ 0 \in Players /\ games[0] \in State /\ games \in [Players -> State]
    BY TableFacts DEF RInv, IInv, TypeOK
  <2>2. games'[0] = games[0] \/ games'[0] = HandleTurn(games[0], turn, currentPlayerIndex)
    BY <1>1, <2>1 DEF NextTurn
  <2>3. /\ HandleTurn(games[0], turn, currentPlayerIndex).hands = games[0].hands
        /\ HandleTurn(games[0], turn, currentPlayerIndex).cardOrder = games[0].cardOrder
        /\ SameTable(HandleTurn(games[0], turn, currentPlayerIndex), games[0])
    BY <2>1, TurnFields
  <2>4. QED
    BY <1>1, <2>2, <2>3 DEF NextTurn, SameTable, Rules!hvars
<1>2. CASE TakeAction \/ EndGame \/ Throw \/ Finished \/ UNCHANGED vars
  <2>1. /\ UNCHANGED <<shuffled, games, currentPlayerIndex>>
        /\ (pc # "deal") = (pc' # "deal")
    BY <1>2 DEF TakeAction, EndGame, Throw, Finished, vars
  <2>2. QED
    BY <2>1 DEF Rules!hvars
<1>3. QED
  BY <1>1, <1>2

\* The loop begins where the rules do.
LEMMA InitRules == Init => Rules!Init
<1> SUFFICES ASSUME Init PROVE Rules!Init
  OBVIOUS
<1>1. /\ shuffled \in Decks /\ games[0] = InitialState /\ currentPlayerIndex = 0 /\ pc = "deal"
  BY ShuffleAssumption, TableFacts DEF Init
<1>2. /\ shuffled \in [Rules!Cards -> Rules!Kinds]
      /\ \A k \in Rules!Kinds : Rules!Cardinality({c \in Rules!Cards : shuffled[c] = k}) = Copies[k]
  BY <1>1, SameCardinality DEF Decks, Rules!Cards, Rules!Kinds, Orders, Ids, Ranks
<1>3. QED
  BY <1>1, <1>2 DEF Rules!Init, InitialState, Rules!Seats, Rules!Kinds, Players, Ids, Ranks

-----------------------------------------------------------------------------
(* The theorem *)

\* Seen from the copy at seat 0 the self-play loop plays Hanabi: whatever the
\* conventions decide, the tokens, the stacks, the reachable ranks, the countdown and the
\* end of the game are those of the rules (simulate_game, onDiscard, onPlay, onDraw).
THEOREM PlaysByTheRules == Spec => FollowsRules
<1>1. Init => Rules!Init
  BY InitRules
<1>2. RInv /\ [Next]_vars => [Rules!Next]_Rules!hvars
  <2> SUFFICES ASSUME RInv, [Next]_vars PROVE Rules!Next \/ UNCHANGED Rules!hvars
    OBVIOUS
  <2>1. CASE DealCard
    BY <2>1, DealCardRules
  <2>2. CASE StartLoop
    BY <2>2, StartLoopRules DEF Rules!Next
  <2>3. CASE ApplyAction
    BY <2>3, ApplyActionRules
  <2>4. CASE NextTurn \/ TakeAction \/ EndGame \/ Throw \/ Finished \/ UNCHANGED vars
    BY <2>4, OtherRules
  <2>5. QED
    BY <2>1, <2>2, <2>3, <2>4 DEF Next, Step
<1>3. QED
  BY <1>1, <1>2, RulesInvariance, PTL DEF Spec, FollowsRules, Rules!Spec
=============================================================================
