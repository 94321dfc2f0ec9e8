---------------------------- MODULE Empathy_proofs ----------------------------
(***************************************************************************)
(* Elimination is sound (module Empathy): for every number of players, all *)
(* hand sizes and suits, every deck and every course of the game, no view  *)
(* of any program rules out what a card is.                                *)
(*                                                                         *)
(* The argument: if as many live cards are known to be id as there are     *)
(* copies left, no other card is id (CountedOut); likewise for a set of    *)
(* identities (TriedSound).  What a view thinks of a card is CardSound,    *)
(* the work of one elimination WorkSound, a view ViewSound and the game of *)
(* a program GameSound; every operation of card_elim and every handler     *)
(* keeps the one it is about.                                              *)
(***************************************************************************)
EXTENDS Empathy, Sums_proofs

-----------------------------------------------------------------------------
(* Induction, and the sets the loops run through *)

\* Induction up to a bound, for a set G of numbers.
LEMMA UpTo ==
  ASSUME NEW N \in Nat, NEW G, 0 \in G,
         \A k \in 1 .. N : k - 1 \in G => k \in G
  PROVE  \A k \in 0 .. N : k \in G
<1> DEFINE T == {k \in 0 .. N : k \notin G}
<1> SUFFICES ASSUME T # {} PROVE FALSE
  OBVIOUS
<1>1. T \in SUBSET Nat
  OBVIOUS
<1>2. PICK n \in T : \A m \in T : n <= m
  BY <1>1, Least
<1>3. n \in 1 .. N /\ n - 1 \in 0 .. N /\ ~(n <= n - 1)
  OBVIOUS
<1>4. n - 1 \in G
  BY <1>2, <1>3
<1>5. QED
  BY <1>3, <1>4

\* A number that is a quotient and a remainder has no other.
LEMMA QuotientUnique ==
  ASSUME NEW m \in Nat, NEW a \in Nat, NEW b \in Nat, NEW r \in 1 .. m, NEW s \in 1 .. m,
         a * m + r = b * m + s
  PROVE  a = b /\ r = s
<1>1. ASSUME NEW x \in Nat, NEW y \in Nat, x < y
      PROVE  x * m + m <= y * m
  <2>1. PICK d \in Nat : y = x + 1 + d
    <3>1. y - x - 1 \in Nat /\ y = x + 1 + (y - x - 1)
      BY <1>1
    <3>2. QED
      BY <3>1
  <2>2. y * m = x * m + m + d * m /\ d * m >= 0 /\ x * m \in Nat /\ d * m \in Nat
    BY <2>1
  <2>3. QED
    BY <2>2
<1>2. a * m \in Nat /\ b * m \in Nat
  OBVIOUS
<1>3. ~(a < b)
  <2> SUFFICES ASSUME a < b PROVE FALSE
    OBVIOUS
  <2>1. a * m + m <= b * m
    BY <1>1
  <2>2. QED
    BY <1>2, <2>1
<1>4. ~(b < a)
  <2> SUFFICES ASSUME b < a PROVE FALSE
    OBVIOUS
  <2>1. b * m + m <= a * m
    BY <1>1
  <2>2. QED
    BY <1>2, <2>1
<1>5. a = b
  BY <1>3, <1>4
<1>6. QED
  BY <1>2, <1>5

\* The elements in the order of their keys are elements.
LEMMA OrderedIn ==
  ASSUME NEW S, IsFiniteSet(S), NEW key, \A x \in S : key[x] \in Int,
         \A x, y \in S : key[x] = key[y] => x = y
  PROVE  /\ Cardinality(S) \in Nat
         /\ DOMAIN Ordered(S, key) = 1 .. Cardinality(S)
         /\ Ordered(S, key) \in Seq(S)
         /\ \A k \in 1 .. Cardinality(S) : Ordered(S, key)[k] \in S
<1> DEFINE n == Cardinality(S)
           Below(x) == {y \in S : key[y] < key[x]}
           rank == [x \in S |-> Cardinality(Below(x))]
<1>1. n \in Nat
  BY FS_CardinalityType
<1>2. ASSUME NEW x \in S
      PROVE  IsFiniteSet(Below(x)) /\ Cardinality(Below(x)) \in Nat /\ Cardinality(Below(x)) < n
  <2>1. Below(x) \in SUBSET S /\ x \notin Below(x)
    OBVIOUS
  <2> HIDE DEF Below
  <2>2. IsFiniteSet(Below(x)) /\ Cardinality(Below(x)) <= n /\ (n = Cardinality(Below(x)) => S = Below(x))
    BY <2>1, FS_Subset
  <2>3. Cardinality(Below(x)) \in Nat
    BY <2>2, FS_CardinalityType
  <2>4. QED
    BY <1>1, <2>1, <2>2, <2>3
<1>3. ASSUME NEW x \in S, NEW y \in S, key[x] < key[y]
      PROVE  Cardinality(Below(x)) < Cardinality(Below(y))
  <2>0. key[x] \in Int /\ key[y] \in Int /\ \A z \in S : key[z] \in Int
    OBVIOUS
  <2>1. Below(x) \in SUBSET Below(y) /\ x \in Below(y) /\ x \notin Below(x)
    BY <1>3, <2>0
  <2>2. IsFiniteSet(Below(y)) /\ Cardinality(Below(y)) \in Nat /\ Cardinality(Below(x)) \in Nat
    BY <1>2
  <2> HIDE DEF Below
  <2>3. Cardinality(Below(x)) <= Cardinality(Below(y))
        /\ (Cardinality(Below(y)) = Cardinality(Below(x)) => Below(y) = Below(x))
    BY <2>1, <2>2, FS_Subset
  <2>4. QED
    BY <2>1, <2>2, <2>3
<1>4. rank \in [S -> 0 .. n - 1]
  <2> HIDE DEF Below
  <2>1. QED
    BY <1>1, <1>2
<1>5. \A x, y \in S : rank[x] = rank[y] => x = y
  <2> SUFFICES ASSUME NEW x \in S, NEW y \in S, rank[x] = rank[y] PROVE x = y
    OBVIOUS
  <2>0. key[x] \in Int /\ key[y] \in Int
    OBVIOUS
  <2>1. Cardinality(Below(x)) = Cardinality(Below(y)) /\ Cardinality(Below(x)) \in Nat /\ Cardinality(Below(y)) \in Nat
    BY <1>2
  <2> HIDE DEF Below
  <2>2. ~(key[x] < key[y]) /\ ~(key[y] < key[x])
    BY <1>3, <2>1
  <2>3. key[x] = key[y]
    BY <2>0, <2>2
  <2>4. QED
    BY <2>3
<1> HIDE DEF Below
<1>6. rank \in Injection(S, 0 .. n - 1)
  <2> HIDE DEF rank
  <2>1. QED
    BY <1>4, <1>5, Zenon DEF Injection, IsInjective
<1>7. IsFiniteSet(0 .. n - 1) /\ Cardinality(0 .. n - 1) = n
  BY <1>1, FS_Interval
<1>8. rank \in Surjection(S, 0 .. n - 1)
  <2> HIDE DEF rank
  <2>1. QED
    BY <1>6, <1>7, FS_Injection
<1>9. ASSUME NEW k \in 1 .. n
      PROVE  \E x \in S : Cardinality(Below(x)) = k - 1
  <2>1. k - 1 \in 0 .. n - 1
    BY <1>1
  <2>2. PICK x \in S : rank[x] = k - 1
    <3> HIDE DEF rank
    <3>1. QED
      BY <1>8, <2>1 DEF Surjection
  <2>3. QED
    BY <2>2
<1> DEFINE e(k) == CHOOSE x \in S : Cardinality(Below(x)) = k - 1
<1>10. ASSUME NEW k \in 1 .. n
       PROVE  e(k) \in S
  BY <1>9
<1>11. Ordered(S, key) = [k \in 1 .. n |-> e(k)]
  BY DEF Ordered, Below
<1> HIDE DEF e
<1>12. Ordered(S, key) \in [1 .. n -> S]
  BY <1>10, <1>11
<1>13. Ordered(S, key) \in Seq(S)
  BY <1>1, <1>12
<1>14. QED
  BY <1>1, <1>12, <1>13

-----------------------------------------------------------------------------
(* What a program knows of the table, when the deck is T *)

\* the cards still to be drawn
Undrawn(st) == {o \in Orders : o > st.cardOrder}

\* the cards that are id and are neither played nor discarded
Live(st, T, id) == {o \in Held(st) \cup Undrawn(st) : T[o] = id}

\* Nobody holds a card of another's, the identities are true as far as they are
\* known, and the stacks and the discard pile have the cards that have left.
TableSound(st, T) ==
  /\ T \in [Orders -> Ids]
  /\ st.hands \in [Players -> SUBSET Orders]
  /\ \A p, q \in Players : p # q => st.hands[p] \cap st.hands[q] = {}
  /\ st.cardOrder \in Orders \cup {-1}
  /\ \A o \in Held(st) : o <= st.cardOrder
  /\ \A o \in Orders : st.deck[o] \in {NoId, T[o]}
  /\ \A id \in Ids : /\ BaseCount(st, id) \in Int
                     /\ Cardinality(Live(st, T, id)) = Copies[id] - BaseCount(st, id)

\* There are finitely many orders and identities, and NoId is none of them.
LEMMA Finite ==
  /\ IsFiniteSet(Orders)
  /\ IsFiniteSet(Ids)
  /\ NoId \notin Ids
  /\ DeckSize \in Nat
<1>1. DeckSize \in Nat /\ MaxRank \in Nat /\ IsFiniteSet(Suits)
  BY TableAssumption
<1>2. IsFiniteSet(Orders)
  BY <1>1, FS_Interval DEF Orders
<1>3. IsFiniteSet(Ranks)
  BY <1>1, FS_Interval DEF Ranks
<1>4. IsFiniteSet(Ids)
  BY <1>1, <1>3, FS_Product DEF Ids
<1>5. NoId \notin Ids
  BY SuitsAssumption DEF NoId, Ids
<1>6. QED
  BY <1>1, <1>2, <1>4, <1>5

\* A held card is in one hand.
LEMMA OneHolder ==
  ASSUME NEW st, NEW T, TableSound(st, T), NEW o \in Held(st)
  PROVE  /\ o \in Orders
         /\ HeldBy(st, o) \in Players
         /\ \A p \in Players : o \in st.hands[p] <=> p = HeldBy(st, o)
<1>1. PICK p \in Players : o \in st.hands[p]
  BY DEF Held
<1>2. HeldBy(st, o) \in Players /\ o \in st.hands[HeldBy(st, o)]
  BY <1>1 DEF HeldBy
<1>3. \A q \in Players : q # HeldBy(st, o) => st.hands[q] \cap st.hands[HeldBy(st, o)] = {}
  BY <1>2 DEF TableSound
<1>4. o \in Orders
  BY <1>1 DEF TableSound
<1>5. QED
  BY <1>2, <1>3, <1>4

\* An array of identities holds identities.
LEMMA InOrderIds ==
  ASSUME NEW ids \in SUBSET Ids
  PROVE  /\ InOrder(ids) \in Seq(Ids)
         /\ InOrder(ids) \in Seq(ids)
<1>1. IsFiniteSet(ids)
  BY Finite, FS_Subset
<1>2. ASSUME NEW id \in ids
      PROVE  /\ IdNumber[id] = id[1] * MaxRank + id[2]
             /\ id[1] \in Nat /\ id[2] \in 1 .. MaxRank /\ MaxRank \in Nat
             /\ id = <<id[1], id[2]>>
             /\ IdNumber[id] \in Int
  <2>1. id \in Ids
    OBVIOUS
  <2>2. IdNumber[id] = id[1] * MaxRank + id[2]
    BY <2>1 DEF IdNumber
  <2>3. id[1] \in Nat /\ id[2] \in 1 .. MaxRank /\ MaxRank \in Nat /\ id = <<id[1], id[2]>>
    <3>1. PICK s \in Suits, r \in Ranks : id = <<s, r>>
      BY <2>1 DEF Ids
    <3>2. s \in Nat /\ r \in 1 .. MaxRank /\ MaxRank \in Nat
      BY TableAssumption, SuitsAssumption DEF Ranks
    <3>3. QED
      BY <3>1, <3>2
  <2>4. id[1] * MaxRank \in Int
    BY <2>3
  <2>5. QED
    BY <2>2, <2>3, <2>4
<1>3. ASSUME NEW x \in ids, NEW y \in ids, IdNumber[x] = IdNumber[y]
      PROVE  x = y
  <2>1. x[1] * MaxRank + x[2] = y[1] * MaxRank + y[2]
    BY <1>2, <1>3
  <2>2. x[1] = y[1] /\ x[2] = y[2]
    BY <1>2, <2>1, QuotientUnique
  <2>3. QED
    BY <1>2, <2>2
<1>4. InOrder(ids) \in Seq(ids)
  BY <1>1, <1>2, <1>3, OrderedIn DEF InOrder
<1>5. QED
  BY <1>4

\* Held cards are in order.
LEMMA SlotsOrdered ==
  ASSUME NEW st, NEW T, TableSound(st, T), NEW S \in SUBSET Held(st)
  PROVE  /\ IsFiniteSet(S)
         /\ Cardinality(S) \in Nat /\ Cardinality(S) <= DeckSize
         /\ \A x \in S : SlotNumber(st)[x] \in Nat
         /\ \A x, y \in S : SlotNumber(st)[x] = SlotNumber(st)[y] => x = y
         /\ DOMAIN Ordered(S, SlotNumber(st)) = 1 .. Cardinality(S)
         /\ Ordered(S, SlotNumber(st)) \in Seq(S)
         /\ \A k \in 1 .. Cardinality(S) : Ordered(S, SlotNumber(st))[k] \in S
<1> DEFINE key == SlotNumber(st)
<1>0. DeckSize \in Nat /\ DeckSize # 0 /\ NumPlayers \in Nat
  BY TableAssumption
<1>1. S \in SUBSET Orders
  BY OneHolder
<1>2. IsFiniteSet(S) /\ Cardinality(S) <= Cardinality(Orders)
  BY <1>1, Finite, FS_Subset
<1>3. Cardinality(Orders) = DeckSize
  <2>1. Cardinality(0 .. DeckSize - 1) = DeckSize
    BY <1>0, FS_Interval
  <2>2. QED
    BY <2>1 DEF Orders
<1>4. ASSUME NEW x \in S
      PROVE  /\ key[x] = HeldBy(st, x) * DeckSize + (DeckSize - x)
             /\ HeldBy(st, x) \in Nat /\ DeckSize - x \in 1 .. DeckSize
             /\ x \in Int
             /\ key[x] \in Nat
  <2>1. key[x] = HeldBy(st, x) * DeckSize + (DeckSize - x)
    BY DEF SlotNumber
  <2>2. HeldBy(st, x) \in Nat
    BY <1>0, OneHolder DEF Players
  <2>3. x \in 0 .. DeckSize - 1
    BY <1>1 DEF Orders
  <2>4. DeckSize - x \in 1 .. DeckSize /\ x \in Int
    BY <1>0, <2>3
  <2>5. QED
    BY <1>0, <2>1, <2>2, <2>4
<1> HIDE DEF key
<1>5. ASSUME NEW x \in S, NEW y \in S, key[x] = key[y]
      PROVE  x = y
  <2>1. HeldBy(st, x) * DeckSize + (DeckSize - x) = HeldBy(st, y) * DeckSize + (DeckSize - y)
    BY <1>4, <1>5
  <2>2. DeckSize - x = DeckSize - y
    <3> DEFINE a == HeldBy(st, x)
               b == HeldBy(st, y)
               r == DeckSize - x
               s == DeckSize - y
    <3>1. a \in Nat /\ b \in Nat /\ r \in 1 .. DeckSize /\ s \in 1 .. DeckSize
      BY <1>4
    <3>2. a * DeckSize + r = b * DeckSize + s
      BY <2>1
    <3> HIDE DEF a, b, r, s
    <3>3. r = s
      BY <1>0, <3>1, <3>2, QuotientUnique
    <3>4. QED
      BY <3>3 DEF r, s
  <2>3. QED
    BY <1>0, <1>4, <2>2
<1>6. /\ Cardinality(S) \in Nat
      /\ DOMAIN Ordered(S, key) = 1 .. Cardinality(S)
      /\ Ordered(S, key) \in Seq(S)
      /\ \A k \in 1 .. Cardinality(S) : Ordered(S, key)[k] \in S
  BY <1>2, <1>4, <1>5, OrderedIn
<1>7. QED
  BY <1>2, <1>3, <1>4, <1>5, <1>6 DEF key

\* The cards that are one of ids and are neither played nor discarded.
LiveAmong(st, T, ids) == {o \in Held(st) \cup Undrawn(st) : T[o] \in ids}

\* There are finitely many of them.
LEMMA LiveFinite ==
  ASSUME NEW st, NEW T, TableSound(st, T), NEW ids
  PROVE  /\ LiveAmong(st, T, ids) \in SUBSET Orders
         /\ IsFiniteSet(LiveAmong(st, T, ids))
         /\ Cardinality(LiveAmong(st, T, ids)) \in Nat
<1>1. LiveAmong(st, T, ids) \in SUBSET Orders
  BY OneHolder DEF LiveAmong, Undrawn
<1>2. IsFiniteSet(LiveAmong(st, T, ids))
  BY <1>1, Finite, FS_Subset
<1>3. QED
  BY <1>1, <1>2, FS_CardinalityType

\* total_multiplicity counts them.
LEMMA Multiplicity ==
  ASSUME NEW st, NEW T, TableSound(st, T), NEW ids \in SUBSET Ids
  PROVE  TotalMultiplicity(st, ids) = Cardinality(LiveAmong(st, T, ids))
<1> DEFINE f == [id \in ids |-> Copies[id] - BaseCount(st, id)]
           F(s) == Partial(f)[s]
           C(s) == Cardinality(LiveAmong(st, T, s))
           G == {s \in SUBSET ids : F(s) = C(s)}
<1>0. IsFiniteSet(ids)
  BY Finite, FS_Subset
<1>1. DOMAIN f = ids
  OBVIOUS
<1>2. \A s \in SUBSET ids : F(s) = IF s = {} THEN 0 ELSE f[Chosen(s)] + F(s \ {Chosen(s)})
  <2> HIDE DEF f
  <2>1. QED
    BY <1>0, <1>1, PartialUnfolds DEF Unfold
<1>3. TotalMultiplicity(st, ids) = F(ids)
  <2>1. TotalMultiplicity(st, ids) = Sum(f)
    BY DEF TotalMultiplicity
  <2> HIDE DEF f
  <2>2. QED
    BY <1>1, <2>1, SumIsPartial
<1>4. \A id \in ids : f[id] = Cardinality(Live(st, T, id))
  BY DEF TableSound
<1> HIDE DEF F, f
<1>5. {} \in G
  <2>1. LiveAmong(st, T, {}) = {}
    BY DEF LiveAmong
  <2>2. F({}) = 0 /\ C({}) = 0
    BY <1>2, <2>1, FS_EmptySet
  <2>3. QED
    BY <2>2
<1>6. ASSUME NEW s \in SUBSET ids, s # {}, s \ {Chosen(s)} \in G
      PROVE  s \in G
  <2> DEFINE c == Chosen(s)
             r == s \ {c}
             A == Live(st, T, c)
             B == LiveAmong(st, T, r)
  <2>1. c \in s /\ c \in ids
    BY <1>6, ChosenIn
  <2>2. F(s) = f[c] + F(r)
    BY <1>2, <1>6
  <2>3. F(r) = Cardinality(B)
    BY <1>6
  <2>4. f[c] = Cardinality(A)
    BY <1>4, <2>1
  <2>5. A = LiveAmong(st, T, {c})
    BY DEF Live, LiveAmong
  <2>6. A \cap B = {} /\ LiveAmong(st, T, s) = A \cup B
    BY <2>1 DEF Live, LiveAmong
  <2> HIDE DEF A, B, c, r
  <2>7. IsFiniteSet(A) /\ IsFiniteSet(B) /\ Cardinality(A) \in Nat /\ Cardinality(B) \in Nat
    BY <2>5, LiveFinite DEF B
  <2>8. Cardinality(A \cup B) = Cardinality(A) + Cardinality(B) - Cardinality(A \cap B)
    BY <2>7, FS_Union
  <2>9. Cardinality(A \cap B) = 0
    BY <2>6, FS_EmptySet
  <2>10. F(s) = C(s)
    BY <2>2, <2>3, <2>4, <2>6, <2>7, <2>8, <2>9
  <2>11. QED
    BY <2>10
<1>7. ids \in G
  <2> HIDE DEF G
  <2>1. \A s \in SUBSET ids : s \in G
    BY <1>0, <1>5, <1>6, SubsetInduction
  <2>2. QED
    BY <2>1
<1>8. QED
  BY <1>3, <1>7

-----------------------------------------------------------------------------
(* What is thought of a card that is t *)

\* Nothing is thought of it that t contradicts.
CardSound(c, t) ==
  /\ c \in Card
  /\ t \in c.possible /\ c.inferred \subseteq c.possible
  /\ c.id \in {NoId, t}
  /\ c.status = NoStatus

\* A card with other inferences, possibilities, identity or touch is still a card.
LEMMA CardWith ==
  ASSUME NEW c \in Card, NEW S \in SUBSET Ids, NEW L \in (SUBSET Ids) \cup {NoSet},
         NEW i \in Ids \cup {NoId}, NEW b \in BOOLEAN
  PROVE  /\ c.possible \in SUBSET Ids /\ c.inferred \in SUBSET Ids
         /\ c.info_lock \in (SUBSET Ids) \cup {NoSet}
         /\ c.reset \in BOOLEAN /\ c.clued \in BOOLEAN
         /\ {"id", "possible", "inferred", "info_lock", "status", "clued", "reset", "known"}
              \subseteq DOMAIN c
         /\ [c EXCEPT !.possible = S] \in Card
         /\ [c EXCEPT !.inferred = S] \in Card
         /\ [c EXCEPT !.info_lock = L] \in Card
         /\ [c EXCEPT !.id = i] \in Card
         /\ [c EXCEPT !.clued = b] \in Card
         /\ [c EXCEPT !.reset = b] \in Card
         /\ [c EXCEPT !.known = b] \in Card
<1>1. /\ c.possible \in SUBSET Ids /\ c.inferred \in SUBSET Ids
      /\ c.info_lock \in (SUBSET Ids) \cup {NoSet}
      /\ c.reset \in BOOLEAN /\ c.clued \in BOOLEAN
  BY DEF Card
<1>2. {"id", "possible", "inferred", "info_lock", "status", "clued", "reset", "known"} \subseteq DOMAIN c
  BY DEF Card
<1>3. [c EXCEPT !.possible = S] \in Card
  BY DEF Card
<1>4. [c EXCEPT !.inferred = S] \in Card
  BY DEF Card
<1>5. [c EXCEPT !.info_lock = L] \in Card
  BY DEF Card
<1>6. [c EXCEPT !.id = i] \in Card
  BY DEF Card
<1>7. [c EXCEPT !.clued = b] \in Card
  BY DEF Card
<1>8. [c EXCEPT !.reset = b] \in Card
  BY DEF Card
<1>9. [c EXCEPT !.known = b] \in Card
  BY DEF Card
<1>10. QED
  BY <1>1, <1>2, <1>3, <1>4, <1>5, <1>6, <1>7, <1>8, <1>9

\* A new card is a card.
LEMMA NewCardIsCard ==
  ASSUME NEW ids \in SUBSET Ids, NEW id \in Ids \cup {NoId}
  PROVE  /\ NewCard(ids, id) \in Card
         /\ NewCard(ids, id).possible = ids /\ NewCard(ids, id).inferred = ids
         /\ NewCard(ids, id).id = id /\ NewCard(ids, id).status = NoStatus
<1>1. NewCard(ids, id) \in Card
  <2>1. NoTouch \in [giver : Players \cup {-1}, turn : Nat \cup {-1}]
    BY DEF NoTouch
  <2>2. << >> \in Seq(GivenClue)
    OBVIOUS
  <2>3. -1 \in Int /\ -1 \in Nat \cup {-1}
    OBVIOUS
  <2> DEFINE A == SUBSET Ids
             L == (SUBSET Ids) \cup {NoSet}
             I == Ids \cup {NoId}
             S == CARD_STATUS \cup {NoStatus}
  <2>4. ids \in A /\ NoSet \in L /\ id \in I /\ NoStatus \in S
    OBVIOUS
  <2>5. Card = [id : I, possible : A, inferred : A, old_inferred : L, info_lock : L,
                status : S, last_status : S,
                clued : BOOLEAN, newly_clued : BOOLEAN, clues : Seq(GivenClue),
                firstTouch : [giver : Players \cup {-1}, turn : Nat \cup {-1}],
                focused : BOOLEAN, reset : BOOLEAN, superposition : BOOLEAN, hidden : BOOLEAN,
                certain_finessed : BOOLEAN, trash : BOOLEAN, uncertain : BOOLEAN, known : BOOLEAN,
                permission_to_discard : BOOLEAN, rewinded : BOOLEAN,
                finesse_index : Int, reasoning_turn : Nat \cup {-1}]
    BY DEF Card
  <2> HIDE DEF A, L, I, S
  <2>6. QED
    BY <2>1, <2>2, <2>3, <2>4, <2>5 DEF NewCard
<1>2. QED
  BY <1>1 DEF NewCard

\* What is made known of a card that may be id, and whose identity is given if it is known.
LEMMA NewCardSound ==
  ASSUME NEW ids \in SUBSET Ids, NEW t \in ids, NEW id \in {NoId, t}
  PROVE  CardSound(NewCard(ids, id), t)
<1>1. id \in Ids \cup {NoId}
  OBVIOUS
<1>2. QED
  BY <1>1, NewCardIsCard DEF CardSound

\* reset_inferences of a card that is not finessed
LEMMA ResetSound ==
  ASSUME NEW t, NEW c, CardSound(c, t)
  PROVE  /\ CardSound(ResetInferences(c), t)
         /\ ResetInferences(c).possible = c.possible
<1> DEFINE left == IF Lockable(c) THEN c.info_lock \cap c.possible ELSE c.possible
           lock == IF BrokenLock(c) THEN NoSet ELSE left
           c1   == [c EXCEPT !.inferred = left]
           c2   == [c1 EXCEPT !.info_lock = lock]
           c3   == [c2 EXCEPT !.reset = TRUE]
           c4   == [c3 EXCEPT !.known = FALSE]
<1>0. c \in Card /\ t \in c.possible /\ c.id \in {NoId, t} /\ c.status = NoStatus
  BY DEF CardSound
<1>1. /\ c.possible \in SUBSET Ids /\ c.info_lock \in (SUBSET Ids) \cup {NoSet}
      /\ {"id", "possible", "inferred", "info_lock", "status", "clued", "reset", "known"} \subseteq DOMAIN c
  BY <1>0, CardWith
<1>2. left \in SUBSET Ids /\ left \subseteq c.possible /\ lock \in (SUBSET Ids) \cup {NoSet}
  BY <1>1
<1>3. ResetInferences(c) = c4
  <2>1. c.status # "FINESSED"
    BY <1>0 DEF NoStatus
  <2>2. Relocked(c) = c2
    BY DEF Relocked
  <2> HIDE DEF c2
  <2>3. QED
    BY <2>1, <2>2 DEF ResetInferences
<1> HIDE DEF left, lock
<1>4. /\ c1 \in Card /\ DOMAIN c1 = DOMAIN c /\ c1.inferred = left
      /\ c1.possible = c.possible /\ c1.id = c.id /\ c1.status = c.status
  BY <1>0, <1>1, <1>2, CardWith
<1> HIDE DEF c1
<1>5. /\ c2 \in Card /\ DOMAIN c2 = DOMAIN c /\ c2.inferred = left
      /\ c2.possible = c.possible /\ c2.id = c.id /\ c2.status = c.status
  BY <1>1, <1>2, <1>4, CardWith
<1> HIDE DEF c2
<1>6. /\ c3 \in Card /\ DOMAIN c3 = DOMAIN c /\ c3.inferred = left
      /\ c3.possible = c.possible /\ c3.id = c.id /\ c3.status = c.status
  BY <1>1, <1>5, CardWith
<1> HIDE DEF c3
<1>7. /\ c4 \in Card /\ c4.inferred = left
      /\ c4.possible = c.possible /\ c4.id = c.id /\ c4.status = c.status
  BY <1>1, <1>6, CardWith
<1> HIDE DEF c4
<1>8. QED
  BY <1>0, <1>2, <1>3, <1>7 DEF CardSound

\* A card loses possibilities and inferences.
Shrunk(c, P, I) == [c EXCEPT !.possible = P, !.inferred = I]

\* As long as the possibilities that are left have the truth, nothing is lost.
LEMMA ShrunkSound ==
  ASSUME NEW t, NEW c, CardSound(c, t), NEW P \in SUBSET c.possible, NEW I \in SUBSET P, t \in P
  PROVE  /\ CardSound(Shrunk(c, P, I), t)
         /\ Shrunk(c, P, I).possible = P
<1> DEFINE c1 == [c EXCEPT !.possible = P]
           c2 == [c1 EXCEPT !.inferred = I]
<1>0. c \in Card /\ c.id \in {NoId, t} /\ c.status = NoStatus
  BY DEF CardSound
<1>1. /\ P \in SUBSET Ids /\ I \in SUBSET Ids
      /\ {"id", "possible", "inferred", "info_lock", "status", "clued", "reset", "known"} \subseteq DOMAIN c
  BY <1>0, CardWith
<1>2. /\ c1 \in Card /\ DOMAIN c1 = DOMAIN c /\ c1.possible = P
      /\ c1.id = c.id /\ c1.status = c.status
  BY <1>0, <1>1, CardWith
<1>3. Shrunk(c, P, I) = c2
  BY DEF Shrunk
<1> HIDE DEF c1
<1>4. /\ c2 \in Card /\ c2.possible = P /\ c2.inferred = I
      /\ c2.id = c.id /\ c2.status = c.status
  BY <1>1, <1>2, CardWith
<1> HIDE DEF c2
<1>5. QED
  BY <1>0, <1>3, <1>4 DEF CardSound

\* A card loses an identity that is not its own.
LEMMA LosingSound ==
  ASSUME NEW t, NEW c, CardSound(c, t), NEW id, id # t
  PROVE  /\ CardSound(Refilled(Losing(c, id)), t)
         /\ Refilled(Losing(c, id)).possible = c.possible \ {id}
<1> DEFINE P == c.possible \ {id}
           I == c.inferred \ {id}
           d == Shrunk(c, P, I)
<1>0. c.inferred \subseteq c.possible /\ t \in c.possible
  BY DEF CardSound
<1>1. P \in SUBSET c.possible /\ I \in SUBSET P /\ t \in P
  BY <1>0
<1>2. Losing(c, id) = d
  BY DEF Losing, Shrunk
<1>3. CardSound(d, t) /\ d.possible = P
  <2> HIDE DEF P, I
  <2>1. QED
    BY <1>1, ShrunkSound
<1> HIDE DEF d
<1>4. CASE d.inferred = {} /\ ~d.reset
  BY <1>2, <1>3, <1>4, ResetSound DEF Refilled
<1>5. CASE ~(d.inferred = {} /\ ~d.reset)
  BY <1>2, <1>3, <1>5 DEF Refilled
<1>6. QED
  BY <1>4, <1>5

\* What is known of a card for certain is true.
LEMMA IdentityTrue ==
  ASSUME NEW t \in Ids, NEW c, CardSound(c, t)
  PROVE  /\ Symmetric(c) \in {NoId, t}
         /\ Identity(c) \in {NoId, t}
         /\ Cardinality(c.possible) = 1 => Only(c.possible) = t
<1>0. c \in Card /\ t \in c.possible /\ c.id \in {NoId, t}
  BY DEF CardSound
<1>1. IsFiniteSet(c.possible)
  BY <1>0, CardWith, Finite, FS_Subset
<1>2. ASSUME Cardinality(c.possible) = 1
      PROVE  Only(c.possible) = t
  <2>1. PICK x : c.possible = {x}
    BY <1>1, <1>2, FS_Singleton
  <2>2. QED
    BY <1>0, <2>1 DEF Only
<1>3. Symmetric(c) \in {NoId, t}
  BY <1>2 DEF Symmetric
<1>4. Identity(c) \in {NoId, t}
  BY <1>0, <1>3 DEF Identity
<1>5. QED
  BY <1>2, <1>3, <1>4

-----------------------------------------------------------------------------
(* The work of card_elim *)

\* No held card loses what it is, what is certain is true, and an identity that is
\* eliminated is not drawn any more.
WorkSound(w, st, T) ==
  /\ w \in Work
  /\ \A o \in Held(st) : CardSound(w.thoughts[o], T[o])
  /\ \A id \in Ids : w.certain[id] \subseteq {o \in Held(st) : T[o] = id}
  /\ w.candidates \subseteq Held(st)
  /\ \A id \in w.eliminated : \A o \in Undrawn(st) : T[o] # id
  /\ w.thrown = FALSE

\* More is certain in v than in w.
Grown(w, v) == \A id \in Ids : w.certain[id] \subseteq v.certain[id]

\* a result of update_map, or of a pass, whose cards are all sound
AccSound(acc, st, T) == acc \in Accs /\ WorkSound(acc.w, st, T)

\* Growing is transitive.
LEMMA GrownTransitive ==
  ASSUME NEW u, NEW v, NEW w, Grown(u, v), Grown(v, w)
  PROVE  Grown(u, w)
BY DEF Grown

\* The fields of a work record.
LEMMA WorkFields ==
  ASSUME NEW w \in Work
  PROVE  /\ w.thoughts \in [Orders -> Card]
         /\ w.certain \in [Ids -> SUBSET Orders] /\ w.open \in [Ids -> SUBSET Orders]
         /\ w.candidates \in SUBSET Orders /\ w.eliminated \in SUBSET Ids /\ w.thrown \in BOOLEAN
         /\ DOMAIN w = {"thoughts", "certain", "open", "candidates", "eliminated", "thrown"}
BY DEF Work

\* The cards that are found out are recorded.
LEMMA RecordSound ==
  ASSUME NEW st, NEW T, TableSound(st, T), NEW w, WorkSound(w, st, T),
         NEW th \in [Orders -> Card], \A o \in Held(st) : CardSound(th[o], T[o]),
         NEW found \in SUBSET Held(st), \A o \in found : Cardinality(th[o].possible) = 1
  PROVE  /\ WorkSound(Record(w, th, found), st, T)
         /\ Grown(w, Record(w, th, found))
         /\ Record(w, th, found).thoughts = th
         /\ \A o \in found : Sole(th, o) = T[o]
<1> DEFINE of(id) == FoundToBe(th, found, id)
           v  == Record(w, th, found)
           ce == [id \in Ids |-> w.certain[id] \cup of(id)]
           op == [id \in Ids |-> w.open[id] \ of(id)]
           ca == w.candidates \ found
<1>0. /\ w \in Work
      /\ \A id \in Ids : w.certain[id] \subseteq {o \in Held(st) : T[o] = id}
      /\ w.candidates \subseteq Held(st)
      /\ T \in [Orders -> Ids]
  BY DEF WorkSound, TableSound
<1>1. /\ w.certain \in [Ids -> SUBSET Orders] /\ w.open \in [Ids -> SUBSET Orders]
      /\ w.candidates \in SUBSET Orders
      /\ DOMAIN w = {"thoughts", "certain", "open", "candidates", "eliminated", "thrown"}
  BY <1>0, WorkFields
<1>2. Held(st) \subseteq Orders
  BY OneHolder
<1>3. ASSUME NEW o \in found
      PROVE  Sole(th, o) = T[o]
  <2>1. T[o] \in Ids /\ CardSound(th[o], T[o]) /\ Cardinality(th[o].possible) = 1
    BY <1>0, <1>2
  <2>2. QED
    BY <2>1, IdentityTrue DEF Sole
<1>4. \A id \in Ids : of(id) \subseteq {o \in Held(st) : T[o] = id}
  BY <1>3 DEF FoundToBe
<1> HIDE DEF of
<1>5. ce \in [Ids -> SUBSET Orders] /\ op \in [Ids -> SUBSET Orders] /\ ca \in SUBSET Orders
  BY <1>1, <1>2, <1>4
<1>6. v = [w EXCEPT !.thoughts = th, !.certain = ce, !.open = op, !.candidates = ca]
  BY DEF Record, of
<1>7. \A id \in Ids : ce[id] = w.certain[id] \cup of(id)
  OBVIOUS
<1>8. ca \subseteq Held(st)
  BY <1>0
<1> HIDE DEF ce, op, ca, v
<1>9. /\ v.thoughts = th /\ v.certain = ce /\ v.candidates = ca
      /\ v.eliminated = w.eliminated /\ v.thrown = w.thrown
  BY <1>1, <1>6
<1>10. v \in Work
  BY <1>0, <1>5, <1>6 DEF Work
<1>11. \A id \in Ids : v.certain[id] \subseteq {o \in Held(st) : T[o] = id}
  BY <1>0, <1>4, <1>7, <1>9
<1>12. Grown(w, v)
  BY <1>7, <1>9 DEF Grown
<1>13. WorkSound(v, st, T)
  BY <1>8, <1>9, <1>10, <1>11 DEF WorkSound
<1>14. QED
  BY <1>3, <1>9, <1>12, <1>13 DEF v

\* Cards that are not id lose it.
LEMMA SubtractSound ==
  ASSUME NEW st, NEW T, TableSound(st, T), NEW w, WorkSound(w, st, T), NEW id,
         NEW orders \in SUBSET Held(st), \A o \in orders : T[o] # id
  PROVE  /\ AccSound(Subtract(w, st, orders, id), st, T)
         /\ Grown(w, Subtract(w, st, orders, id).w)
<1> DEFINE th    == Narrowed(w.thoughts, orders, id)
           found == Found(w, th, orders)
           list  == Ordered(found, SlotNumber(st))
           rec   == [k \in DOMAIN list |-> Sole(th, list[k])]
           ch    == orders # {}
<1>0. /\ w \in Work /\ \A o \in Held(st) : CardSound(w.thoughts[o], T[o])
      /\ T \in [Orders -> Ids] /\ Held(st) \subseteq Orders
  BY OneHolder DEF WorkSound, TableSound
<1>1. w.thoughts \in [Orders -> Card]
  BY <1>0, WorkFields
<1>2. \A o \in Orders : th[o] = IF o \in orders THEN Refilled(Losing(w.thoughts[o], id)) ELSE w.thoughts[o]
  BY DEF Narrowed
<1>3. ASSUME NEW o \in orders
      PROVE  CardSound(Refilled(Losing(w.thoughts[o], id)), T[o])
  BY <1>0, LosingSound
<1>4. th \in [Orders -> Card]
  <2>1. \A o \in Orders : th[o] \in Card
    BY <1>1, <1>2, <1>3 DEF CardSound
  <2>2. th = [o \in Orders |-> IF o \in orders THEN Refilled(Losing(w.thoughts[o], id)) ELSE w.thoughts[o]]
    BY DEF Narrowed
  <2>3. QED
    BY <1>2, <2>1, <2>2
<1>5. \A o \in Held(st) : CardSound(th[o], T[o])
  BY <1>0, <1>2, <1>3
<1>6. found \in SUBSET Held(st) /\ \A o \in found : Cardinality(th[o].possible) = 1
  BY DEF Found
<1> HIDE DEF th, found
<1>7. /\ WorkSound(Record(w, th, found), st, T)
      /\ Grown(w, Record(w, th, found))
      /\ \A o \in found : Sole(th, o) = T[o]
  BY <1>4, <1>5, <1>6, RecordSound
<1>8. list \in Seq(found)
  BY <1>6, SlotsOrdered
<1>9. rec \in Seq(Ids)
  <2>1. Len(list) \in Nat /\ DOMAIN list = 1 .. Len(list) /\ \A k \in 1 .. Len(list) : list[k] \in found
    BY <1>8
  <2>2. \A k \in 1 .. Len(list) : Sole(th, list[k]) \in Ids
    BY <1>0, <1>6, <1>7, <2>1
  <2> HIDE DEF list
  <2>3. rec \in [1 .. Len(list) -> Ids]
    BY <2>1, <2>2
  <2>4. QED
    BY <2>1, <2>3
<1>10. Subtract(w, st, orders, id) = [w |-> Record(w, th, found), changed |-> ch, recursive_ids |-> rec]
  BY DEF Subtract, RecordFound, Recorded, SoleIds, th, found
<1> HIDE DEF rec, ch
<1>11. ch \in BOOLEAN
  BY DEF ch
<1>12. Subtract(w, st, orders, id) \in Accs
  BY <1>7, <1>9, <1>10, <1>11 DEF Accs, WorkSound
<1>13. Subtract(w, st, orders, id).w = Record(w, th, found)
  BY <1>10
<1>14. QED
  BY <1>7, <1>12, <1>13 DEF AccSound

\* A card that is id is certain to be, or held by a player of exclude.
Accounted(w, st, T, id, exclude) ==
  \A o \in Held(st) : T[o] = id => o \in w.certain[id] \/ HeldBy(st, o) \in exclude

\* The assertion of update_map does not fail on sound work.
LEMMA AssertedSound ==
  ASSUME NEW st, NEW T, TableSound(st, T), NEW r, AccSound(r, st, T), NEW orders \in SUBSET Held(st)
  PROVE  /\ AccSound(Asserted(r, orders), st, T)
         /\ \A w : Grown(w, r.w) => Grown(w, Asserted(r, orders).w)
<1> DEFINE b == r.w.thrown \/ Failing(r.w, orders)
           v == [r.w EXCEPT !.thrown = b]
           a == Asserted(r, orders)
<1>0. /\ WorkSound(r.w, st, T) /\ DOMAIN r = {"w", "changed", "recursive_ids"}
      /\ r.changed \in BOOLEAN /\ r.recursive_ids \in Seq(Ids)
      /\ r \in Accs
  BY DEF AccSound, Accs
<1>1. /\ r.w \in Work /\ r.w.thrown = FALSE /\ \A o \in orders : r.w.thoughts[o].possible # {}
  BY <1>0 DEF WorkSound, CardSound
<1>2. b = FALSE
  BY <1>1 DEF Failing
<1>3. a = [r EXCEPT !.w = v]
  BY DEF Asserted
<1> HIDE DEF b
<1>4. DOMAIN r.w = {"thoughts", "certain", "open", "candidates", "eliminated", "thrown"}
  BY <1>1, WorkFields
<1>5. /\ v.thoughts = r.w.thoughts /\ v.certain = r.w.certain /\ v.candidates = r.w.candidates
      /\ v.eliminated = r.w.eliminated /\ v.thrown = FALSE
  BY <1>2, <1>4
<1>6. v \in Work
  BY <1>1, <1>2 DEF Work
<1> HIDE DEF v
<1>7. WorkSound(v, st, T)
  BY <1>0, <1>5, <1>6 DEF WorkSound
<1> HIDE DEF a
<1>8. a.w = v /\ a \in Accs
  BY <1>0, <1>3, <1>6 DEF Accs
<1>9. AccSound(a, st, T)
  BY <1>7, <1>8 DEF AccSound
<1>10. \A w : Grown(w, r.w) => Grown(w, a.w)
  BY <1>5, <1>8 DEF Grown
<1>11. QED
  BY <1>9, <1>10 DEF a

\* update_map takes an identity off cards that have another.
LEMMA UpdateMapSound ==
  ASSUME NEW st, NEW T, TableSound(st, T), NEW w, WorkSound(w, st, T), NEW id, NEW exclude,
         Accounted(w, st, T, id, exclude)
  PROVE  /\ AccSound(UpdateMap(w, st, id, exclude), st, T)
         /\ Grown(w, UpdateMap(w, st, id, exclude).w)
<1> DEFINE ignorant == Ignorant(w, st, id)
           orders   == {o \in UNION {st.hands[p] : p \in Players \ (exclude \cup ignorant)} :
                          id \in w.thoughts[o].possible /\ o \notin w.certain[id]}
           r        == Subtract(w, st, orders, id)
<1>1. orders \in SUBSET Held(st)
  BY DEF Held
<1>2. ASSUME NEW o \in orders
      PROVE  T[o] # id
  <2>1. PICK p \in Players \ exclude : o \in st.hands[p]
    OBVIOUS
  <2>2. o \in Held(st) /\ HeldBy(st, o) = p
    BY <1>1, <2>1, OneHolder
  <2>3. o \notin w.certain[id]
    OBVIOUS
  <2>4. QED
    BY <2>1, <2>2, <2>3 DEF Accounted
<1>3. UpdateMap(w, st, id, exclude) = Asserted(r, orders)
  BY DEF UpdateMap, Taken
<1> HIDE DEF orders
<1>4. AccSound(r, st, T) /\ Grown(w, r.w)
  BY <1>1, <1>2, SubtractSound
<1> HIDE DEF r
<1>5. QED
  BY <1>1, <1>3, <1>4, AssertedSound

\* When as many cards are certain as there are copies, they are the copies.
LEMMA AllKnownAccounted ==
  ASSUME NEW st, NEW T, TableSound(st, T), NEW w, WorkSound(w, st, T), NEW id \in Ids,
         AllKnown(w, st, id), NEW exclude
  PROVE  /\ Accounted(w, st, T, id, exclude)
         /\ \A o \in Undrawn(st) : T[o] # id
<1> DEFINE A == w.certain[id]
           B == Live(st, T, id)
<1>1. A \subseteq Held(st) /\ A \in SUBSET B
  BY DEF WorkSound, Live
<1>2. B = LiveAmong(st, T, {id})
  BY DEF Live, LiveAmong
<1>3. IsFiniteSet(B) /\ Cardinality(B) \in Nat
  BY <1>2, LiveFinite
<1>4. Cardinality(B) = Copies[id] - BaseCount(st, id) /\ BaseCount(st, id) \in Int
  BY DEF TableSound
<1>5. BaseCount(st, id) + Cardinality(A) = Copies[id]
  BY DEF AllKnown
<1> HIDE DEF A, B
<1>6. IsFiniteSet(A) /\ (Cardinality(B) = Cardinality(A) => B = A)
  BY <1>1, <1>3, FS_Subset
<1>7. Cardinality(A) \in Nat
  BY <1>6, FS_CardinalityType
<1>8. Copies[id] \in Int
  BY TableAssumption
<1>9. B = A
  BY <1>3, <1>4, <1>5, <1>6, <1>7, <1>8
<1>10. \A o \in Held(st) : T[o] = id => o \in A
  BY <1>9 DEF B, Live
<1>11. ASSUME NEW o \in Undrawn(st), T[o] = id
       PROVE  FALSE
  <2>1. o \in Held(st)
    BY <1>1, <1>9, <1>11 DEF B, Live
  <2>2. o <= st.cardOrder /\ o > st.cardOrder
    BY <2>1 DEF TableSound, Undrawn
  <2>3. o \in Int /\ st.cardOrder \in Int
    BY TableAssumption DEF Undrawn, Orders, TableSound
  <2>4. QED
    BY <2>2, <2>3
<1>12. QED
  BY <1>10, <1>11 DEF Accounted, A

\* A step of basic_elim's loop
LEMMA BasicStepSound ==
  ASSUME NEW st, NEW T, TableSound(st, T), NEW acc, AccSound(acc, st, T), NEW id \in Ids
  PROVE  /\ AccSound(BasicStep(acc, st, id), st, T)
         /\ Grown(acc.w, BasicStep(acc, st, id).w)
<1> DEFINE w == acc.w
           v == [w EXCEPT !.eliminated = @ \cup {id}]
<1>0. WorkSound(w, st, T)
  BY DEF AccSound
<1>1. CASE ~AllKnown(w, st, id)
  BY <1>1 DEF BasicStep, Grown
<1>2. CASE AllKnown(w, st, id)
  <2>1. Accounted(w, st, T, id, {}) /\ \A o \in Undrawn(st) : T[o] # id
    BY <1>0, <1>2, AllKnownAccounted
  <2>2. w \in Work
    BY <1>0 DEF WorkSound
  <2>3. /\ w.eliminated \in SUBSET Ids
        /\ DOMAIN w = {"thoughts", "certain", "open", "candidates", "eliminated", "thrown"}
    BY <2>2, WorkFields
  <2> HIDE DEF w
  <2>4. /\ v.thoughts = w.thoughts /\ v.certain = w.certain /\ v.candidates = w.candidates
        /\ v.eliminated = w.eliminated \cup {id} /\ v.thrown = w.thrown
    BY <2>3
  <2>5. v \in Work
    BY <2>2, <2>3 DEF Work
  <2>6. BasicStep(acc, st, id) = UpdateMap(v, st, id, {})
    BY <1>2 DEF BasicStep, w
  <2> HIDE DEF v
  <2>7. WorkSound(v, st, T)
    BY <1>0, <2>1, <2>4, <2>5 DEF WorkSound
  <2>8. Accounted(v, st, T, id, {})
    BY <2>1, <2>4 DEF Accounted
  <2>9. AccSound(UpdateMap(v, st, id, {}), st, T) /\ Grown(v, UpdateMap(v, st, id, {}).w)
    BY <2>7, <2>8, UpdateMapSound
  <2>10. Grown(w, UpdateMap(v, st, id, {}).w)
    BY <2>4, <2>9 DEF Grown
  <2>11. QED
    BY <2>6, <2>9, <2>10 DEF w
<1>3. QED
  BY <1>1, <1>2

\* A loop of N passes from a, the k-th of which takes x in A to s[<<k, x>>], and its course
Passes(N, A) == [(1 .. N) \X A -> A]

\* f gives what the loop has after every pass.
IsCourse(N, A, a, s, f) ==
  f \in [0 .. N -> A] /\ f[0] = a /\ \A k \in 1 .. N : f[k] = s[<<k, f[k - 1]>>]

\* A loop has a course.
LEMMA Iterated ==
  ASSUME NEW N \in Nat, NEW A, NEW a \in A, NEW s \in Passes(N, A)
  PROVE  \E f : IsCourse(N, A, a, s, f)
<1> DEFINE Course(n, f) == f \in [0 .. n -> A] /\ f[0] = a /\ \A k \in 1 .. n : f[k] = s[<<k, f[k - 1]>>]
           G == {n \in 0 .. N : \E f : Course(n, f)}
<1> USE DEF Passes
<1>1. 0 \in G
  <2> DEFINE f == [k \in 0 .. 0 |-> a]
  <2>1. Course(0, f)
    OBVIOUS
  <2> HIDE DEF f, Course
  <2>2. \E g : Course(0, g)
    BY <2>1, Zenon
  <2>3. QED
    BY <2>2
<1>2. ASSUME NEW n \in 1 .. N, n - 1 \in G
      PROVE  n \in G
  <2>1. PICK f : Course(n - 1, f)
    BY <1>2
  <2> DEFINE b == s[<<n, f[n - 1]>>]
             g == [k \in 0 .. n |-> IF k = n THEN b ELSE f[k]]
  <2>2. f[n - 1] \in A
    BY <2>1
  <2>3. b \in A
    BY <2>2
  <2>4. \A k \in 0 .. n : g[k] = IF k = n THEN b ELSE f[k]
    OBVIOUS
  <2>5. g \in [0 .. n -> A]
    <3> HIDE DEF b
    <3>1. \A k \in 0 .. n : k # n => k \in 0 .. n - 1
      OBVIOUS
    <3>2. \A k \in 0 .. n : (IF k = n THEN b ELSE f[k]) \in A
      BY <2>1, <2>3, <3>1
    <3>3. QED
      BY <3>2
  <2> HIDE DEF g
  <2>6. g[0] = a
    BY <2>1, <2>4
  <2>7. ASSUME NEW k \in 1 .. n
        PROVE  g[k] = s[<<k, g[k - 1]>>]
    <3>1. g[k - 1] = f[k - 1]
      BY <2>4
    <3>2. CASE k = n
      BY <2>4, <3>1, <3>2
    <3>3. CASE k # n
      <4>1. k \in 1 .. n - 1
        BY <3>3
      <4>2. g[k] = f[k] /\ f[k] = s[<<k, f[k - 1]>>]
        BY <2>1, <2>4, <4>1, <3>3
      <4>3. QED
        BY <3>1, <4>2
    <3>4. QED
      BY <3>2, <3>3
  <2>8. Course(n, g)
    BY <2>5, <2>6, <2>7
  <2>9. QED
    BY <2>8
<1>3. N \in G
  <2> HIDE DEF G
  <2>1. \A n \in 0 .. N : n \in G
    BY <1>1, <1>2, UpTo
  <2>2. QED
    BY <2>1
<1>4. PICK f : Course(N, f)
  BY <1>3
<1>5. IsCourse(N, A, a, s, f)
  BY <1>4 DEF IsCourse
<1> HIDE DEF G, Course
<1>6. QED
  BY <1>5, Zenon

\* A pass of basic_elim
LEMMA BasicPassSound ==
  ASSUME NEW st, NEW T, TableSound(st, T), NEW w, WorkSound(w, st, T), NEW ids \in Seq(Ids)
  PROVE  /\ AccSound(BasicPass(w, st, ids), st, T)
         /\ Grown(w, BasicPass(w, st, ids).w)
<1> DEFINE N == Len(ids)
           A == {x \in Accs : AccSound(x, st, T) /\ Grown(w, x.w)}
           a == Unchanged(w)
           s == [p \in (1 .. N) \X A |-> BasicStep(p[2], st, ids[p[1]])]
           pass == CHOOSE f : f = [k \in 0 .. N |-> IF k = 0 THEN a ELSE BasicStep(f[k - 1], st, ids[k])]
<1>1. N \in Nat /\ \A k \in 1 .. N : ids[k] \in Ids
  OBVIOUS
<1>2. a \in A
  <2>1. a \in Accs /\ a.w = w
    BY DEF Unchanged, Accs, WorkSound
  <2>2. QED
    BY <2>1 DEF AccSound, Grown
<1>3. ASSUME NEW k \in 1 .. N, NEW x \in A
      PROVE  BasicStep(x, st, ids[k]) \in A
  <2>1. AccSound(BasicStep(x, st, ids[k]), st, T) /\ Grown(x.w, BasicStep(x, st, ids[k]).w)
    BY <1>1, BasicStepSound
  <2>2. Grown(w, BasicStep(x, st, ids[k]).w)
    BY <2>1, GrownTransitive
  <2>3. QED
    BY <2>1, <2>2 DEF AccSound
<1>4. BasicPass(w, st, ids) = pass[N]
  BY DEF BasicPass
<1>5. A \in SUBSET {x \in Accs : AccSound(x, st, T) /\ Grown(w, x.w)}
  OBVIOUS
<1> HIDE DEF A, a, N
<1>6. s \in Passes(N, A) /\ \A k \in 1 .. N, x \in A : s[<<k, x>>] = BasicStep(x, st, ids[k])
  BY <1>3 DEF Passes
<1> HIDE DEF s
<1>7. PICK f : IsCourse(N, A, a, s, f)
  BY <1>1, <1>2, <1>6, Iterated, Zenon
<1> USE DEF IsCourse
<1>8. \A k \in 1 .. N : f[k] = BasicStep(f[k - 1], st, ids[k])
  <2> SUFFICES ASSUME NEW k \in 1 .. N PROVE f[k] = BasicStep(f[k - 1], st, ids[k])
    OBVIOUS
  <2>1. k - 1 \in 0 .. N
    BY <1>1
  <2>2. f[k - 1] \in A
    BY <1>7, <2>1
  <2>3. f[k] = s[<<k, f[k - 1]>>] /\ s[<<k, f[k - 1]>>] = BasicStep(f[k - 1], st, ids[k])
    BY <1>6, <1>7, <2>2
  <2>4. QED
    BY <2>3
<1>9. f = [k \in 0 .. N |-> IF k = 0 THEN a ELSE BasicStep(f[k - 1], st, ids[k])]
  BY <1>1, <1>7, <1>8
<1>10. pass = [k \in 0 .. N |-> IF k = 0 THEN a ELSE BasicStep(pass[k - 1], st, ids[k])]
  BY <1>9
<1> HIDE DEF pass
<1>11. pass[0] = a /\ \A k \in 1 .. N : pass[k] = BasicStep(pass[k - 1], st, ids[k])
  BY <1>1, <1>10
<1> DEFINE G == {k \in 0 .. N : pass[k] \in A}
<1>12. 0 \in G
  BY <1>1, <1>2, <1>11
<1>13. ASSUME NEW k \in 1 .. N, k - 1 \in G
       PROVE  k \in G
  BY <1>1, <1>3, <1>11, <1>13
<1>14. N \in G
  <2> HIDE DEF G
  <2>1. \A n \in 0 .. N : n \in G
    BY <1>1, <1>12, <1>13, UpTo
  <2>2. QED
    BY <1>1, <2>1
<1>15. pass[N] \in A
  BY <1>14
<1>16. QED
  BY <1>4, <1>5, <1>15

\* What basic_elim, gen_subset and the like return.
Outs == [w : Work, changed : BOOLEAN]

\* such a result whose cards are all sound
OutSound(r, st, T) == r \in Outs /\ WorkSound(r.w, st, T)

\* What a function that goes on from any result is expected to do.
MoreSound(more, st, T) ==
  \A acc \in Accs : AccSound(acc, st, T) => WorkSound(more[acc], st, T) /\ Grown(acc.w, more[acc])

\* The calls of basic_elim inside basic_elim
LEMMA RecurseSound ==
  ASSUME NEW st, NEW T, TableSound(st, T), NEW first, AccSound(first, st, T)
  PROVE  /\ OutSound(Recurse(Passing(st), first), st, T)
         /\ Grown(first.w, Recurse(Passing(st), first).w)
<1> DEFINE N == DeckSize
           again == Passing(st)
           Body(n, g) == [acc \in Accs |-> IF n = 0 \/ acc.recursive_ids = << >> THEN acc.w
                                           ELSE g[again[acc]]]
           Sol(n) == \E f : f = [k \in 0 .. n |-> Body(k, f[k - 1])]
           more == CHOOSE f : f = [k \in 0 .. N |-> Body(k, f[k - 1])]
           G == {n \in 0 .. N : Sol(n)}
           H == {n \in 0 .. N : MoreSound(more[n], st, T)}
<1>0. N \in Nat
  BY Finite
<1>1. Recurse(again, first) = [w |-> more[N][first], changed |-> first.changed]
  BY DEF Recurse
<1>2. \A g, h : Body(0, g) = Body(0, h)
  OBVIOUS
<1>3. ASSUME NEW n \in Nat, NEW g, MoreSound(g, st, T)
      PROVE  MoreSound(Body(n, g), st, T)
  <2> SUFFICES ASSUME NEW acc \in Accs, AccSound(acc, st, T)
               PROVE  WorkSound(Body(n, g)[acc], st, T) /\ Grown(acc.w, Body(n, g)[acc])
    BY DEF MoreSound
  <2> DEFINE next == BasicPass(acc.w, st, acc.recursive_ids)
  <2>1. acc.recursive_ids \in Seq(Ids) /\ WorkSound(acc.w, st, T)
    BY DEF AccSound, Accs
  <2>2. AccSound(next, st, T) /\ Grown(acc.w, next.w)
    BY <2>1, BasicPassSound
  <2>3. again[acc] = next
    BY DEF Passing
  <2>4. Body(n, g)[acc] = IF n = 0 \/ acc.recursive_ids = << >> THEN acc.w ELSE g[next]
    BY <2>3
  <2> HIDE DEF next, Body
  <2>5. WorkSound(g[next], st, T) /\ Grown(next.w, g[next])
    BY <1>3, <2>2 DEF MoreSound, AccSound
  <2>6. Grown(acc.w, g[next])
    BY <2>2, <2>5, GrownTransitive
  <2>7. Grown(acc.w, acc.w)
    BY DEF Grown
  <2>8. QED
    BY <2>1, <2>4, <2>5, <2>6, <2>7
<1>4. ASSUME NEW g
      PROVE  MoreSound(Body(0, g), st, T)
  BY DEF MoreSound, AccSound, Grown
<1> HIDE DEF Body, N
<1>5. 0 \in G
  <2> DEFINE f == [k \in 0 .. 0 |-> Body(0, 0)]
  <2>1. \A k \in 0 .. 0 : Body(0, 0) = Body(k, f[k - 1])
    <3> HIDE DEF f
    <3>1. QED
      BY <1>2
  <2>2. f = [k \in 0 .. 0 |-> Body(k, f[k - 1])]
    BY <2>1
  <2> HIDE DEF f
  <2>3. Sol(0)
    BY <2>2
  <2> HIDE DEF Sol
  <2>4. QED
    BY <1>0, <2>3
<1>6. ASSUME NEW n \in 1 .. N, n - 1 \in G
      PROVE  n \in G
  <2>1. PICK f : f = [k \in 0 .. n - 1 |-> Body(k, f[k - 1])]
    BY <1>6
  <2> DEFINE g == [k \in 0 .. n |-> IF k = n THEN Body(n, f[n - 1]) ELSE f[k]]
  <2>2. \A k \in 0 .. n - 1 : f[k] = Body(k, f[k - 1])
    BY <2>1
  <2>3. \A k \in 0 .. n : g[k] = IF k = n THEN Body(n, f[n - 1]) ELSE f[k]
    OBVIOUS
  <2>4. g = [k \in 0 .. n |-> g[k]]
    OBVIOUS
  <2> HIDE DEF g
  <2>5. ASSUME NEW k \in 0 .. n
        PROVE  g[k] = Body(k, g[k - 1])
    <3>1. CASE k = 0
      <4>1. n # 0 /\ 0 \in 0 .. n - 1
        BY <1>0
      <4>2. g[0] = f[0] /\ f[0] = Body(0, f[0 - 1])
        BY <2>2, <2>3, <4>1
      <4>3. Body(0, f[0 - 1]) = Body(0, g[0 - 1])
        BY <1>2
      <4>4. QED
        BY <3>1, <4>2, <4>3
    <3>2. CASE k # 0
      <4>1. k - 1 \in 0 .. n /\ k - 1 # n
        BY <1>0, <3>2
      <4>2. g[k - 1] = f[k - 1]
        BY <2>3, <4>1
      <4>3. CASE k = n
        BY <2>3, <4>2, <4>3
      <4>4. CASE k # n
        <5>1. k \in 0 .. n - 1
          BY <1>0, <4>4
        <5>2. g[k] = f[k] /\ f[k] = Body(k, f[k - 1])
          BY <2>2, <2>3, <4>4, <5>1
        <5>3. QED
          BY <4>2, <5>2
      <4>5. QED
        BY <4>3, <4>4
    <3>3. QED
      BY <3>1, <3>2
  <2>6. g = [k \in 0 .. n |-> Body(k, g[k - 1])]
    BY <2>4, <2>5
  <2>7. Sol(n)
    BY <2>6
  <2> HIDE DEF Sol
  <2>8. n \in 0 .. N
    BY <1>0
  <2>9. QED
    BY <2>7, <2>8
<1>7. Sol(N)
  <2>1. G \in SUBSET {n \in 0 .. N : Sol(n)}
    OBVIOUS
  <2> HIDE DEF G, Sol
  <2>2. \A n \in 0 .. N : n \in G
    BY <1>0, <1>5, <1>6, UpTo
  <2>3. N \in G
    BY <1>0, <2>2
  <2>4. QED
    BY <2>1, <2>3
<1>8. more = [k \in 0 .. N |-> Body(k, more[k - 1])]
  BY <1>7
<1> HIDE DEF more, G, Sol
<1>9. \A k \in 0 .. N : more[k] = Body(k, more[k - 1])
  BY <1>8
<1>10. 0 \in H
  BY <1>0, <1>4, <1>9
<1>11. ASSUME NEW k \in 1 .. N, k - 1 \in H
       PROVE  k \in H
  <2>1. k \in Nat /\ k \in 0 .. N /\ MoreSound(more[k - 1], st, T)
    BY <1>0, <1>11
  <2>2. MoreSound(Body(k, more[k - 1]), st, T)
    BY <1>3, <2>1
  <2>3. QED
    BY <1>9, <2>1, <2>2
<1>12. MoreSound(more[N], st, T)
  <2>1. H \in SUBSET {n \in 0 .. N : MoreSound(more[n], st, T)}
    OBVIOUS
  <2> HIDE DEF H
  <2>2. \A n \in 0 .. N : n \in H
    BY <1>0, <1>10, <1>11, UpTo
  <2>3. N \in H
    BY <1>0, <2>2
  <2>4. QED
    BY <2>1, <2>3
<1>13. /\ first \in Accs /\ first.changed \in BOOLEAN
       /\ WorkSound(more[N][first], st, T) /\ Grown(first.w, more[N][first])
  BY <1>12 DEF MoreSound, AccSound, Accs
<1>14. more[N][first] \in Work
  BY <1>13 DEF WorkSound
<1>15. QED
  BY <1>1, <1>13, <1>14 DEF OutSound, Outs

\* basic_elim
LEMMA BasicElimSound ==
  ASSUME NEW st, NEW T, TableSound(st, T), NEW w, WorkSound(w, st, T), NEW ids \in Seq(Ids)
  PROVE  /\ OutSound(BasicElim(w, st, ids), st, T)
         /\ Grown(w, BasicElim(w, st, ids).w)
<1> DEFINE first == BasicPass(w, st, ids)
<1>1. AccSound(first, st, T) /\ Grown(w, first.w)
  BY BasicPassSound
<1>2. BasicElim(w, st, ids) = Recurse(Passing(st), first)
  BY DEF BasicElim
<1> HIDE DEF first
<1>3. QED
  BY <1>1, <1>2, RecurseSound, GrownTransitive

-----------------------------------------------------------------------------
(* endgame_elim *)

\* Copies of an identity that are as many as those left are all of them.
LEMMA CountedOut ==
  ASSUME NEW st, NEW T, TableSound(st, T), NEW id \in Ids, NEW S \in SUBSET Live(st, T, id),
         BaseCount(st, id) + Cardinality(S) = Copies[id]
  PROVE  S = Live(st, T, id)
<1> DEFINE B == Live(st, T, id)
<1>1. B = LiveAmong(st, T, {id})
  BY DEF Live, LiveAmong
<1>2. IsFiniteSet(B) /\ Cardinality(B) \in Nat
  BY <1>1, LiveFinite
<1>3. Cardinality(B) = Copies[id] - BaseCount(st, id) /\ BaseCount(st, id) \in Int
  BY DEF TableSound
<1>4. S \in SUBSET B
  OBVIOUS
<1> HIDE DEF B
<1>5. IsFiniteSet(S) /\ (Cardinality(B) = Cardinality(S) => B = S)
  BY <1>2, <1>4, FS_Subset
<1>6. Cardinality(S) \in Nat /\ Copies[id] \in Int
  BY <1>5, FS_CardinalityType, TableAssumption
<1>7. QED
  BY <1>2, <1>3, <1>5, <1>6 DEF B

\* A card that can be seen to be id is id.
LEMMA SeenTrue ==
  ASSUME NEW st, NEW T, TableSound(st, T), NEW w, WorkSound(w, st, T), NEW o \in Held(st)
  PROVE  /\ T[o] \in Ids /\ o \in Orders
         /\ VisibleId(st, w, o) \in {NoId, T[o]}
         /\ \A id \in Ids : HasIt(st, w, o, id) => T[o] = id
         /\ ~HasIt(st, w, o, T[o]) => VisibleId(st, w, o) = NoId
<1>1. o \in Orders /\ T[o] \in Ids /\ st.deck[o] \in {NoId, T[o]} /\ CardSound(w.thoughts[o], T[o])
  BY OneHolder DEF TableSound, WorkSound
<1>2. Identity(w.thoughts[o]) \in {NoId, T[o]}
  BY <1>1, IdentityTrue
<1>3. QED
  BY <1>1, <1>2, Finite DEF VisibleId, HasIt

\* A step of endgame_elim
LEMMA EndgameStepSound ==
  ASSUME NEW st, NEW T, TableSound(st, T), NEW w, WorkSound(w, st, T), NEW id \in Ids
  PROVE  /\ WorkSound(EndgameStep(w, st, id), st, T)
         /\ Grown(w, EndgameStep(w, st, id))
<1> DEFINE H == UNION {Having(st, w, p, id) : p \in Players}
           orders == {o \in UNION {st.hands[p] : p \in Players \ Holders(w, st, id)} :
                        id \in w.thoughts[o].possible /\ ~HasIt(st, w, o, id)}
<1>1. orders \in SUBSET Held(st)
  BY DEF Held
<1>2. H \in SUBSET Live(st, T, id)
  <2>1. H \subseteq {o \in Held(st) : HasIt(st, w, o, id)}
    BY DEF Having, Held
  <2>2. QED
    BY <2>1, SeenTrue DEF Live
<1>3. ASSUME NEW o \in orders, T[o] = id
      PROVE  FALSE
  <2>1. PICK p \in Players \ Holders(w, st, id) : o \in st.hands[p]
    OBVIOUS
  <2>2. o \in Held(st) /\ ~HasIt(st, w, o, id)
    BY <1>1
  <2>3. VisibleId(st, w, o) = NoId
    BY <1>3, <2>2, SeenTrue
  <2>4. BaseCount(st, id) + Cardinality(H) = Copies[id]
    BY <2>1, <2>3 DEF Holders
  <2>5. H = Live(st, T, id)
    BY <1>2, <2>4, CountedOut
  <2>6. o \in H
    BY <1>3, <2>2, <2>5 DEF Live
  <2>7. HasIt(st, w, o, id)
    BY <2>6 DEF Having
  <2>8. QED
    BY <2>2, <2>7
<1>4. EndgameStep(w, st, id) = Subtract(w, st, orders, id).w
  BY DEF EndgameStep
<1> HIDE DEF orders
<1>5. QED
  BY <1>1, <1>3, <1>4, SubtractSound DEF AccSound

\* endgame_elim
LEMMA EndgameElimSound ==
  ASSUME NEW st, NEW T, TableSound(st, T), NEW w, WorkSound(w, st, T), NEW ids \in Seq(Ids), NEW view
  PROVE  /\ WorkSound(EndgameElim(w, st, view, ids), st, T)
         /\ Grown(w, EndgameElim(w, st, view, ids))
<1> DEFINE N == Len(ids)
           A == {x \in Work : WorkSound(x, st, T) /\ Grown(w, x)}
           s == [p \in (1 .. N) \X A |-> EndgameStep(p[2], st, ids[p[1]])]
           pass == CHOOSE f : f = [k \in 0 .. N |-> IF k = 0 THEN w ELSE EndgameStep(f[k - 1], st, ids[k])]
<1>1. N \in Nat /\ \A k \in 1 .. N : ids[k] \in Ids
  OBVIOUS
<1>2. w \in A
  BY DEF WorkSound, Grown
<1>3. ASSUME NEW k \in 1 .. N, NEW x \in A
      PROVE  EndgameStep(x, st, ids[k]) \in A
  <2>1. WorkSound(EndgameStep(x, st, ids[k]), st, T) /\ Grown(x, EndgameStep(x, st, ids[k]))
    BY <1>1, EndgameStepSound
  <2>2. Grown(w, EndgameStep(x, st, ids[k]))
    BY <2>1, GrownTransitive
  <2>3. QED
    BY <2>1, <2>2 DEF WorkSound
<1>4. EndgamePass(w, st, ids) = pass[N]
  BY DEF EndgamePass
<1>5. A \in SUBSET {x \in Work : WorkSound(x, st, T) /\ Grown(w, x)}
  OBVIOUS
<1> HIDE DEF A, N
<1>6. s \in Passes(N, A) /\ \A k \in 1 .. N, x \in A : s[<<k, x>>] = EndgameStep(x, st, ids[k])
  BY <1>3 DEF Passes
<1> HIDE DEF s
<1>7. PICK f : IsCourse(N, A, w, s, f)
  BY <1>1, <1>2, <1>6, Iterated, Zenon
<1> USE DEF IsCourse
<1>8. \A k \in 1 .. N : f[k] = EndgameStep(f[k - 1], st, ids[k])
  <2> SUFFICES ASSUME NEW k \in 1 .. N PROVE f[k] = EndgameStep(f[k - 1], st, ids[k])
    OBVIOUS
  <2>1. k - 1 \in 0 .. N
    BY <1>1
  <2>2. f[k - 1] \in A
    BY <1>7, <2>1
  <2>3. f[k] = s[<<k, f[k - 1]>>] /\ s[<<k, f[k - 1]>>] = EndgameStep(f[k - 1], st, ids[k])
    BY <1>6, <1>7, <2>2
  <2>4. QED
    BY <2>3
<1>9. f = [k \in 0 .. N |-> IF k = 0 THEN w ELSE EndgameStep(f[k - 1], st, ids[k])]
  BY <1>1, <1>7, <1>8
<1>10. pass = [k \in 0 .. N |-> IF k = 0 THEN w ELSE EndgameStep(pass[k - 1], st, ids[k])]
  BY <1>9
<1> HIDE DEF pass
<1>11. pass[0] = w /\ \A k \in 1 .. N : pass[k] = EndgameStep(pass[k - 1], st, ids[k])
  BY <1>1, <1>10
<1> DEFINE G == {k \in 0 .. N : pass[k] \in A}
<1>12. 0 \in G
  BY <1>1, <1>2, <1>11
<1>13. ASSUME NEW k \in 1 .. N, k - 1 \in G
       PROVE  k \in G
  BY <1>1, <1>3, <1>11, <1>13
<1>14. N \in G
  <2> HIDE DEF G
  <2>1. \A n \in 0 .. N : n \in G
    BY <1>1, <1>12, <1>13, UpTo
  <2>2. QED
    BY <1>1, <2>1
<1>15. pass[N] \in A
  BY <1>14
<1>16. WorkSound(EndgamePass(w, st, ids), st, T) /\ Grown(w, EndgamePass(w, st, ids))
  BY <1>4, <1>5, <1>15
<1>17. QED
  BY <1>16 DEF EndgameElim, Grown

-----------------------------------------------------------------------------
(* perform_elim *)

\* The cards seen to be an identity take it off others' cards when they are all copies.
LEMMA ShareSound ==
  ASSUME NEW st, NEW T, TableSound(st, T), NEW x, AccSound(x, st, T), NEW id \in Ids,
         NEW group \in SUBSET Held(st), \A o \in group : T[o] = id
  PROVE  /\ AccSound(Share(x, st, id, group), st, T)
         /\ Grown(x.w, Share(x, st, id, group).w)
<1> DEFINE C == x.w.certain[id]
           D == C \ group
           U == group \cup D
           B == LiveAmong(st, T, {id})
<1>0. WorkSound(x.w, st, T)
  BY DEF AccSound
<1>1. C \subseteq {o \in Held(st) : T[o] = id}
  BY <1>0 DEF WorkSound
<1>2. group \in SUBSET B /\ D \in SUBSET B /\ U \in SUBSET B /\ group \cap D = {}
  BY <1>1 DEF LiveAmong
<1>3. IsFiniteSet(B) /\ Cardinality(B) \in Nat
  BY LiveFinite
<1>4. TotalMultiplicity(st, {id}) = Cardinality(B)
  BY Multiplicity
<1>5. \A o \in Held(st) : T[o] = id => o \in B
  BY DEF LiveAmong
<1>6. CASE Cardinality(group) < TotalMultiplicity(st, {id}) - Cardinality(D)
  BY <1>6 DEF Share, Grown
<1>7. CASE ~(Cardinality(group) < TotalMultiplicity(st, {id}) - Cardinality(D))
  <2>1. U = group \cup D
    OBVIOUS
  <2> HIDE DEF B, D, U
  <2>2. IsFiniteSet(group) /\ IsFiniteSet(D)
    BY <1>2, <1>3, FS_Subset
  <2>3. IsFiniteSet(U) /\ Cardinality(U) <= Cardinality(B) /\ (Cardinality(B) = Cardinality(U) => B = U)
    BY <1>2, <1>3, FS_Subset
  <2>4. Cardinality(group) \in Nat /\ Cardinality(D) \in Nat /\ Cardinality(U) \in Nat
    BY <2>2, <2>3, FS_CardinalityType
  <2>5. Cardinality(U) = Cardinality(group) + Cardinality(D) - Cardinality(group \cap D)
    BY <2>1, <2>2, FS_Union
  <2>6. Cardinality(group \cap D) = 0
    BY <1>2, FS_EmptySet
  <2>7. B = U
    BY <1>3, <1>4, <1>7, <2>3, <2>4, <2>5, <2>6
  <2>8. ASSUME NEW o \in Held(st), T[o] = id
        PROVE  o \in C \/ HeldBy(st, o) \in Holding(st, group)
    <3>1. o \in group \/ o \in D
      BY <1>5, <2>1, <2>7, <2>8
    <3>2. QED
      BY <3>1 DEF Holding, D
  <2>9. Accounted(x.w, st, T, id, Holding(st, group))
    BY <2>8 DEF Accounted
  <2>10. Share(x, st, id, group) = UpdateMap(x.w, st, id, Holding(st, group))
    BY <1>7 DEF Share, D
  <2>11. QED
    BY <1>0, <2>9, <2>10, UpdateMapSound
<1>8. QED
  BY <1>6, <1>7

\* The groups are in order of their first cards.
LEMMA GroupsIn ==
  ASSUME NEW st, NEW T, TableSound(st, T), NEW w, WorkSound(w, st, T), NEW entries \in SUBSET Held(st)
  PROVE  Groups(w, st, entries) \in Seq(Ids)
<1> DEFINE ids == {VisibleId(st, w, o) : o \in entries} \ {NoId}
           Slots2(id) == {SlotNumber(st)[o] : o \in Group(w, st, entries, id)}
           first == [id \in ids |-> Min(Slots2(id))]
<1>1. ids \in SUBSET Ids
  BY SeenTrue
<1>2. IsFiniteSet(ids)
  BY <1>1, Finite, FS_Subset
<1>3. /\ \A o \in entries : SlotNumber(st)[o] \in Nat
      /\ \A o, q \in entries : SlotNumber(st)[o] = SlotNumber(st)[q] => o = q
  BY SlotsOrdered
<1>4. ASSUME NEW id \in ids
      PROVE  \E o \in entries : VisibleId(st, w, o) = id /\ first[id] = SlotNumber(st)[o]
  <2>1. Slots2(id) \in SUBSET Nat /\ Slots2(id) # {}
    BY <1>3 DEF Group
  <2>2. \E n \in Slots2(id) : \A m \in Slots2(id) : n <= m
    <3> HIDE DEF Slots2
    <3>1. QED
      BY <2>1, Least
  <2>3. Min(Slots2(id)) \in Slots2(id)
    <3> HIDE DEF Slots2
    <3>1. QED
      BY <2>2 DEF Min
  <2>4. first[id] = Min(Slots2(id))
    OBVIOUS
  <2> HIDE DEF first
  <2>5. QED
    BY <2>3, <2>4 DEF Group
<1>5. \A id \in ids : first[id] \in Int
  <2> HIDE DEF first
  <2>1. QED
    BY <1>3, <1>4
<1>6. ASSUME NEW x \in ids, NEW y \in ids, first[x] = first[y]
      PROVE  x = y
  <2> HIDE DEF first
  <2>1. PICK o \in entries : VisibleId(st, w, o) = x /\ first[x] = SlotNumber(st)[o]
    BY <1>4
  <2>2. PICK q \in entries : VisibleId(st, w, q) = y /\ first[y] = SlotNumber(st)[q]
    BY <1>4
  <2>3. o = q
    BY <1>3, <1>6, <2>1, <2>2
  <2>4. QED
    BY <2>1, <2>2, <2>3
<1>7. Groups(w, st, entries) = Ordered(ids, first)
  BY DEF Groups, GroupOrder
<1> HIDE DEF ids, first
<1>8. Ordered(ids, first) \in Seq(ids)
  BY <1>2, <1>5, <1>6, OrderedIn
<1>9. QED
  BY <1>1, <1>7, <1>8

\* The groups share what they know.
LEMMA SymmetricPairsSound ==
  ASSUME NEW st, NEW T, TableSound(st, T), NEW w, WorkSound(w, st, T), NEW entries \in SUBSET Held(st)
  PROVE  /\ AccSound(SymmetricPairs(w, st, entries), st, T)
         /\ Grown(w, SymmetricPairs(w, st, entries).w)
<1> DEFINE ids == Groups(w, st, entries)
           N == Len(ids)
           A == {x \in Accs : AccSound(x, st, T) /\ Grown(w, x.w)}
           a == Unchanged(w)
           Step(k, x) == Share(x, st, ids[k], Group(w, st, entries, ids[k]))
           s == [p \in (1 .. N) \X A |-> Step(p[1], p[2])]
           pass == CHOOSE f : f = [k \in 0 .. N |-> IF k = 0 THEN a ELSE Step(k, f[k - 1])]
<1>0. ids \in Seq(Ids)
  BY GroupsIn
<1>1. N \in Nat /\ \A k \in 1 .. N : ids[k] \in Ids
  <2> HIDE DEF ids
  <2>1. QED
    BY <1>0
<1>2. a \in A
  <2>1. a \in Accs /\ a.w = w
    BY DEF Unchanged, Accs, WorkSound
  <2>2. QED
    BY <2>1 DEF AccSound, Grown
<1>3. ASSUME NEW k \in 1 .. N, NEW x \in A
      PROVE  Step(k, x) \in A
  <2> DEFINE id == ids[k]
             group == Group(w, st, entries, id)
  <2>1. id \in Ids
    BY <1>1
  <2>2. group \in SUBSET Held(st) /\ \A o \in group : VisibleId(st, w, o) = id
    BY DEF Group
  <2>3. \A o \in group : T[o] = id
    <3> HIDE DEF group, id
    <3>1. QED
      BY <2>1, <2>2, SeenTrue, Finite
  <2>4. Step(k, x) = Share(x, st, id, group)
    OBVIOUS
  <2> HIDE DEF group, id, Step
  <2>5. AccSound(Step(k, x), st, T) /\ Grown(x.w, Step(k, x).w)
    BY <2>1, <2>2, <2>3, <2>4, ShareSound
  <2>6. Grown(w, Step(k, x).w)
    BY <2>5, GrownTransitive
  <2>7. QED
    BY <2>5, <2>6 DEF AccSound
<1>4. SymmetricPairs(w, st, entries) = pass[N]
  BY DEF SymmetricPairs, ShareAll
<1>5. A \in SUBSET {x \in Accs : AccSound(x, st, T) /\ Grown(w, x.w)}
  OBVIOUS
<1> HIDE DEF A, a, N, Step
<1>6. s \in Passes(N, A) /\ \A k \in 1 .. N, x \in A : s[<<k, x>>] = Step(k, x)
  BY <1>3 DEF Passes
<1> HIDE DEF s
<1>7. PICK f : IsCourse(N, A, a, s, f)
  BY <1>1, <1>2, <1>6, Iterated, Zenon
<1> USE DEF IsCourse
<1>8. \A k \in 1 .. N : f[k] = Step(k, f[k - 1])
  <2> SUFFICES ASSUME NEW k \in 1 .. N PROVE f[k] = Step(k, f[k - 1])
    OBVIOUS
  <2>1. k - 1 \in 0 .. N
    BY <1>1
  <2>2. f[k - 1] \in A
    BY <1>7, <2>1
  <2>3. f[k] = s[<<k, f[k - 1]>>] /\ s[<<k, f[k - 1]>>] = Step(k, f[k - 1])
    BY <1>6, <1>7, <2>2
  <2>4. QED
    BY <2>3
<1>9. f = [k \in 0 .. N |-> IF k = 0 THEN a ELSE Step(k, f[k - 1])]
  BY <1>1, <1>7, <1>8
<1>10. pass = [k \in 0 .. N |-> IF k = 0 THEN a ELSE Step(k, pass[k - 1])]
  BY <1>9
<1> HIDE DEF pass
<1>11. pass[0] = a /\ \A k \in 1 .. N : pass[k] = Step(k, pass[k - 1])
  BY <1>1, <1>10
<1> DEFINE G == {k \in 0 .. N : pass[k] \in A}
<1>12. 0 \in G
  BY <1>1, <1>2, <1>11
<1>13. ASSUME NEW k \in 1 .. N, k - 1 \in G
       PROVE  k \in G
  BY <1>1, <1>3, <1>11, <1>13
<1>14. N \in G
  <2> HIDE DEF G
  <2>1. \A n \in 0 .. N : n \in G
    BY <1>1, <1>12, <1>13, UpTo
  <2>2. QED
    BY <1>1, <2>1
<1>15. pass[N] \in A
  BY <1>14
<1>16. QED
  BY <1>4, <1>5, <1>15

\* The entries take the identities they account for off others' cards.
LEMMA NakedPairsSound ==
  ASSUME NEW st, NEW T, TableSound(st, T), NEW shared, AccSound(shared, st, T), NEW entries,
         NEW ids \in Seq(Ids),
         \A k \in 1 .. Len(ids) : Accounted(shared.w, st, T, ids[k], Holding(st, entries))
  PROVE  /\ AccSound(NakedPairs(shared, st, entries, ids), st, T)
         /\ Grown(shared.w, NakedPairs(shared, st, entries, ids).w)
<1> DEFINE N == Len(ids)
           A == {x \in Accs : AccSound(x, st, T) /\ Grown(shared.w, x.w)}
           Step(k, x) == UpdateMap(x.w, st, ids[k], Holding(st, entries))
           s == [p \in (1 .. N) \X A |-> Step(p[1], p[2])]
           pass == CHOOSE f : f = [k \in 0 .. N |-> IF k = 0 THEN shared ELSE Step(k, f[k - 1])]
<1>1. N \in Nat /\ \A k \in 1 .. N : ids[k] \in Ids
  OBVIOUS
<1>2. shared \in A
  BY DEF AccSound, Grown
<1>3. ASSUME NEW k \in 1 .. N, NEW x \in A
      PROVE  Step(k, x) \in A
  <2>1. WorkSound(x.w, st, T) /\ Grown(shared.w, x.w)
    BY DEF AccSound
  <2>2. Accounted(x.w, st, T, ids[k], Holding(st, entries))
    <3>1. Accounted(shared.w, st, T, ids[k], Holding(st, entries)) /\ ids[k] \in Ids
      BY <1>1
    <3>2. QED
      BY <2>1, <3>1 DEF Accounted, Grown
  <2>3. AccSound(Step(k, x), st, T) /\ Grown(x.w, Step(k, x).w)
    BY <2>1, <2>2, UpdateMapSound
  <2> HIDE DEF Step
  <2>4. Grown(shared.w, Step(k, x).w)
    BY <2>1, <2>3, GrownTransitive
  <2>5. QED
    BY <2>3, <2>4 DEF AccSound
<1>4. NakedPairs(shared, st, entries, ids) = pass[N]
  BY DEF NakedPairs
<1>5. A \in SUBSET {x \in Accs : AccSound(x, st, T) /\ Grown(shared.w, x.w)}
  OBVIOUS
<1> HIDE DEF A, N, Step
<1>6. s \in Passes(N, A) /\ \A k \in 1 .. N, x \in A : s[<<k, x>>] = Step(k, x)
  BY <1>3 DEF Passes
<1> HIDE DEF s
<1>7. PICK f : IsCourse(N, A, shared, s, f)
  BY <1>1, <1>2, <1>6, Iterated, Zenon
<1> USE DEF IsCourse
<1>8. \A k \in 1 .. N : f[k] = Step(k, f[k - 1])
  <2> SUFFICES ASSUME NEW k \in 1 .. N PROVE f[k] = Step(k, f[k - 1])
    OBVIOUS
  <2>1. k - 1 \in 0 .. N
    BY <1>1
  <2>2. f[k - 1] \in A
    BY <1>7, <2>1
  <2>3. f[k] = s[<<k, f[k - 1]>>] /\ s[<<k, f[k - 1]>>] = Step(k, f[k - 1])
    BY <1>6, <1>7, <2>2
  <2>4. QED
    BY <2>3
<1>9. f = [k \in 0 .. N |-> IF k = 0 THEN shared ELSE Step(k, f[k - 1])]
  BY <1>1, <1>7, <1>8
<1>10. pass = [k \in 0 .. N |-> IF k = 0 THEN shared ELSE Step(k, pass[k - 1])]
  BY <1>9
<1> HIDE DEF pass
<1>11. pass[0] = shared /\ \A k \in 1 .. N : pass[k] = Step(k, pass[k - 1])
  BY <1>1, <1>10
<1> DEFINE G == {k \in 0 .. N : pass[k] \in A}
<1>12. 0 \in G
  BY <1>1, <1>2, <1>11
<1>13. ASSUME NEW k \in 1 .. N, k - 1 \in G
       PROVE  k \in G
  BY <1>1, <1>3, <1>11, <1>13
<1>14. N \in G
  <2> HIDE DEF G
  <2>1. \A n \in 0 .. N : n \in G
    BY <1>1, <1>12, <1>13, UpTo
  <2>2. QED
    BY <1>1, <2>1
<1>15. pass[N] \in A
  BY <1>14
<1>16. QED
  BY <1>4, <1>5, <1>15

\* perform_elim with entries that account for ids
LEMMA PerformElimSound ==
  ASSUME NEW st, NEW T, TableSound(st, T), NEW w, WorkSound(w, st, T), NEW entries \in SUBSET Held(st),
         NEW ids \in SUBSET Ids, \A id \in ids : Accounted(w, st, T, id, Holding(st, entries))
  PROVE  /\ OutSound(PerformElim(w, st, entries, ids), st, T)
         /\ Grown(w, PerformElim(w, st, entries, ids).w)
<1> DEFINE list    == InOrder(ids)
           shared  == SymmetricPairs(w, st, entries)
           crossed == NakedPairs(shared, st, entries, list)
           basic   == BasicElim(crossed.w, st, list)
           r       == PerformElim(w, st, entries, ids)
<1>1. list \in Seq(Ids) /\ list \in Seq(ids)
  BY InOrderIds
<1>2. AccSound(shared, st, T) /\ Grown(w, shared.w)
  BY SymmetricPairsSound
<1>3. r = [basic EXCEPT !.changed = @ \/ crossed.changed]
  BY DEF PerformElim, WithBasicElim
<1> HIDE DEF list, shared
<1>4. \A k \in 1 .. Len(list) : list[k] \in ids
  BY <1>1
<1>5. \A k \in 1 .. Len(list) : Accounted(shared.w, st, T, list[k], Holding(st, entries))
  BY <1>2, <1>4 DEF Accounted, Grown
<1>6. AccSound(crossed, st, T) /\ Grown(shared.w, crossed.w)
  BY <1>1, <1>2, <1>5, NakedPairsSound
<1> HIDE DEF crossed
<1>7. WorkSound(crossed.w, st, T) /\ crossed.changed \in BOOLEAN
  BY <1>6 DEF AccSound, Accs
<1>8. OutSound(basic, st, T) /\ Grown(crossed.w, basic.w)
  BY <1>1, <1>7, BasicElimSound
<1> HIDE DEF basic, r
<1>9. basic \in Outs /\ WorkSound(basic.w, st, T)
  BY <1>8 DEF OutSound
<1>10. r \in Outs /\ r.w = basic.w
  BY <1>3, <1>7, <1>9 DEF Outs
<1>11. OutSound(r, st, T)
  BY <1>9, <1>10 DEF OutSound
<1>12. Grown(w, r.w)
  BY <1>2, <1>6, <1>8, <1>10, GrownTransitive
<1>13. QED
  BY <1>11, <1>12 DEF r

-----------------------------------------------------------------------------
(* gen_subset *)

\* The contained cards and those that are certain elsewhere are among acc_ids.
CallSound(call, st, T) ==
  /\ call \in Calls
  /\ WorkSound(call.w, st, T)
  /\ call.contained \subseteq {o \in Held(st) : T[o] \in call.acc_ids}
  /\ call.certains \subseteq {o \in Held(st) : T[o] \in call.acc_ids /\ o \in call.w.certain[T[o]]}
  /\ call.contained \cap call.certains = {}

\* The fields of a call.
LEMMA CallFields ==
  ASSUME NEW call \in Calls
  PROVE  /\ call.w \in Work /\ call.contained \in SUBSET Orders /\ call.acc_ids \in SUBSET Ids
         /\ call.certains \in SUBSET Orders /\ call.nextIndex \in 0 .. DeckSize
         /\ DOMAIN call = {"w", "contained", "acc_ids", "certains", "nextIndex"}
BY DEF Calls

\* A subset that is tried accounts for its identities.
LEMMA TriedSound ==
  ASSUME NEW st, NEW T, TableSound(st, T), NEW call, CallSound(call, st, T)
  PROVE  /\ OutSound(Tried(Performing(st), st, call), st, T)
         /\ Grown(call.w, Tried(Performing(st), st, call).w)
<1> DEFINE C == call.contained
           D == call.certains
           U == C \cup D
           ids == call.acc_ids
           B == LiveAmong(st, T, ids)
<1>0. /\ WorkSound(call.w, st, T)
      /\ C \in SUBSET Held(st) /\ C \cap D = {} /\ ids \in SUBSET Ids
      /\ \A o \in D : o \in call.w.certain[T[o]]
  BY CallFields DEF CallSound
<1>1. C \in SUBSET B /\ D \in SUBSET B /\ U \in SUBSET B
  BY DEF LiveAmong, CallSound
<1>2. IsFiniteSet(B) /\ Cardinality(B) \in Nat
  BY LiveFinite
<1>3. TotalMultiplicity(st, ids) = Cardinality(B)
  BY <1>0, Multiplicity
<1>4. \A o \in Held(st) : T[o] \in ids => o \in B
  BY DEF LiveAmong
<1>5. CASE ~(Cardinality(C) >= 2 /\ Copied(st, call) = Cardinality(C))
  <2>1. Tried(Performing(st), st, call) = [w |-> call.w, changed |-> FALSE]
    BY <1>5 DEF Tried
  <2>2. call.w \in Work
    BY <1>0 DEF WorkSound
  <2>3. QED
    BY <1>0, <2>1, <2>2 DEF OutSound, Outs, Grown
<1>6. CASE Cardinality(C) >= 2 /\ Copied(st, call) = Cardinality(C)
  <2>1. Cardinality(C) = Cardinality(B) - Cardinality(D)
    BY <1>3, <1>6 DEF Copied
  <2>2. Tried(Performing(st), st, call) = PerformElim(call.w, st, C, ids)
    BY <1>6 DEF Tried, Performing, CallSound
  <2>3. U = C \cup D
    OBVIOUS
  <2> HIDE DEF B, C, D, U
  <2>4. IsFiniteSet(C) /\ IsFiniteSet(D)
    BY <1>1, <1>2, FS_Subset
  <2>5. IsFiniteSet(U) /\ (Cardinality(B) = Cardinality(U) => B = U)
    BY <1>1, <1>2, FS_Subset
  <2>6. Cardinality(C) \in Nat /\ Cardinality(D) \in Nat /\ Cardinality(U) \in Nat
    BY <2>4, <2>5, FS_CardinalityType
  <2>7. Cardinality(U) = Cardinality(C) + Cardinality(D) - Cardinality(C \cap D)
    BY <2>3, <2>4, FS_Union
  <2>8. Cardinality(C \cap D) = 0
    BY <1>0, FS_EmptySet
  <2>9. B = U
    BY <1>2, <2>1, <2>5, <2>6, <2>7, <2>8
  <2>10. ASSUME NEW id \in ids, NEW o \in Held(st), T[o] = id
         PROVE  o \in call.w.certain[id] \/ HeldBy(st, o) \in Holding(st, C)
    <3>1. o \in C \/ o \in D
      BY <1>4, <2>3, <2>9, <2>10
    <3>2. QED
      BY <1>0, <2>10, <3>1 DEF Holding
  <2>11. \A id \in ids : Accounted(call.w, st, T, id, Holding(st, C))
    BY <2>10 DEF Accounted
  <2>12. QED
    BY <1>0, <2>2, <2>11, PerformElimSound
<1>7. QED
  BY <1>5, <1>6

\* The work of a call may grow.
LEMMA AtSound ==
  ASSUME NEW st, NEW T, NEW call, CallSound(call, st, T),
         NEW v, WorkSound(v, st, T), Grown(call.w, v)
  PROVE  LET at == [call EXCEPT !.w = v]
         IN  CallSound(at, st, T) /\ at.w = v /\ at.nextIndex = call.nextIndex
<1> DEFINE at == [call EXCEPT !.w = v]
<1>1. call \in Calls /\ v \in Work
  BY DEF CallSound, WorkSound
<1>2. /\ at.w = v /\ at.nextIndex = call.nextIndex /\ at.contained = call.contained
      /\ at.acc_ids = call.acc_ids /\ at.certains = call.certains
  BY <1>1, CallFields
<1>3. at \in Calls
  BY <1>1 DEF Calls
<1>4. call.acc_ids \in SUBSET Ids
  BY <1>1, CallFields
<1> HIDE DEF at
<1>5. ASSUME NEW o \in call.certains
      PROVE  o \in Held(st) /\ T[o] \in call.acc_ids /\ o \in v.certain[T[o]]
  <2>1. o \in Held(st) /\ T[o] \in call.acc_ids /\ o \in call.w.certain[T[o]]
    BY DEF CallSound
  <2>2. T[o] \in Ids
    BY <1>4, <2>1
  <2>3. QED
    BY <2>1, <2>2 DEF Grown
<1>6. CallSound(at, st, T)
  BY <1>2, <1>3, <1>5 DEF CallSound
<1>7. QED
  BY <1>2, <1>6 DEF at

\* The call without the next candidate
LEMMA SkipSound ==
  ASSUME NEW st, NEW T, NEW call, CallSound(call, st, T), call.nextIndex < DeckSize,
         NEW v, WorkSound(v, st, T), Grown(call.w, v)
  PROVE  CallSound(Skip(call, v), st, T) /\ Skip(call, v).w = v
<1> DEFINE at == [call EXCEPT !.w = v]
           n  == call.nextIndex + 1
           r  == [at EXCEPT !.nextIndex = n]
<1>0. CallSound(at, st, T) /\ at.w = v /\ at.nextIndex = call.nextIndex
  BY AtSound
<1>1. call \in Calls
  BY DEF CallSound
<1>2. DOMAIN call = {"w", "contained", "acc_ids", "certains", "nextIndex"} /\ call.nextIndex \in 0 .. DeckSize
  BY <1>1, CallFields
<1>3. Skip(call, v) = r
  BY <1>2 DEF Skip
<1>4. n \in 0 .. DeckSize
  BY <1>2, Finite
<1> HIDE DEF at, n
<1>5. at \in Calls
  BY <1>0 DEF CallSound
<1>6. /\ r.w = at.w /\ r.contained = at.contained /\ r.acc_ids = at.acc_ids /\ r.certains = at.certains
  BY <1>5, CallFields
<1>7. r \in Calls
  BY <1>4, <1>5 DEF Calls
<1> HIDE DEF r
<1>8. CallSound(r, st, T)
  BY <1>0, <1>6, <1>7 DEF CallSound
<1>9. QED
  BY <1>0, <1>3, <1>6, <1>8

\* The call with the next candidate
LEMMA IncludeSound ==
  ASSUME NEW st, NEW T, TableSound(st, T), NEW at, CallSound(at, st, T), at.nextIndex < DeckSize,
         NEW item \in Held(st)
  PROVE  CallSound(Include(st, at, item), st, T) /\ Include(st, at, item).w = at.w
<1> DEFINE possible == at.w.thoughts[item].possible
           known == UNION {at.w.certain[id] : id \in possible \ at.acc_ids}
           c == at.contained \cup {item}
           a == at.acc_ids \cup possible
           e == (at.certains \cup known) \ c
           n == at.nextIndex + 1
           r == [at EXCEPT !.contained = c, !.acc_ids = a, !.certains = e, !.nextIndex = n]
<1>0. /\ at \in Calls /\ WorkSound(at.w, st, T)
      /\ at.contained \subseteq {o \in Held(st) : T[o] \in at.acc_ids}
      /\ at.certains \subseteq {o \in Held(st) : T[o] \in at.acc_ids /\ o \in at.w.certain[T[o]]}
  BY DEF CallSound
<1>1. /\ DOMAIN at = {"w", "contained", "acc_ids", "certains", "nextIndex"}
      /\ at.nextIndex \in 0 .. DeckSize /\ at.acc_ids \in SUBSET Ids
      /\ at.contained \in SUBSET Orders /\ at.certains \in SUBSET Orders
  BY <1>0, CallFields
<1>2. Include(st, at, item) = r
  BY DEF Include
<1>3. Held(st) \subseteq Orders
  BY OneHolder
<1>4. T[item] \in possible /\ possible \in SUBSET Ids
  BY <1>0, CardWith DEF WorkSound, CardSound, Card
<1>5. \A id \in Ids : at.w.certain[id] \subseteq {o \in Held(st) : T[o] = id}
  BY <1>0 DEF WorkSound
<1>6. known \subseteq {o \in Held(st) : T[o] \in possible /\ o \in at.w.certain[T[o]]}
  <2> HIDE DEF possible
  <2>1. QED
    BY <1>4, <1>5
<1> HIDE DEF possible, known
<1>7. c \in SUBSET Orders /\ a \in SUBSET Ids /\ e \in SUBSET Orders
  BY <1>1, <1>3, <1>4, <1>6
<1>8. n \in 0 .. DeckSize
  BY <1>1, Finite
<1>9. c \subseteq {o \in Held(st) : T[o] \in a}
  BY <1>0, <1>4
<1>10. e \subseteq {o \in Held(st) : T[o] \in a /\ o \in at.w.certain[T[o]]}
  BY <1>0, <1>6
<1>11. c \cap e = {}
  OBVIOUS
<1> HIDE DEF c, a, e, n
<1>12. r.w = at.w /\ r.contained = c /\ r.acc_ids = a /\ r.certains = e
  BY <1>1
<1>13. r \in Calls
  BY <1>0, <1>7, <1>8 DEF Calls
<1> HIDE DEF r
<1>14. CallSound(r, st, T)
  BY <1>0, <1>9, <1>10, <1>11, <1>12, <1>13 DEF CallSound
<1>15. QED
  BY <1>2, <1>12, <1>14

\* What gen is expected to do with any call.
GenSound(gen, st, T) ==
  \A call \in Calls : CallSound(call, st, T) =>
    OutSound(gen[call], st, T) /\ Grown(call.w, gen[call].w)

\* The calls made by a call
LEMMA ExtendSound ==
  ASSUME NEW st, NEW T, TableSound(st, T), NEW gen, GenSound(gen, st, T),
         NEW call, CallSound(call, st, T),
         NEW tried, OutSound(tried, st, T), Grown(call.w, tried.w)
  PROVE  /\ OutSound(Extend(gen, st, call, tried), st, T)
         /\ Grown(call.w, Extend(gen, st, call, tried).w)
<1> DEFINE at       == [call EXCEPT !.w = tried.w]
           item     == NextItem(st, at)
           inc      == Include(st, at, item)
           included == gen[inc]
           skip     == Skip(at, included.w)
<1>1. CASE tried.changed \/ call.nextIndex >= Cardinality(tried.w.candidates)
  BY <1>1 DEF Extend
<1>2. CASE ~(tried.changed \/ call.nextIndex >= Cardinality(tried.w.candidates))
  <2>0. Extend(gen, st, call, tried) = IF included.changed THEN included ELSE gen[skip]
    BY <1>2 DEF Extend, Branch, ElseSkip
  <2>1. WorkSound(tried.w, st, T)
    BY DEF OutSound
  <2>2. CallSound(at, st, T) /\ at.w = tried.w /\ at.nextIndex = call.nextIndex
    BY <2>1, AtSound
  <2> HIDE DEF at
  <2>3. call.nextIndex \in 0 .. DeckSize
    BY CallFields DEF CallSound
  <2>4. tried.w.candidates \in SUBSET Held(st)
    BY <2>1 DEF WorkSound
  <2>5. /\ Cardinality(tried.w.candidates) \in Nat /\ Cardinality(tried.w.candidates) <= DeckSize
        /\ \A k \in 1 .. Cardinality(tried.w.candidates) :
             Ordered(tried.w.candidates, SlotNumber(st))[k] \in tried.w.candidates
    BY <2>4, SlotsOrdered
  <2>6. call.nextIndex < DeckSize /\ call.nextIndex + 1 \in 1 .. Cardinality(tried.w.candidates)
    BY <1>2, <2>3, <2>5, Finite
  <2>7. item \in Held(st)
    BY <2>2, <2>4, <2>5, <2>6 DEF NextItem
  <2> HIDE DEF item
  <2>8. CallSound(inc, st, T) /\ inc.w = at.w
    BY <2>2, <2>6, <2>7, IncludeSound
  <2> HIDE DEF inc
  <2>9. OutSound(included, st, T) /\ Grown(tried.w, included.w)
    BY <2>2, <2>8 DEF GenSound, CallSound
  <2> HIDE DEF included
  <2>10. WorkSound(included.w, st, T) /\ Grown(call.w, included.w)
    BY <2>9, GrownTransitive DEF OutSound
  <2>11. CallSound(skip, st, T) /\ skip.w = included.w
    BY <2>2, <2>6, <2>9, <2>10, SkipSound
  <2> HIDE DEF skip
  <2>12. OutSound(gen[skip], st, T) /\ Grown(included.w, gen[skip].w)
    BY <2>11 DEF GenSound, CallSound
  <2>13. Grown(call.w, gen[skip].w)
    BY <2>10, <2>12, GrownTransitive
  <2>14. QED
    BY <2>0, <2>9, <2>10, <2>12, <2>13
<1>3. QED
  BY <1>1, <1>2

\* gen_subset
LEMMA GenSubsetSound ==
  ASSUME NEW st, NEW T, TableSound(st, T), NEW start, CallSound(start, st, T)
  PROVE  /\ OutSound(GenSubset(Performing(st), st, start), st, T)
         /\ Grown(start.w, GenSubset(Performing(st), st, start).w)
<1> DEFINE N == DeckSize + 1
           Body(n, g) == [call \in Calls |->
                            IF n = 0 \/ OutOfReach(st, call) THEN [w |-> call.w, changed |-> FALSE]
                            ELSE Extend(g, st, call, Tried(Performing(st), st, call))]
           Sol(n) == \E f : f = [k \in 0 .. n |-> Body(k, f[k - 1])]
           gen == CHOOSE f : f = [k \in 0 .. N |-> Body(k, f[k - 1])]
           G == {n \in 0 .. N : Sol(n)}
           H == {n \in 0 .. N : GenSound(gen[n], st, T)}
<1>0. N \in Nat
  BY Finite
<1>1. GenSubset(Performing(st), st, start) = gen[N][start]
  BY DEF GenSubset
<1>2. \A g, h : Body(0, g) = Body(0, h)
  OBVIOUS
<1>3. ASSUME NEW n \in Nat, NEW g, GenSound(g, st, T)
      PROVE  GenSound(Body(n, g), st, T)
  <2> SUFFICES ASSUME NEW call \in Calls, CallSound(call, st, T)
               PROVE  OutSound(Body(n, g)[call], st, T) /\ Grown(call.w, Body(n, g)[call].w)
    BY DEF GenSound
  <2>1. OutSound(Tried(Performing(st), st, call), st, T) /\ Grown(call.w, Tried(Performing(st), st, call).w)
    BY TriedSound
  <2>2. OutSound(Extend(g, st, call, Tried(Performing(st), st, call)), st, T)
        /\ Grown(call.w, Extend(g, st, call, Tried(Performing(st), st, call)).w)
    BY <1>3, <2>1, ExtendSound
  <2> DEFINE none == [w |-> call.w, changed |-> FALSE]
  <2>3. OutSound(none, st, T) /\ Grown(call.w, none.w)
    <3>1. call.w \in Work /\ WorkSound(call.w, st, T)
      BY DEF CallSound, WorkSound
    <3>2. none.w = call.w /\ none \in Outs
      BY <3>1 DEF Outs
    <3>3. QED
      BY <3>1, <3>2 DEF OutSound, Grown
  <2>4. Body(n, g)[call] = IF n = 0 \/ OutOfReach(st, call) THEN none ELSE Extend(g, st, call, Tried(Performing(st), st, call))
    OBVIOUS
  <2> HIDE DEF none, Body
  <2>5. QED
    BY <2>2, <2>3, <2>4
<1>4. ASSUME NEW g
      PROVE  GenSound(Body(0, g), st, T)
  <2> SUFFICES ASSUME NEW call \in Calls, CallSound(call, st, T)
               PROVE  OutSound(Body(0, g)[call], st, T) /\ Grown(call.w, Body(0, g)[call].w)
    BY DEF GenSound
  <2> DEFINE none == [w |-> call.w, changed |-> FALSE]
  <2>1. call.w \in Work /\ WorkSound(call.w, st, T)
    BY DEF CallSound, WorkSound
  <2>2. none.w = call.w /\ none \in Outs
    BY <2>1 DEF Outs
  <2>3. Body(0, g)[call] = none
    OBVIOUS
  <2> HIDE DEF none, Body
  <2>4. QED
    BY <2>1, <2>2, <2>3 DEF OutSound, Grown
<1> HIDE DEF Body, N
<1>5. 0 \in G
  <2> DEFINE f == [k \in 0 .. 0 |-> Body(0, 0)]
  <2>1. \A k \in 0 .. 0 : Body(0, 0) = Body(k, f[k - 1])
    <3> HIDE DEF f
    <3>1. QED
      BY <1>2
  <2>2. f = [k \in 0 .. 0 |-> Body(k, f[k - 1])]
    BY <2>1
  <2> HIDE DEF f
  <2>3. Sol(0)
    BY <2>2
  <2> HIDE DEF Sol
  <2>4. QED
    BY <1>0, <2>3
<1>6. ASSUME NEW n \in 1 .. N, n - 1 \in G
      PROVE  n \in G
  <2>1. PICK f : f = [k \in 0 .. n - 1 |-> Body(k, f[k - 1])]
    BY <1>6
  <2> DEFINE g == [k \in 0 .. n |-> IF k = n THEN Body(n, f[n - 1]) ELSE f[k]]
  <2>2. \A k \in 0 .. n - 1 : f[k] = Body(k, f[k - 1])
    BY <2>1
  <2>3. \A k \in 0 .. n : g[k] = IF k = n THEN Body(n, f[n - 1]) ELSE f[k]
    OBVIOUS
  <2>4. g = [k \in 0 .. n |-> g[k]]
    OBVIOUS
  <2> HIDE DEF g
  <2>5. ASSUME NEW k \in 0 .. n
        PROVE  g[k] = Body(k, g[k - 1])
    <3>1. CASE k = 0
      <4>1. n # 0 /\ 0 \in 0 .. n - 1
        BY <1>0
      <4>2. g[0] = f[0] /\ f[0] = Body(0, f[0 - 1])
        BY <2>2, <2>3, <4>1
      <4>3. Body(0, f[0 - 1]) = Body(0, g[0 - 1])
        BY <1>2
      <4>4. QED
        BY <3>1, <4>2, <4>3
    <3>2. CASE k # 0
      <4>1. k - 1 \in 0 .. n /\ k - 1 # n
        BY <1>0, <3>2
      <4>2. g[k - 1] = f[k - 1]
        BY <2>3, <4>1
      <4>3. CASE k = n
        BY <2>3, <4>2, <4>3
      <4>4. CASE k # n
        <5>1. k \in 0 .. n - 1
          BY <1>0, <4>4
        <5>2. g[k] = f[k] /\ f[k] = Body(k, f[k - 1])
          BY <2>2, <2>3, <4>4, <5>1
        <5>3. QED
          BY <4>2, <5>2
      <4>5. QED
        BY <4>3, <4>4
    <3>3. QED
      BY <3>1, <3>2
  <2>6. g = [k \in 0 .. n |-> Body(k, g[k - 1])]
    BY <2>4, <2>5
  <2>7. Sol(n)
    BY <2>6
  <2> HIDE DEF Sol
  <2>8. n \in 0 .. N
    BY <1>0
  <2>9. QED
    BY <2>7, <2>8
<1>7. Sol(N)
  <2>1. G \in SUBSET {n \in 0 .. N : Sol(n)}
    OBVIOUS
  <2> HIDE DEF G, Sol
  <2>2. \A n \in 0 .. N : n \in G
    BY <1>0, <1>5, <1>6, UpTo
  <2>3. N \in G
    BY <1>0, <2>2
  <2>4. QED
    BY <2>1, <2>3
<1>8. gen = [k \in 0 .. N |-> Body(k, gen[k - 1])]
  BY <1>7
<1> HIDE DEF gen, G, Sol
<1>9. \A k \in 0 .. N : gen[k] = Body(k, gen[k - 1])
  BY <1>8
<1>10. 0 \in H
  BY <1>0, <1>4, <1>9
<1>11. ASSUME NEW k \in 1 .. N, k - 1 \in H
       PROVE  k \in H
  <2>1. k \in Nat /\ k \in 0 .. N /\ GenSound(gen[k - 1], st, T)
    BY <1>0, <1>11
  <2>2. GenSound(Body(k, gen[k - 1]), st, T)
    BY <1>3, <2>1
  <2>3. QED
    BY <1>9, <2>1, <2>2
<1>12. GenSound(gen[N], st, T)
  <2>1. H \in SUBSET {n \in 0 .. N : GenSound(gen[n], st, T)}
    OBVIOUS
  <2> HIDE DEF H
  <2>2. \A n \in 0 .. N : n \in H
    BY <1>0, <1>10, <1>11, UpTo
  <2>3. N \in H
    BY <1>0, <2>2
  <2>4. QED
    BY <2>1, <2>3
<1>13. start \in Calls
  BY DEF CallSound
<1>14. QED
  BY <1>1, <1>12, <1>13 DEF GenSound

-----------------------------------------------------------------------------
(* cross_elim and card_elim *)

\* cross_elim
LEMMA CrossElimSound ==
  ASSUME NEW st, NEW T, TableSound(st, T), NEW w, WorkSound(w, st, T)
  PROVE  /\ OutSound(CrossElim(w, st), st, T)
         /\ Grown(w, CrossElim(w, st).w)
<1> DEFINE start == Whole(w)
           none  == [w |-> w, changed |-> FALSE]
<1>1. w \in Work
  BY DEF WorkSound
<1>2. start \in Calls
  BY <1>1, Finite DEF Calls, Whole
<1>3. CallSound(start, st, T)
  BY <1>2 DEF CallSound, Whole
<1>4. OutSound(none, st, T) /\ Grown(w, none.w)
  BY <1>1 DEF OutSound, Outs, Grown
<1>5. start.w = w
  BY DEF Whole
<1>6. CrossElim(w, st) = IF Cardinality(w.candidates) <= 1 THEN none
                              ELSE GenSubset(Performing(st), st, start)
  BY DEF CrossElim
<1> HIDE DEF start, none
<1>7. /\ OutSound(GenSubset(Performing(st), st, start), st, T)
      /\ Grown(w, GenSubset(Performing(st), st, start).w)
  BY <1>3, <1>5, GenSubsetSound
<1>8. QED
  BY <1>4, <1>6, <1>7

\* What a function that goes on with any work is expected to do.
LoopSound(loop, st, T) == \A w \in Work : WorkSound(w, st, T) => WorkSound(loop[w], st, T)

\* The loop of cross_elim and endgame_elim
LEMMA CrossLoopSound ==
  ASSUME NEW st, NEW T, TableSound(st, T), NEW start, WorkSound(start, st, T),
         NEW view, NEW ids \in Seq(Ids)
  PROVE  WorkSound(CrossLoop(Crossing(st), start, st, view, ids), st, T)
<1> DEFINE N == Rounds
           cross == Crossing(st)
           Body(n, g) == [w \in Work |-> IF n = 0 THEN w ELSE Again(g, cross[w], st, view, ids)]
           Sol(n) == \E f : f = [k \in 0 .. n |-> Body(k, f[k - 1])]
           loop == CHOOSE f : f = [k \in 0 .. N |-> Body(k, f[k - 1])]
           G == {n \in 0 .. N : Sol(n)}
           H == {n \in 0 .. N : LoopSound(loop[n], st, T)}
<1>0. N \in Nat
  <2>1. Cardinality(Ids) \in Nat
    BY Finite, FS_CardinalityType
  <2>2. QED
    BY <2>1, Finite DEF Rounds
<1>1. CrossLoop(cross, start, st, view, ids) = loop[N][start]
  BY DEF CrossLoop
<1>2. \A g, h : Body(0, g) = Body(0, h)
  OBVIOUS
<1>3. ASSUME NEW n \in Nat, NEW g, LoopSound(g, st, T)
      PROVE  LoopSound(Body(n, g), st, T)
  <2> SUFFICES ASSUME NEW w \in Work, WorkSound(w, st, T)
               PROVE  WorkSound(Body(n, g)[w], st, T)
    BY DEF LoopSound
  <2> DEFINE crossed == CrossElim(w, st)
             v       == EndgameElim(crossed.w, st, view, ids)
  <2>1. OutSound(crossed, st, T)
    BY CrossElimSound
  <2>2. cross[w] = crossed
    BY DEF Crossing
  <2>3. Body(n, g)[w] = IF n = 0 THEN w ELSE IF crossed.changed THEN g[crossed.w] ELSE v
    BY <2>2 DEF Again
  <2> HIDE DEF crossed, Body
  <2>4. WorkSound(crossed.w, st, T) /\ crossed.w \in Work
    BY <2>1 DEF OutSound, WorkSound
  <2>5. WorkSound(g[crossed.w], st, T)
    BY <1>3, <2>4 DEF LoopSound
  <2>6. WorkSound(v, st, T)
    BY <2>4, EndgameElimSound
  <2> HIDE DEF v
  <2>7. QED
    BY <2>3, <2>5, <2>6
<1>4. ASSUME NEW g
      PROVE  LoopSound(Body(0, g), st, T)
  BY DEF LoopSound
<1> HIDE DEF Body, N
<1>5. 0 \in G
  <2> DEFINE f == [k \in 0 .. 0 |-> Body(0, 0)]
  <2>1. \A k \in 0 .. 0 : Body(0, 0) = Body(k, f[k - 1])
    <3> HIDE DEF f
    <3>1. QED
      BY <1>2
  <2>2. f = [k \in 0 .. 0 |-> Body(k, f[k - 1])]
    BY <2>1
  <2> HIDE DEF f
  <2>3. Sol(0)
    BY <2>2
  <2> HIDE DEF Sol
  <2>4. QED
    BY <1>0, <2>3
<1>6. ASSUME NEW n \in 1 .. N, n - 1 \in G
      PROVE  n \in G
  <2>1. PICK f : f = [k \in 0 .. n - 1 |-> Body(k, f[k - 1])]
    BY <1>6
  <2> DEFINE g == [k \in 0 .. n |-> IF k = n THEN Body(n, f[n - 1]) ELSE f[k]]
  <2>2. \A k \in 0 .. n - 1 : f[k] = Body(k, f[k - 1])
    BY <2>1
  <2>3. \A k \in 0 .. n : g[k] = IF k = n THEN Body(n, f[n - 1]) ELSE f[k]
    OBVIOUS
  <2>4. g = [k \in 0 .. n |-> g[k]]
    OBVIOUS
  <2> HIDE DEF g
  <2>5. ASSUME NEW k \in 0 .. n
        PROVE  g[k] = Body(k, g[k - 1])
    <3>1. CASE k = 0
      <4>1. n # 0 /\ 0 \in 0 .. n - 1
        BY <1>0
      <4>2. g[0] = f[0] /\ f[0] = Body(0, f[0 - 1])
        BY <2>2, <2>3, <4>1
      <4>3. Body(0, f[0 - 1]) = Body(0, g[0 - 1])
        BY <1>2
      <4>4. QED
        BY <3>1, <4>2, <4>3
    <3>2. CASE k # 0
      <4>1. k - 1 \in 0 .. n /\ k - 1 # n
        BY <1>0, <3>2
      <4>2. g[k - 1] = f[k - 1]
        BY <2>3, <4>1
      <4>3. CASE k = n
        BY <2>3, <4>2, <4>3
      <4>4. CASE k # n
        <5>1. k \in 0 .. n - 1
          BY <1>0, <4>4
        <5>2. g[k] = f[k] /\ f[k] = Body(k, f[k - 1])
          BY <2>2, <2>3, <4>4, <5>1
        <5>3. QED
          BY <4>2, <5>2
      <4>5. QED
        BY <4>3, <4>4
    <3>3. QED
      BY <3>1, <3>2
  <2>6. g = [k \in 0 .. n |-> Body(k, g[k - 1])]
    BY <2>4, <2>5
  <2>7. Sol(n)
    BY <2>6
  <2> HIDE DEF Sol
  <2>8. n \in 0 .. N
    BY <1>0
  <2>9. QED
    BY <2>7, <2>8
<1>7. Sol(N)
  <2>1. G \in SUBSET {n \in 0 .. N : Sol(n)}
    OBVIOUS
  <2> HIDE DEF G, Sol
  <2>2. \A n \in 0 .. N : n \in G
    BY <1>0, <1>5, <1>6, UpTo
  <2>3. N \in G
    BY <1>0, <2>2
  <2>4. QED
    BY <2>1, <2>3
<1>8. loop = [k \in 0 .. N |-> Body(k, loop[k - 1])]
  BY <1>7
<1> HIDE DEF loop, G, Sol
<1>9. \A k \in 0 .. N : loop[k] = Body(k, loop[k - 1])
  BY <1>8
<1>10. 0 \in H
  BY <1>0, <1>4, <1>9
<1>11. ASSUME NEW k \in 1 .. N, k - 1 \in H
       PROVE  k \in H
  <2>1. k \in Nat /\ k \in 0 .. N /\ LoopSound(loop[k - 1], st, T)
    BY <1>0, <1>11
  <2>2. LoopSound(Body(k, loop[k - 1]), st, T)
    BY <1>3, <2>1
  <2>3. QED
    BY <1>9, <2>1, <2>2
<1>12. LoopSound(loop[N], st, T)
  <2>1. H \in SUBSET {n \in 0 .. N : LoopSound(loop[n], st, T)}
    OBVIOUS
  <2> HIDE DEF H
  <2>2. \A n \in 0 .. N : n \in H
    BY <1>0, <1>10, <1>11, UpTo
  <2>3. N \in H
    BY <1>0, <2>2
  <2>4. QED
    BY <2>1, <2>3
<1>13. start \in Work
  BY DEF WorkSound
<1>14. QED
  BY <1>1, <1>12, <1>13 DEF LoopSound

\* A view that rules out nothing that is.
ViewSound(view, st, T) ==
  /\ view \in View
  /\ \A o \in Held(st) : CardSound(view.thoughts[o], T[o])
  /\ \A o \in Undrawn(st) : T[o] \in view.all_possible
  /\ view.thrown = FALSE

\* What card_elim starts from
LEMMA StartSound ==
  ASSUME NEW st, NEW T, TableSound(st, T), NEW view, ViewSound(view, st, T)
  PROVE  WorkSound(Start(view, st), st, T)
<1> DEFINE w  == Start(view, st)
           ce == [id \in Ids |-> CertainOf(view, st, id)]
           op == [id \in Ids |-> {o \in CertainOf(view, st, id) : Symmetric(view.thoughts[o]) = NoId}]
           ca == CrossElimCandidates(view, st)
<1>0. Held(st) \subseteq Orders /\ T \in [Orders -> Ids]
  BY OneHolder DEF TableSound
<1>1. view.thoughts \in [Orders -> Card] /\ \A o \in Held(st) : CardSound(view.thoughts[o], T[o])
  BY DEF ViewSound, View
<1>2. \A id \in Ids : CertainOf(view, st, id) \subseteq {o \in Held(st) : T[o] = id}
  <2>1. \A o \in Held(st) : /\ T[o] \in Ids
                            /\ Symmetric(view.thoughts[o]) \in {NoId, T[o]}
                            /\ Identity(view.thoughts[o]) \in {NoId, T[o]}
    BY <1>0, <1>1, IdentityTrue
  <2>2. QED
    BY <2>1, Finite DEF CertainOf
<1>3. ce \in [Ids -> SUBSET Orders] /\ op \in [Ids -> SUBSET Orders] /\ \A id \in Ids : ce[id] = CertainOf(view, st, id)
  BY <1>0, <1>2
<1>4. ca \subseteq Held(st)
  BY DEF CrossElimCandidates
<1>5. w = [thoughts |-> view.thoughts, certain |-> ce, open |-> op, candidates |-> ca,
           eliminated |-> {}, thrown |-> FALSE]
  BY DEF Start
<1> HIDE DEF ce, op, ca, w
<1>6. w \in Work
  BY <1>0, <1>1, <1>3, <1>4, <1>5 DEF Work
<1>7. /\ w.thoughts = view.thoughts /\ w.certain = ce /\ w.candidates = ca
      /\ w.eliminated = {} /\ w.thrown = FALSE
  BY <1>5
<1>8. QED
  BY <1>1, <1>2, <1>3, <1>4, <1>6, <1>7 DEF WorkSound, w

\* What a view learns from sound work is sound.
LEMMA LearnSound ==
  ASSUME NEW st, NEW T, TableSound(st, T), NEW view, ViewSound(view, st, T),
         NEW w, WorkSound(w, st, T)
  PROVE  ViewSound(Learn(view, w), st, T)
<1> DEFINE a == view.all_possible \ w.eliminated
           b == view.thrown \/ w.thrown
           v == [view EXCEPT !.thoughts = w.thoughts, !.all_possible = a, !.thrown = b]
<1>1. view \in View /\ w \in Work /\ b = FALSE
  BY DEF ViewSound, WorkSound
<1>2. DOMAIN view = {"playerIndex", "thoughts", "all_possible", "thrown"} /\ view.all_possible \in SUBSET Ids
  BY <1>1 DEF View
<1>3. Learn(view, w) = v
  BY DEF Learn
<1>4. a \in SUBSET Ids /\ w.thoughts \in [Orders -> Card]
  BY <1>1, <1>2, WorkFields
<1>5. \A o \in Undrawn(st) : T[o] \in a
  BY DEF ViewSound, WorkSound
<1> HIDE DEF a, b
<1>6. v.thoughts = w.thoughts /\ v.all_possible = a /\ v.thrown = FALSE
  BY <1>1, <1>2
<1>7. v \in View
  BY <1>1, <1>4 DEF View
<1> HIDE DEF v
<1>8. QED
  BY <1>3, <1>5, <1>6, <1>7 DEF ViewSound, WorkSound

\* card_elim rules out nothing that is, and does not run out of possibilities:
\* whatever a view knows that is true, elimination adds only what is true.
THEOREM CardElimSound ==
  ASSUME NEW st, NEW T, TableSound(st, T), NEW view, ViewSound(view, st, T)
  PROVE  ViewSound(CardElim(view, st), st, T)
<1> DEFINE ids == UNION {view.thoughts[o].possible : o \in Held(st)}
           list == InOrder(ids)
           w0 == Start(view, st)
           w1 == EndgameElim(w0, st, view, list)
           w2 == BasicElim(w1, st, list).w
           w3 == CrossLoop(Crossing(st), w2, st, view, list)
<1>1. ids \in SUBSET Ids
  <2>1. \A o \in Held(st) : view.thoughts[o] \in Card
    BY DEF ViewSound, CardSound
  <2>2. \A o \in Held(st) : view.thoughts[o].possible \in SUBSET Ids
    BY <2>1 DEF Card
  <2>3. QED
    BY <2>2
<1>2. CardElim(view, st) = Learn(view, w3)
  BY DEF CardElim, Eliminated
<1> HIDE DEF ids
<1>3. list \in Seq(Ids)
  BY <1>1, InOrderIds
<1> HIDE DEF list
<1>4. WorkSound(w0, st, T)
  BY StartSound
<1> HIDE DEF w0
<1>5. WorkSound(w1, st, T)
  BY <1>3, <1>4, EndgameElimSound
<1> HIDE DEF w1
<1>6. WorkSound(w2, st, T)
  BY <1>3, <1>5, BasicElimSound DEF OutSound
<1> HIDE DEF w2
<1>7. WorkSound(w3, st, T)
  BY <1>3, <1>6, CrossLoopSound
<1> HIDE DEF w3
<1>8. QED
  BY <1>2, <1>7, LearnSound

-----------------------------------------------------------------------------
(* What the handlers do to the views *)

\* The fields of a card that a program merges with common knowledge
LEMMA MergedFields ==
  ASSUME NEW c \in Card, NEW v \in Card
  PROVE  /\ Merged(c, v) \in Card
         /\ Merged(c, v).possible = c.possible \cap v.possible
         /\ Merged(c, v).inferred = c.inferred \cap v.possible
         /\ Merged(c, v).id = IF c.id # NoId THEN c.id ELSE v.id
         /\ Merged(c, v).status = v.status
<1> DEFINE P  == c.possible \cap v.possible
           I  == c.inferred \cap v.possible
           n  == IF c.id # NoId THEN c.id ELSE v.id
           c1 == [v EXCEPT !.possible = P]
           c2 == [c1 EXCEPT !.inferred = I]
           c3 == [c2 EXCEPT !.id = n]
           c4 == [c3 EXCEPT !.clued = c.clued]
<1>1. c.id \in Ids \cup {NoId} /\ v.id \in Ids \cup {NoId}
  BY DEF Card
<1>2. /\ c.possible \in SUBSET Ids /\ c.inferred \in SUBSET Ids /\ v.possible \in SUBSET Ids
      /\ c.clued \in BOOLEAN
      /\ {"id", "possible", "inferred", "info_lock", "status", "clued", "reset", "known"} \subseteq DOMAIN v
  BY CardWith
<1>3. P \in SUBSET Ids /\ I \in SUBSET Ids /\ n \in Ids \cup {NoId}
  BY <1>1, <1>2
<1>4. Merged(c, v) = c4
  BY <1>2 DEF Merged
<1> HIDE DEF P, I, n
<1>5. c1 \in Card /\ DOMAIN c1 = DOMAIN v /\ c1.possible = P /\ c1.id = v.id /\ c1.status = v.status
  BY <1>2, <1>3, CardWith
<1> HIDE DEF c1
<1>6. /\ c2 \in Card /\ DOMAIN c2 = DOMAIN v
      /\ c2.possible = P /\ c2.inferred = I /\ c2.status = v.status
  BY <1>2, <1>3, <1>5, CardWith
<1> HIDE DEF c2
<1>7. /\ c3 \in Card /\ DOMAIN c3 = DOMAIN v
      /\ c3.possible = P /\ c3.inferred = I /\ c3.id = n /\ c3.status = v.status
  BY <1>2, <1>3, <1>6, CardWith
<1> HIDE DEF c3
<1>8. /\ c4 \in Card
      /\ c4.possible = P /\ c4.inferred = I /\ c4.id = n /\ c4.status = v.status
  BY <1>2, <1>3, <1>7, CardWith
<1> HIDE DEF c4
<1>9. QED
  BY <1>4, <1>8 DEF P, I, n

\* A card that is touched keeps P and I.
Touching(c, P, I, b) == [[[c EXCEPT !.possible = P] EXCEPT !.inferred = I] EXCEPT !.clued = b]

\* The fields of a card that is touched
LEMMA TouchFields ==
  ASSUME NEW c \in Card, NEW P \in SUBSET Ids, NEW I \in SUBSET Ids, NEW b \in BOOLEAN
  PROVE  /\ Touching(c, P, I, b) \in Card
         /\ Touching(c, P, I, b).possible = P /\ Touching(c, P, I, b).inferred = I
         /\ Touching(c, P, I, b).id = c.id /\ Touching(c, P, I, b).status = c.status
<1> DEFINE c1 == [c EXCEPT !.possible = P]
           c2 == [c1 EXCEPT !.inferred = I]
           c3 == [c2 EXCEPT !.clued = b]
<1>1. {"id", "possible", "inferred", "info_lock", "status", "clued", "reset", "known"} \subseteq DOMAIN c
  BY CardWith
<1>2. c1 \in Card /\ DOMAIN c1 = DOMAIN c /\ c1.possible = P /\ c1.id = c.id /\ c1.status = c.status
  BY <1>1, CardWith
<1> HIDE DEF c1
<1>3. /\ c2 \in Card /\ DOMAIN c2 = DOMAIN c
      /\ c2.possible = P /\ c2.inferred = I /\ c2.id = c.id /\ c2.status = c.status
  BY <1>1, <1>2, CardWith
<1> HIDE DEF c2
<1>4. /\ c3 \in Card
      /\ c3.possible = P /\ c3.inferred = I /\ c3.id = c.id /\ c3.status = c.status
  BY <1>1, <1>3, CardWith
<1> HIDE DEF c3
<1>5. QED
  BY <1>4 DEF Touching, c1, c2, c3

\* A clue keeps a card what it is, when it says the truth about it.
LEMMA PositiveSound ==
  ASSUME NEW c \in Card, NEW ids
  PROVE  /\ Positive(c, ids) \in Card
         /\ \A t : CardSound(c, t) /\ t \in ids => CardSound(Positive(c, ids), t)
<1> DEFINE P == c.possible \cap ids
           I == c.inferred \cap ids
           d == Touching(c, P, I, TRUE)
<1>1. /\ c.possible \in SUBSET Ids /\ c.inferred \in SUBSET Ids
      /\ {"id", "possible", "inferred", "info_lock", "status", "clued", "reset", "known"} \subseteq DOMAIN c
  BY CardWith
<1>2. Positive(c, ids) = d
  BY <1>1 DEF Positive, Touching
<1>3. P \in SUBSET Ids /\ I \in SUBSET Ids
  BY <1>1
<1>4. /\ d \in Card
      /\ d.possible = P /\ d.inferred = I /\ d.id = c.id /\ d.status = c.status
  <2> HIDE DEF P, I
  <2>1. QED
    BY <1>3, TouchFields
<1> HIDE DEF d
<1>5. \A t : CardSound(c, t) /\ t \in ids => CardSound(d, t)
  BY <1>4 DEF CardSound
<1>6. QED
  BY <1>2, <1>4, <1>5

\* So does a clue that does not touch it.
LEMMA NegativeSound ==
  ASSUME NEW c \in Card, NEW ids
  PROVE  /\ Negative(c, ids) \in Card
         /\ \A t : CardSound(c, t) /\ t \notin ids => CardSound(Negative(c, ids), t)
<1> DEFINE P == c.possible \ ids
           I == c.inferred \ ids
           e == [[c EXCEPT !.possible = P] EXCEPT !.inferred = I]
<1>1. /\ c.possible \in SUBSET Ids /\ c.inferred \in SUBSET Ids /\ c.clued \in BOOLEAN
      /\ {"id", "possible", "inferred", "info_lock", "status", "clued", "reset", "known"} \subseteq DOMAIN c
  BY CardWith
<1>2. Negative(c, ids) = e
  BY <1>1 DEF Negative
<1>3. P \in SUBSET Ids /\ I \in SUBSET Ids
  BY <1>1
<1> DEFINE c1 == [c EXCEPT !.possible = P]
<1>4. c1 \in Card /\ DOMAIN c1 = DOMAIN c /\ c1.possible = P /\ c1.id = c.id /\ c1.status = c.status
  BY <1>1, <1>3, CardWith
<1>5. e = [c1 EXCEPT !.inferred = I]
  OBVIOUS
<1> HIDE DEF c1, e
<1>6. e \in Card /\ e.possible = P /\ e.inferred = I /\ e.id = c.id /\ e.status = c.status
  BY <1>1, <1>3, <1>4, <1>5, CardWith
<1>7. \A t : CardSound(c, t) /\ t \notin ids => CardSound(e, t)
  BY <1>6 DEF CardSound
<1>8. QED
  BY <1>2, <1>6, <1>7

\* A card that is shown is still a card.
LEMMA ShownIsCard ==
  ASSUME NEW c \in Card, NEW id \in Ids
  PROVE  Shown(c, id) \in Card /\ [c EXCEPT !.id = id] \in Card
<1> DEFINE P  == c.possible \cap {id}
           I  == c.inferred \cap {id}
           c1 == [c EXCEPT !.id = id]
           c2 == [c1 EXCEPT !.possible = P]
           c3 == [c2 EXCEPT !.inferred = I]
<1>1. /\ c.possible \in SUBSET Ids /\ c.inferred \in SUBSET Ids
      /\ {"id", "possible", "inferred", "info_lock", "status", "clued", "reset", "known"} \subseteq DOMAIN c
  BY CardWith
<1>2. Shown(c, id) = c3
  BY <1>1 DEF Shown
<1>3. P \in SUBSET Ids /\ I \in SUBSET Ids /\ id \in Ids \cup {NoId}
  BY <1>1
<1> HIDE DEF P, I
<1>4. c1 \in Card
  BY <1>3, CardWith
<1>5. c2 \in Card
  <2> HIDE DEF c1
  <2>1. QED
    BY <1>3, <1>4, CardWith
<1>6. c3 \in Card
  <2> HIDE DEF c2
  <2>1. QED
    BY <1>3, <1>5, CardWith
<1>7. QED
  BY <1>2, <1>4, <1>6

\* A view with other thoughts
WithThoughts(view, th) == [view EXCEPT !.thoughts = th]

\* A view is sound if what it thinks of the held cards is.
LEMMA ThoughtsSound ==
  ASSUME NEW st, NEW T, TableSound(st, T), NEW old, NEW view, ViewSound(view, old, T),
         Undrawn(st) \subseteq Undrawn(old),
         NEW th \in [Orders -> Card], \A o \in Held(st) : CardSound(th[o], T[o])
  PROVE  ViewSound(WithThoughts(view, th), st, T)
<1> DEFINE v == WithThoughts(view, th)
<1>1. view \in View /\ view.thrown = FALSE /\ \A o \in Undrawn(old) : T[o] \in view.all_possible
  BY DEF ViewSound
<1>2. v \in View
  BY <1>1 DEF View, WithThoughts
<1>3. v.thoughts = th /\ v.all_possible = view.all_possible /\ v.thrown = FALSE
  BY <1>1 DEF View, WithThoughts
<1> HIDE DEF v
<1>4. ViewSound(v, st, T)
  BY <1>1, <1>2, <1>3 DEF ViewSound
<1>5. QED
  BY <1>4 DEF v

\* The fields of a view
LEMMA ViewFields ==
  ASSUME NEW st, NEW T, NEW view, ViewSound(view, st, T)
  PROVE  /\ view.thoughts \in [Orders -> Card]
         /\ view.all_possible \in SUBSET Ids
         /\ DOMAIN view = {"playerIndex", "thoughts", "all_possible", "thrown"}
BY DEF ViewSound, View

\* team_elimP's patches
LEMMA PatchedSound ==
  ASSUME NEW st, NEW T, TableSound(st, T), NEW view, ViewSound(view, st, T),
         NEW common, ViewSound(common, st, T), NEW patched
  PROVE  ViewSound(Patched(view, common, patched), st, T)
<1> DEFINE th == [o \in Orders |-> IF o \in patched THEN Merged(common.thoughts[o], view.thoughts[o])
                                   ELSE view.thoughts[o]]
<1>1. Patched(view, common, patched) = WithThoughts(view, th)
  BY DEF Patched, WithThoughts
<1>2. view.thoughts \in [Orders -> Card] /\ common.thoughts \in [Orders -> Card]
  BY ViewFields
<1>3. th \in [Orders -> Card]
  BY <1>2, MergedFields
<1>4. ASSUME NEW o \in Held(st)
      PROVE  CardSound(th[o], T[o])
  <2> DEFINE c == common.thoughts[o]
             v == view.thoughts[o]
  <2>1. CardSound(c, T[o]) /\ CardSound(v, T[o])
    BY DEF ViewSound
  <2>2. o \in Orders
    BY OneHolder
  <2>3. th[o] = IF o \in patched THEN Merged(c, v) ELSE v
    BY <2>2
  <2> HIDE DEF c, v, th
  <2>4. CardSound(Merged(c, v), T[o])
    <3>1. c \in Card /\ v \in Card
      BY <2>1 DEF CardSound
    <3>2. QED
      BY <2>1, <3>1, MergedFields DEF CardSound
  <2>5. QED
    BY <2>1, <2>3, <2>4
<1> HIDE DEF th
<1>5. QED
  BY <1>1, <1>3, <1>4, ThoughtsSound

\* A view with a card that is drawn
LEMMA DrawnSound ==
  ASSUME NEW st, NEW T, TableSound(st, T), NEW old, NEW view, ViewSound(view, old, T),
         NEW o \in Undrawn(old), Held(st) \subseteq Held(old) \cup {o},
         Undrawn(st) \subseteq Undrawn(old), NEW seen \in {NoId, T[o]}
  PROVE  ViewSound(Drawn(view, o, seen), st, T)
<1> DEFINE c  == NewCard(view.all_possible, seen)
           th == [view.thoughts EXCEPT ![o] = c]
<1>1. /\ view.thoughts \in [Orders -> Card] /\ view.all_possible \in SUBSET Ids
      /\ T[o] \in view.all_possible /\ o \in Orders
      /\ \A q \in Held(old) : CardSound(view.thoughts[q], T[q])
  BY ViewFields DEF ViewSound, Undrawn
<1>2. Drawn(view, o, seen) = WithThoughts(view, th)
  BY <1>1 DEF Drawn, WithThoughts
<1>3. CardSound(c, T[o])
  BY <1>1, NewCardSound
<1> HIDE DEF c
<1>4. th \in [Orders -> Card]
  BY <1>1, <1>3 DEF CardSound
<1>5. \A q \in Orders : th[q] = IF q = o THEN c ELSE view.thoughts[q]
  BY <1>1
<1>6. \A q \in Held(st) : CardSound(th[q], T[q])
  <2>1. \A q \in Held(st) : q \in Orders
    BY OneHolder
  <2> HIDE DEF th
  <2>2. QED
    BY <1>1, <1>3, <1>5, <2>1
<1> HIDE DEF th
<1>7. QED
  BY <1>2, <1>4, <1>6, ThoughtsSound

\* A view with what a clue says of a hand
LEMMA HeardSound ==
  ASSUME NEW st, NEW T, TableSound(st, T), NEW view, ViewSound(view, st, T),
         NEW hand, NEW list, NEW ids,
         \A o \in hand : o \in list <=> T[o] \in ids
  PROVE  ViewSound(Heard(view, hand, list, ids), st, T)
<1> DEFINE th == [o \in Orders |-> IF o \notin hand THEN view.thoughts[o]
                                   ELSE IF o \in list THEN Positive(view.thoughts[o], ids)
                                   ELSE Negative(view.thoughts[o], ids)]
<1>1. Heard(view, hand, list, ids) = WithThoughts(view, th)
  BY DEF Heard, WithThoughts
<1>2. view.thoughts \in [Orders -> Card]
  BY ViewFields
<1>3. th \in [Orders -> Card]
  BY <1>2, PositiveSound, NegativeSound
<1>4. ASSUME NEW o \in Held(st)
      PROVE  CardSound(th[o], T[o])
  <2> DEFINE v == view.thoughts[o]
  <2>1. CardSound(v, T[o]) /\ v \in Card
    BY DEF ViewSound, CardSound
  <2>2. o \in Orders
    BY OneHolder
  <2>3. th[o] = IF o \notin hand THEN v ELSE IF o \in list THEN Positive(v, ids) ELSE Negative(v, ids)
    BY <2>2
  <2> HIDE DEF v, th
  <2>4. T[o] \in ids => CardSound(Positive(v, ids), T[o])
    BY <2>1, PositiveSound
  <2>5. T[o] \notin ids => CardSound(Negative(v, ids), T[o])
    BY <2>1, NegativeSound
  <2>6. QED
    BY <2>1, <2>3, <2>4, <2>5
<1> HIDE DEF th
<1>5. QED
  BY <1>1, <1>3, <1>4, ThoughtsSound

\* A view with another thought about a card
LEMMA OtherThought ==
  ASSUME NEW st, NEW T, TableSound(st, T), NEW old, NEW view, ViewSound(view, old, T),
         Held(st) \subseteq Held(old), Undrawn(st) \subseteq Undrawn(old),
         NEW o \in Orders, NEW c \in Card, o \in Held(st) => CardSound(c, T[o])
  PROVE  ViewSound([view EXCEPT !.thoughts[o] = c], st, T)
<1> DEFINE th == [view.thoughts EXCEPT ![o] = c]
<1>1. /\ view.thoughts \in [Orders -> Card]
      /\ \A q \in Held(old) : CardSound(view.thoughts[q], T[q])
  BY ViewFields DEF ViewSound
<1>2. [view EXCEPT !.thoughts[o] = c] = WithThoughts(view, th)
  BY DEF WithThoughts
<1>3. th \in [Orders -> Card]
  BY <1>1
<1>4. \A q \in Orders : th[q] = IF q = o THEN c ELSE view.thoughts[q]
  BY <1>1
<1>5. \A q \in Held(st) : CardSound(th[q], T[q])
  <2>1. \A q \in Held(st) : q \in Orders
    BY OneHolder
  <2> HIDE DEF th
  <2>2. QED
    BY <1>1, <1>4, <2>1
<1> HIDE DEF th
<1>6. QED
  BY <1>2, <1>3, <1>5, ThoughtsSound

\* A view of a table with fewer cards
LEMMA FewerCards ==
  ASSUME NEW st, NEW T, NEW old, NEW view, ViewSound(view, old, T),
         Held(st) \subseteq Held(old), Undrawn(st) \subseteq Undrawn(old)
  PROVE  ViewSound(view, st, T)
BY DEF ViewSound

-----------------------------------------------------------------------------
(* What the handlers do to the table *)

\* the fields of a state
Fields == {"turn_count", "clue_tokens", "strikes", "hands", "deck", "deck_ids", "drawn_index",
           "play_stacks", "discard_stacks", "max_ranks", "cardsLeft", "cardOrder",
           "currentPlayerIndex", "endgameTurns"}

\* The state of a program that has been told nothing but the truth
StateSound(st, T) ==
  /\ DOMAIN st = Fields
  /\ TableSound(st, T)
  /\ st.deck \in [Orders -> Ids \cup {NoId}]
  /\ st.deck_ids \in [Orders -> Ids \cup {NoId}]
  /\ \A o \in Orders : st.deck_ids[o] \in {NoId, T[o]}
  /\ st.play_stacks \in [Suits -> Nat]
  /\ st.discard_stacks \in [Ids -> Nat]

\* Two programs see the same cards in the same places.
Agreeing(s, t) ==
  /\ s.hands = t.hands /\ s.cardOrder = t.cardOrder
  /\ s.strikes = t.strikes /\ s.play_stacks = t.play_stacks

\* A clue changes neither.
LEMMA ClueState ==
  ASSUME NEW T, NEW st, StateSound(st, T)
  PROVE  /\ StateSound(OnClue(st), T)
         /\ Agreeing(OnClue(st), st)
         /\ Held(OnClue(st)) = Held(st) /\ Undrawn(OnClue(st)) = Undrawn(st)
<1> DEFINE s == OnClue(st)
<1>1. DOMAIN st = Fields
  BY DEF StateSound
<1>2. /\ DOMAIN s = Fields
      /\ s.hands = st.hands /\ s.deck = st.deck /\ s.deck_ids = st.deck_ids
      /\ s.cardOrder = st.cardOrder /\ s.strikes = st.strikes
      /\ s.play_stacks = st.play_stacks /\ s.discard_stacks = st.discard_stacks
  BY <1>1 DEF OnClue, Fields
<1> HIDE DEF s
<1>3. Held(s) = Held(st) /\ Undrawn(s) = Undrawn(st)
  BY <1>2 DEF Held, Undrawn
<1>4. \A id \in Ids : BaseCount(s, id) = BaseCount(st, id) /\ Live(s, T, id) = Live(st, T, id)
  BY <1>2, <1>3 DEF BaseCount, Live
<1>5. TableSound(s, T)
  BY <1>2, <1>3, <1>4 DEF StateSound, TableSound
<1>6. StateSound(s, T)
  BY <1>2, <1>5 DEF StateSound
<1>7. Agreeing(s, st)
  BY <1>2 DEF Agreeing
<1>8. QED
  BY <1>3, <1>6, <1>7 DEF s

\* The table once its next card o has been drawn
LEMMA DrawState ==
  ASSUME NEW T, NEW st, StateSound(st, T), NEW p \in Players, NEW o \in Orders,
         o = st.cardOrder + 1, NEW id \in {NoId, T[o]}
  PROVE  LET s == HandleDraw(st, p, o, id)
         IN  /\ StateSound(s, T)
             /\ s.hands = With(st.hands, p, o) /\ s.cardOrder = o
             /\ s.strikes = st.strikes /\ s.play_stacks = st.play_stacks
             /\ Held(s) = Held(st) \cup {o}
             /\ Undrawn(s) \subseteq Undrawn(st) /\ o \in Undrawn(st)
<1> DEFINE s == HandleDraw(st, p, o, id)
           d == OnDraw(st, p, o, id)
<1>0. /\ DOMAIN st = Fields /\ TableSound(st, T)
      /\ st.deck \in [Orders -> Ids \cup {NoId}] /\ st.deck_ids \in [Orders -> Ids \cup {NoId}]
      /\ \A q \in Orders : st.deck_ids[q] \in {NoId, T[q]}
  BY DEF StateSound
<1>1. /\ DOMAIN d = Fields
      /\ d.hands = With(st.hands, p, o) /\ d.deck = Seen(st.deck, st.deck_ids, o, id)
      /\ d.deck_ids = Reveal(st.deck_ids, o, id)
      /\ d.cardOrder = o /\ d.strikes = st.strikes
      /\ d.play_stacks = st.play_stacks /\ d.discard_stacks = st.discard_stacks
  BY <1>0 DEF OnDraw, Fields
<1>2. s = d \/ s = [d EXCEPT !.turn_count = 1]
  BY DEF HandleDraw
<1> HIDE DEF d, s
<1>3. /\ DOMAIN s = Fields
      /\ s.hands = With(st.hands, p, o) /\ s.deck = Seen(st.deck, st.deck_ids, o, id)
      /\ s.deck_ids = Reveal(st.deck_ids, o, id)
      /\ s.cardOrder = o /\ s.strikes = st.strikes
      /\ s.play_stacks = st.play_stacks /\ s.discard_stacks = st.discard_stacks
  BY <1>1, <1>2 DEF Fields
<1>4. /\ T \in [Orders -> Ids] /\ st.hands \in [Players -> SUBSET Orders]
      /\ \A a, b \in Players : a # b => st.hands[a] \cap st.hands[b] = {}
      /\ st.cardOrder \in Int /\ o \in Int
      /\ \A q \in Held(st) : q \in Orders /\ q \in Int /\ q <= st.cardOrder
      /\ \A q \in Orders : st.deck[q] \in {NoId, T[q]}
  <2>1. st.cardOrder \in Orders \cup {-1} /\ \A q \in Orders : q \in Int
    BY <1>0, TableAssumption DEF TableSound, Orders
  <2>2. \A q \in Orders : q \in Int
    BY TableAssumption DEF Orders
  <2>3. \A q \in Held(st) : q \in Orders
    BY <1>0, OneHolder
  <2>4. st.cardOrder \in Int
    <3>1. CASE st.cardOrder = -1
      BY <3>1
    <3>2. CASE st.cardOrder \in Orders
      BY <2>2, <3>2
    <3>3. QED
      BY <2>1, <3>1, <3>2
  <2>5. QED
    BY <1>0, <2>2, <2>3, <2>4 DEF TableSound
<1>5. /\ s.hands \in [Players -> SUBSET Orders]
      /\ \A a \in Players : s.hands[a] = IF a = p THEN st.hands[a] \cup {o} ELSE st.hands[a]
  BY <1>3, <1>4 DEF With
<1>6. Held(s) = Held(st) \cup {o}
  <2>1. \A q : q \in Held(s) <=> \E a \in Players : q \in s.hands[a]
    BY DEF Held
  <2>2. \A q : q \in Held(st) <=> \E a \in Players : q \in st.hands[a]
    BY DEF Held
  <2>3. ASSUME NEW q
        PROVE  q \in Held(s) <=> q \in Held(st) \cup {o}
    BY <1>5, <2>1, <2>2
  <2>4. QED
    BY <2>3
<1>7. o \notin Held(st) /\ o \in Undrawn(st)
  BY <1>4 DEF Undrawn
<1>8. Undrawn(s) = Undrawn(st) \ {o}
  <2>1. \A q \in Orders : q > o <=> (q > st.cardOrder /\ q # o)
    <3>1. \A q \in Orders : q \in Int
      BY TableAssumption DEF Orders
    <3>2. QED
      BY <1>4, <3>1
  <2>2. QED
    BY <1>3, <2>1 DEF Undrawn
<1>9. \A a, b \in Players : a # b => s.hands[a] \cap s.hands[b] = {}
  <2>1. \A a \in Players : o \notin st.hands[a]
    BY <1>7 DEF Held
  <2>2. QED
    BY <1>4, <1>5, <2>1
<1>10. \A q \in Held(s) : q <= s.cardOrder
  BY <1>3, <1>4, <1>6
<1>11. /\ s.deck \in [Orders -> Ids \cup {NoId}]
       /\ \A q \in Orders : s.deck[q] \in {NoId, T[q]}
  BY <1>0, <1>3, <1>4 DEF Seen
<1>12. /\ s.deck_ids \in [Orders -> Ids \cup {NoId}]
       /\ \A q \in Orders : s.deck_ids[q] \in {NoId, T[q]}
  BY <1>0, <1>3, <1>4 DEF Reveal
<1>13. \A i \in Ids : BaseCount(s, i) = BaseCount(st, i) /\ Live(s, T, i) = Live(st, T, i)
  BY <1>3, <1>6, <1>7, <1>8 DEF BaseCount, Live
<1>14. TableSound(s, T)
  BY <1>0, <1>3, <1>4, <1>5, <1>9, <1>10, <1>11, <1>13 DEF TableSound
<1>15. StateSound(s, T)
  BY <1>3, <1>11, <1>12, <1>14 DEF StateSound
<1>16. QED
  BY <1>3, <1>6, <1>7, <1>8, <1>15 DEF s

\* A card o has left the hand of p, and its copy counts as played or discarded.
LEMMA LeaveState ==
  ASSUME NEW T, NEW st, StateSound(st, T), NEW p \in Players, NEW o \in st.hands[p],
         NEW s, DOMAIN s = Fields,
         s.hands = Without(st.hands, p, o), s.cardOrder = st.cardOrder,
         s.deck = Reveal(st.deck, o, T[o]), s.deck_ids = Reveal(st.deck_ids, o, T[o]),
         s.play_stacks \in [Suits -> Nat], s.discard_stacks \in [Ids -> Nat],
         \A i \in Ids : BaseCount(s, i) = BaseCount(st, i) + (IF i = T[o] THEN 1 ELSE 0)
  PROVE  /\ StateSound(s, T)
         /\ Held(s) = Held(st) \ {o} /\ Undrawn(s) = Undrawn(st) /\ o \in Orders /\ T[o] \in Ids
<1>0. /\ TableSound(st, T)
      /\ st.deck \in [Orders -> Ids \cup {NoId}] /\ st.deck_ids \in [Orders -> Ids \cup {NoId}]
      /\ \A q \in Orders : st.deck_ids[q] \in {NoId, T[q]}
  BY DEF StateSound
<1>1. /\ T \in [Orders -> Ids] /\ st.hands \in [Players -> SUBSET Orders]
      /\ \A a, b \in Players : a # b => st.hands[a] \cap st.hands[b] = {}
      /\ st.cardOrder \in Orders \cup {-1}
      /\ \A q \in Held(st) : q <= st.cardOrder
      /\ \A q \in Orders : st.deck[q] \in {NoId, T[q]}
  BY <1>0 DEF TableSound
<1>2. o \in Orders /\ T[o] \in Ids /\ o \in Held(st)
  BY <1>1 DEF Held
<1>3. /\ s.hands \in [Players -> SUBSET Orders]
      /\ \A a \in Players : s.hands[a] = IF a = p THEN st.hands[a] \ {o} ELSE st.hands[a]
  BY <1>1 DEF Without
<1>4. Held(s) = Held(st) \ {o}
  <2>1. \A a \in Players : a # p => o \notin st.hands[a]
    BY <1>1
  <2>2. \A q : q \in Held(s) <=> \E a \in Players : q \in s.hands[a]
    BY DEF Held
  <2>3. \A q : q \in Held(st) <=> \E a \in Players : q \in st.hands[a]
    BY DEF Held
  <2>4. ASSUME NEW q
        PROVE  q \in Held(s) <=> q \in Held(st) \ {o}
    BY <1>3, <2>1, <2>2, <2>3
  <2>5. QED
    BY <2>4
<1>5. Undrawn(s) = Undrawn(st)
  BY DEF Undrawn
<1>6. o \notin Undrawn(st)
  <2>1. o <= st.cardOrder /\ o \in Int /\ st.cardOrder \in Int
    BY <1>1, <1>2, TableAssumption DEF Orders
  <2>2. QED
    BY <2>1 DEF Undrawn
<1>7. \A a, b \in Players : a # b => s.hands[a] \cap s.hands[b] = {}
  BY <1>1, <1>3
<1>8. /\ s.deck \in [Orders -> Ids \cup {NoId}]
      /\ \A q \in Orders : s.deck[q] \in {NoId, T[q]}
  BY <1>0, <1>1, <1>2 DEF Reveal
<1>9. /\ s.deck_ids \in [Orders -> Ids \cup {NoId}]
      /\ \A q \in Orders : s.deck_ids[q] \in {NoId, T[q]}
  BY <1>0, <1>1, <1>2 DEF Reveal
<1>10. ASSUME NEW i \in Ids
       PROVE  /\ BaseCount(s, i) \in Int
              /\ Cardinality(Live(s, T, i)) = Copies[i] - BaseCount(s, i)
  <2> DEFINE A == Live(st, T, i)
             B == Live(s, T, i)
  <2>1. BaseCount(st, i) \in Int /\ Cardinality(A) = Copies[i] - BaseCount(st, i)
    BY <1>0 DEF TableSound
  <2>2. BaseCount(s, i) = BaseCount(st, i) + (IF i = T[o] THEN 1 ELSE 0)
    OBVIOUS
  <2>3. A = LiveAmong(st, T, {i})
    BY DEF Live, LiveAmong
  <2>4. IsFiniteSet(A) /\ Cardinality(A) \in Nat
    BY <1>0, <2>3, LiveFinite
  <2>5. CASE i = T[o]
    <3>1. o \in A /\ B = A \ {o}
      BY <1>2, <1>4, <1>5, <1>6, <2>5 DEF Live
    <3> HIDE DEF A, B
    <3>2. Cardinality(B) = Cardinality(A) - 1
      BY <2>4, <3>1, FS_RemoveElement
    <3>3. QED
      BY <2>1, <2>2, <2>4, <2>5, <3>2, TableAssumption DEF B
  <2>6. CASE i # T[o]
    <3>1. B = A
      BY <1>2, <1>4, <1>5, <1>6, <2>6 DEF Live
    <3>2. QED
      BY <2>1, <2>2, <2>6, <3>1
  <2>7. QED
    BY <2>5, <2>6
<1>11. TableSound(s, T)
  BY <1>1, <1>3, <1>4, <1>7, <1>8, <1>10 DEF TableSound
<1>12. StateSound(s, T)
  BY <1>8, <1>9, <1>11 DEF StateSound
<1>13. QED
  BY <1>2, <1>4, <1>5, <1>12

\* the state after a discard that is not a misplay
Discarded(st, p, o, id) == OnDiscard(st, p, o, id, FALSE)

\* onDiscard
LEMMA DiscardState ==
  ASSUME NEW T, NEW st, StateSound(st, T), NEW p \in Players, NEW o \in st.hands[p]
  PROVE  LET s == Discarded(st, p, o, T[o])
         IN  /\ StateSound(s, T)
             /\ s.hands = Without(st.hands, p, o) /\ s.cardOrder = st.cardOrder
             /\ s.strikes = st.strikes /\ s.play_stacks = st.play_stacks
             /\ Held(s) = Held(st) \ {o} /\ Undrawn(s) = Undrawn(st) /\ o \in Orders /\ T[o] \in Ids
<1> DEFINE s == Discarded(st, p, o, T[o])
<1>0. /\ DOMAIN st = Fields /\ st.play_stacks \in [Suits -> Nat] /\ st.discard_stacks \in [Ids -> Nat]
  BY DEF StateSound
<1>1. /\ DOMAIN s = Fields
      /\ s.hands = Without(st.hands, p, o) /\ s.deck = Reveal(st.deck, o, T[o])
      /\ s.deck_ids = Reveal(st.deck_ids, o, T[o])
      /\ s.cardOrder = st.cardOrder /\ s.strikes = st.strikes
      /\ s.play_stacks = st.play_stacks /\ s.discard_stacks = Gone(st.discard_stacks, T[o])
  BY <1>0 DEF Discarded, OnDiscard, Fields
<1> HIDE DEF s
<1>2. T[o] \in Ids /\ T[o] # NoId
  <2>1. T \in [Orders -> Ids] /\ o \in Orders
    BY DEF StateSound, TableSound
  <2>2. QED
    BY <2>1, Finite
<1>3. s.discard_stacks = [st.discard_stacks EXCEPT ![T[o]] = @ + 1]
  BY <1>1, <1>2 DEF Gone
<1>4. /\ s.discard_stacks \in [Ids -> Nat]
      /\ \A i \in Ids : s.discard_stacks[i] = st.discard_stacks[i] + (IF i = T[o] THEN 1 ELSE 0)
  BY <1>0, <1>2, <1>3
<1>5. ASSUME NEW i \in Ids
      PROVE  BaseCount(s, i) = BaseCount(st, i) + (IF i = T[o] THEN 1 ELSE 0)
  <2>1. s.play_stacks = st.play_stacks /\ st.discard_stacks[i] \in Nat
        /\ s.discard_stacks[i] = st.discard_stacks[i] + (IF i = T[o] THEN 1 ELSE 0)
    BY <1>0, <1>1, <1>4
  <2>2. QED
    BY <2>1 DEF BaseCount
<1>6. /\ StateSound(s, T)
      /\ Held(s) = Held(st) \ {o} /\ Undrawn(s) = Undrawn(st) /\ o \in Orders /\ T[o] \in Ids
  BY <1>0, <1>1, <1>4, <1>5, LeaveState
<1>7. QED
  BY <1>1, <1>6 DEF s

\* onPlay of a card that fits
LEMMA PlayState ==
  ASSUME NEW T, NEW st, StateSound(st, T), NEW p \in Players, NEW o \in st.hands[p],
         IsPlayable(st, T[o])
  PROVE  LET s == OnPlay(st, p, o, T[o])
         IN  /\ StateSound(s, T)
             /\ s.hands = Without(st.hands, p, o) /\ s.cardOrder = st.cardOrder
             /\ s.strikes = st.strikes /\ s.play_stacks = Stacked(st.play_stacks, T[o])
             /\ Held(s) = Held(st) \ {o} /\ Undrawn(s) = Undrawn(st) /\ o \in Orders /\ T[o] \in Ids
<1> DEFINE s == OnPlay(st, p, o, T[o])
           t == T[o]
<1>0. /\ DOMAIN st = Fields /\ st.play_stacks \in [Suits -> Nat] /\ st.discard_stacks \in [Ids -> Nat]
  BY DEF StateSound
<1>1. /\ DOMAIN s = Fields
      /\ s.hands = Without(st.hands, p, o) /\ s.deck = Reveal(st.deck, o, T[o])
      /\ s.deck_ids = Reveal(st.deck_ids, o, T[o])
      /\ s.cardOrder = st.cardOrder /\ s.strikes = st.strikes
      /\ s.play_stacks = Stacked(st.play_stacks, T[o]) /\ s.discard_stacks = st.discard_stacks
  BY <1>0 DEF OnPlay, Fields
<1> HIDE DEF s
<1>2. t \in Ids /\ t # NoId
  <2>1. T \in [Orders -> Ids] /\ o \in Orders
    BY DEF StateSound, TableSound
  <2>2. QED
    BY <2>1, Finite
<1>3. \A i \in Ids : i[1] \in Suits /\ i[2] \in Nat /\ i = <<i[1], i[2]>>
  <2>1. MaxRank \in Nat
    BY TableAssumption
  <2>2. QED
    BY <2>1 DEF Ids, Ranks
<1>4. s.play_stacks = [st.play_stacks EXCEPT ![t[1]] = t[2]]
  BY <1>1, <1>2 DEF Stacked
<1>5. t[2] = st.play_stacks[t[1]] + 1
  BY DEF IsPlayable
<1>6. /\ s.play_stacks \in [Suits -> Nat]
      /\ \A c \in Suits : s.play_stacks[c] = IF c = t[1] THEN t[2] ELSE st.play_stacks[c]
  BY <1>0, <1>2, <1>3, <1>4
<1> HIDE DEF t
<1>7. ASSUME NEW i \in Ids
      PROVE  BaseCount(s, i) = BaseCount(st, i) + (IF i = t THEN 1 ELSE 0)
  <2> DEFINE a == st.play_stacks[i[1]]
             b == s.play_stacks[i[1]]
             n == st.discard_stacks[i]
  <2>1. a \in Nat /\ n \in Nat /\ i[2] \in Nat /\ t[2] \in Nat
    BY <1>0, <1>2, <1>3
  <2>2. b = IF i[1] = t[1] THEN t[2] ELSE a
    BY <1>3, <1>6
  <2>3. i[1] = t[1] => t[2] = a + 1
    BY <1>5
  <2>4. i = t <=> i[1] = t[1] /\ i[2] = t[2]
    BY <1>2, <1>3
  <2>5. BaseCount(st, i) = (IF a >= i[2] THEN 1 ELSE 0) + n
    BY DEF BaseCount
  <2>6. BaseCount(s, i) = (IF b >= i[2] THEN 1 ELSE 0) + n
    BY <1>1 DEF BaseCount
  <2> HIDE DEF a, b, n
  <2>7. CASE i = t
    BY <2>1, <2>2, <2>3, <2>4, <2>5, <2>6, <2>7
  <2>8. CASE i # t
    <3>1. b >= i[2] <=> a >= i[2]
      BY <2>1, <2>2, <2>3, <2>4, <2>8
    <3>2. QED
      BY <2>1, <2>5, <2>6, <2>8, <3>1
  <2>9. QED
    BY <2>7, <2>8
<1>8. /\ StateSound(s, T)
      /\ Held(s) = Held(st) \ {o} /\ Undrawn(s) = Undrawn(st) /\ o \in Orders /\ T[o] \in Ids
  <2>1. \A i \in Ids : BaseCount(s, i) = BaseCount(st, i) + (IF i = T[o] THEN 1 ELSE 0)
    BY <1>7 DEF t
  <2>2. QED
    BY <1>0, <1>1, <1>6, <2>1, LeaveState
<1>9. QED
  BY <1>1, <1>8 DEF s

-----------------------------------------------------------------------------
(* What the handlers do to a game *)

\* The game of a program: no view of it rules out what is.
GameSound(game, T) ==
  /\ DOMAIN game = {"state", "common", "players"}
  /\ StateSound(game.state, T)
  /\ ViewSound(game.common, game.state, T)
  /\ DOMAIN game.players = Players
  /\ \A p \in Players : ViewSound(game.players[p], game.state, T)

\* team_elimP
LEMMA TeamElimSound ==
  ASSUME NEW T, NEW game, GameSound(game, T), NEW patched
  PROVE  GameSound(TeamElim(game, patched), T) /\ TeamElim(game, patched).state = game.state
<1> DEFINE st == game.state
           ps == [p \in Players |-> CardElim(Patched(game.players[p], game.common, patched), st)]
           g  == [game EXCEPT !.players = ps]
<1>0. /\ DOMAIN game = {"state", "common", "players"}
      /\ StateSound(st, T) /\ TableSound(st, T) /\ ViewSound(game.common, st, T)
      /\ \A p \in Players : ViewSound(game.players[p], st, T)
  BY DEF GameSound, StateSound
<1>1. TeamElim(game, patched) = g
  BY DEF TeamElim
<1> HIDE DEF st
<1>2. ASSUME NEW p \in Players
      PROVE  ViewSound(ps[p], st, T)
  <2> DEFINE v == Patched(game.players[p], game.common, patched)
  <2>1. ViewSound(v, st, T)
    BY <1>0, PatchedSound
  <2>2. ps[p] = CardElim(v, st)
    OBVIOUS
  <2> HIDE DEF v, ps
  <2>3. QED
    BY <1>0, <2>1, <2>2, CardElimSound
<1>3. DOMAIN ps = Players
  OBVIOUS
<1> HIDE DEF ps
<1>4. /\ DOMAIN g = {"state", "common", "players"}
      /\ g.state = st /\ g.common = game.common /\ g.players = ps
  BY <1>0 DEF st
<1> HIDE DEF g
<1>5. GameSound(g, T)
  BY <1>0, <1>2, <1>3, <1>4 DEF GameSound
<1>6. QED
  BY <1>1, <1>4, <1>5 DEF st

\* onDraw of the next card
LEMMA GameDrawSound ==
  ASSUME NEW T, NEW game, GameSound(game, T), NEW us, NEW p \in Players, NEW o \in Orders,
         o = game.state.cardOrder + 1, NEW id \in {NoId, T[o]}
  PROVE  LET g == GameDraw(game, us, p, o, id)
         IN  /\ GameSound(g, T)
             /\ g.state.hands = With(game.state.hands, p, o) /\ g.state.cardOrder = o
             /\ g.state.strikes = game.state.strikes
             /\ g.state.play_stacks = game.state.play_stacks
<1> DEFINE old == game.state
           st  == HandleDraw(old, p, o, id)
           ps  == [i \in Players |-> CardElim(Drawn(game.players[i], o, SeenBy(i, us, p, id)), st)]
           cm  == CardElim(Drawn(game.common, o, NoId), st)
           g   == GameDraw(game, us, p, o, id)
<1>0. /\ DOMAIN game = {"state", "common", "players"}
      /\ StateSound(old, T) /\ ViewSound(game.common, old, T)
      /\ \A i \in Players : ViewSound(game.players[i], old, T)
      /\ o = old.cardOrder + 1
  BY DEF GameSound
<1>1. g = [game EXCEPT !.state = st, !.players = ps, !.common = cm]
  BY DEF GameDraw
<1> HIDE DEF old, g
<1>2. /\ StateSound(st, T)
      /\ st.hands = With(old.hands, p, o) /\ st.cardOrder = o
      /\ st.strikes = old.strikes /\ st.play_stacks = old.play_stacks
      /\ Held(st) = Held(old) \cup {o}
      /\ Undrawn(st) \subseteq Undrawn(old) /\ o \in Undrawn(old)
  BY <1>0, DrawState
<1> HIDE DEF st
<1>3. TableSound(st, T)
  BY <1>2 DEF StateSound
<1>4. ASSUME NEW view, ViewSound(view, old, T), NEW seen \in {NoId, T[o]}
      PROVE  ViewSound(CardElim(Drawn(view, o, seen), st), st, T)
  <2>1. ViewSound(Drawn(view, o, seen), st, T)
    BY <1>2, <1>3, <1>4, DrawnSound
  <2>2. QED
    BY <1>3, <2>1, CardElimSound
<1>5. ViewSound(cm, st, T)
  BY <1>0, <1>4
<1>6. ASSUME NEW i \in Players
      PROVE  ViewSound(ps[i], st, T)
  <2>1. SeenBy(i, us, p, id) \in {NoId, T[o]}
    BY DEF SeenBy
  <2>2. ViewSound(CardElim(Drawn(game.players[i], o, SeenBy(i, us, p, id)), st), st, T)
    BY <1>0, <1>4, <2>1
  <2>3. QED
    BY <2>2
<1>7. DOMAIN ps = Players
  OBVIOUS
<1> HIDE DEF ps, cm
<1>8. /\ DOMAIN g = {"state", "common", "players"}
      /\ g.state = st /\ g.common = cm /\ g.players = ps
  BY <1>0, <1>1
<1>9. GameSound(g, T)
  BY <1>2, <1>5, <1>6, <1>7, <1>8 DEF GameSound
<1>10. QED
  BY <1>2, <1>8, <1>9 DEF old, g

\* onClue that says the truth
LEMMA GameClueSound ==
  ASSUME NEW T, NEW game, GameSound(game, T), NEW target, NEW list, NEW ids,
         \A o \in game.state.hands[target] : o \in list <=> T[o] \in ids
  PROVE  LET g == GameClue(game, target, list, ids)
         IN  GameSound(g, T) /\ Agreeing(g.state, game.state)
<1> DEFINE old  == game.state
           st   == OnClue(old)
           hand == old.hands[target]
           cm   == CardElim(Heard(game.common, hand, list, ids), st)
           h    == [game EXCEPT !.state = st, !.common = cm]
           g    == GameClue(game, target, list, ids)
<1>0. /\ DOMAIN game = {"state", "common", "players"}
      /\ StateSound(old, T) /\ ViewSound(game.common, old, T)
      /\ DOMAIN game.players = Players
      /\ \A i \in Players : ViewSound(game.players[i], old, T)
      /\ \A o \in hand : o \in list <=> T[o] \in ids
  BY DEF GameSound
<1>1. g = TeamElim(h, hand)
  BY DEF GameClue
<1> HIDE DEF old, g, hand
<1>2. /\ StateSound(st, T) /\ Agreeing(st, old)
      /\ Held(st) = Held(old) /\ Undrawn(st) = Undrawn(old)
  BY <1>0, ClueState
<1> HIDE DEF st
<1>3. TableSound(st, T)
  BY <1>2 DEF StateSound
<1>4. ViewSound(game.common, st, T) /\ \A i \in Players : ViewSound(game.players[i], st, T)
  BY <1>0, <1>2, FewerCards
<1>5. ViewSound(Heard(game.common, hand, list, ids), st, T)
  BY <1>0, <1>3, <1>4, HeardSound
<1>6. ViewSound(cm, st, T)
  BY <1>3, <1>5, CardElimSound
<1> HIDE DEF cm
<1>7. /\ DOMAIN h = {"state", "common", "players"}
      /\ h.state = st /\ h.common = cm /\ h.players = game.players
  BY <1>0
<1> HIDE DEF h
<1>8. GameSound(h, T)
  BY <1>0, <1>2, <1>4, <1>6, <1>7 DEF GameSound
<1>9. GameSound(g, T) /\ g.state = st
  BY <1>1, <1>7, <1>8, TeamElimSound
<1>10. QED
  BY <1>2, <1>9 DEF old, g

\* onDiscard and onPlay of a card that is what it is said to be, once the state is st
LEMMA GameRevealSound ==
  ASSUME NEW T, NEW game, GameSound(game, T), NEW p \in Players, NEW o \in Orders, T[o] \in Ids,
         NEW st, StateSound(st, T),
         Held(st) = Held(game.state) \ {o}, Undrawn(st) = Undrawn(game.state)
  PROVE  LET g == GameReveal(game, st, p, o, T[o])
         IN  GameSound(g, T) /\ g.state = st
<1> DEFINE old   == game.state
           id    == T[o]
           c     == [game.players[p].thoughts[o] EXCEPT !.id = id]
           d     == Shown(game.common.thoughts[o], id)
           told  == [game.players[p] EXCEPT !.thoughts[o] = c]
           shown == [game.common EXCEPT !.thoughts[o] = d]
           cm    == CardElim(shown, st)
           ps    == [game.players EXCEPT ![p] = told]
           h     == [game EXCEPT !.state = st, !.players = ps, !.common = cm]
           g     == GameReveal(game, st, p, o, id)
<1>0. /\ DOMAIN game = {"state", "common", "players"}
      /\ TableSound(st, T) /\ ViewSound(game.common, old, T)
      /\ DOMAIN game.players = Players
      /\ \A i \in Players : ViewSound(game.players[i], old, T)
      /\ Held(st) \subseteq Held(old) /\ Undrawn(st) \subseteq Undrawn(old) /\ o \notin Held(st)
  BY DEF GameSound, StateSound
<1>1. g = TeamElim(h, {o})
  <2>1. told = [game.players[p] EXCEPT !.thoughts[o].id = id]
    OBVIOUS
  <2>2. h = [game EXCEPT !.state = st, !.players[p] = told, !.common = cm]
    <3> HIDE DEF told, cm
    <3>1. QED
      OBVIOUS
  <2> HIDE DEF h, told
  <2>3. QED
    BY <2>1, <2>2 DEF GameReveal
<1> HIDE DEF old, g
<1>2. game.players[p].thoughts[o] \in Card /\ game.common.thoughts[o] \in Card
  BY <1>0, ViewFields
<1>3. c \in Card /\ d \in Card
  BY <1>2, ShownIsCard
<1> HIDE DEF c, d
<1>4. ViewSound(told, st, T) /\ ViewSound(shown, st, T)
  BY <1>0, <1>3, OtherThought
<1> HIDE DEF told, shown
<1>5. ViewSound(cm, st, T)
  BY <1>0, <1>4, CardElimSound
<1>6. \A i \in Players : ViewSound(game.players[i], st, T)
  BY <1>0, FewerCards
<1>7. DOMAIN ps = Players /\ \A i \in Players : ps[i] = IF i = p THEN told ELSE game.players[i]
  BY <1>0
<1> HIDE DEF cm, ps
<1>8. /\ DOMAIN h = {"state", "common", "players"}
      /\ h.state = st /\ h.common = cm /\ h.players = ps
  BY <1>0
<1> HIDE DEF h
<1>9. GameSound(h, T)
  BY <1>4, <1>5, <1>6, <1>7, <1>8 DEF GameSound
<1>10. GameSound(g, T) /\ g.state = st
  BY <1>1, <1>8, <1>9, TeamElimSound
<1>11. QED
  BY <1>10 DEF g

\* An inference of a convention, right or wrong
LEMMA InferSound ==
  ASSUME NEW T, NEW game, GameSound(game, T), NEW o \in Orders, NEW id
  PROVE  GameSound(Infer(game, o, id), T) /\ Infer(game, o, id).state = game.state
<1> DEFINE c  == game.common.thoughts[o]
           I  == c.inferred \cap {id}
           d  == [c EXCEPT !.inferred = I]
           cm == [game.common EXCEPT !.thoughts[o] = d]
           h  == [game EXCEPT !.common = cm]
           st == game.state
<1>0. /\ DOMAIN game = {"state", "common", "players"}
      /\ StateSound(st, T) /\ TableSound(st, T) /\ ViewSound(game.common, st, T)
      /\ DOMAIN game.players = Players
      /\ \A i \in Players : ViewSound(game.players[i], st, T)
  BY DEF GameSound, StateSound
<1>1. Infer(game, o, id) = TeamElim(h, {o})
  <2>1. cm = [game.common EXCEPT !.thoughts[o].inferred = I]
    OBVIOUS
  <2>2. h = [game EXCEPT !.common.thoughts[o].inferred = I]
    OBVIOUS
  <2> HIDE DEF h
  <2>3. QED
    BY <2>2 DEF Infer
<1> HIDE DEF st
<1>2. c \in Card /\ c.inferred \in SUBSET Ids
      /\ {"id", "possible", "inferred", "info_lock", "status", "clued", "reset", "known"} \subseteq DOMAIN c
  <2>1. c \in Card
    BY <1>0, ViewFields
  <2>2. QED
    BY <2>1, CardWith
<1>3. o \in Held(st) => CardSound(c, T[o])
  BY <1>0 DEF ViewSound
<1> HIDE DEF c
<1>4. I \in SUBSET Ids /\ I \subseteq c.inferred
  BY <1>2
<1> HIDE DEF I
<1>5. d \in Card /\ d.inferred = I /\ d.possible = c.possible /\ d.id = c.id /\ d.status = c.status
  BY <1>2, <1>4, CardWith
<1> HIDE DEF d
<1>6. o \in Held(st) => CardSound(d, T[o])
  BY <1>3, <1>4, <1>5 DEF CardSound
<1>7. ViewSound(cm, st, T)
  BY <1>0, <1>5, <1>6, OtherThought
<1> HIDE DEF cm
<1>8. /\ DOMAIN h = {"state", "common", "players"}
      /\ h.state = st /\ h.common = cm /\ h.players = game.players
  BY <1>0 DEF st
<1> HIDE DEF h
<1>9. GameSound(h, T)
  BY <1>0, <1>7, <1>8 DEF GameSound
<1>10. QED
  BY <1>1, <1>8, <1>9, TeamElimSound DEF st

-----------------------------------------------------------------------------
(* The course of the game *)

\* Nobody knows anything of the cards yet.
LEMMA NewGameSound ==
  ASSUME NEW T \in Decks
  PROVE  GameSound(NewGame, T) /\ NewGame.state = InitialState
<1> DEFINE st == InitialState
           c  == NewCard(Ids, NoId)
           th == [o \in Orders |-> c]
           ps == [p \in Players |-> NewView(p)]
           g  == NewGame
<1>1. /\ DOMAIN st = Fields
      /\ st.hands = [p \in Players |-> {}] /\ st.deck = [o \in Orders |-> NoId]
      /\ st.deck_ids = [o \in Orders |-> NoId] /\ st.play_stacks = [s \in Suits |-> 0]
      /\ st.discard_stacks = [id \in Ids |-> 0] /\ st.cardOrder = -1
  BY DEF InitialState, Fields
<1> HIDE DEF st
<1>2. T \in [Orders -> Ids] /\ \A id \in Ids : Cardinality({o \in Orders : T[o] = id}) = Copies[id]
  BY DEF Decks
<1>3. Held(st) = {}
  BY <1>1 DEF Held
<1>4. Undrawn(st) = Orders
  <2>1. \A o \in Orders : o > -1
    BY Finite DEF Orders
  <2>2. QED
    BY <1>1, <2>1 DEF Undrawn
<1>5. ASSUME NEW id \in Ids
      PROVE  BaseCount(st, id) = 0 /\ Cardinality(Live(st, T, id)) = Copies[id] - 0
  <2>1. id[1] \in Suits /\ id[2] \in Nat /\ id[2] > 0
    <3>1. MaxRank \in Nat
      BY TableAssumption
    <3>2. QED
      BY <3>1 DEF Ids, Ranks
  <2>2. BaseCount(st, id) = 0
    BY <1>1, <2>1 DEF BaseCount
  <2>3. Live(st, T, id) = {o \in Orders : T[o] = id}
    BY <1>3, <1>4 DEF Live
  <2>4. Copies[id] \in Nat
    BY TableAssumption
  <2>5. QED
    BY <1>2, <2>2, <2>3, <2>4
<1>6. TableSound(st, T)
  <2>1. st.hands \in [Players -> SUBSET Orders]
        /\ \A p, q \in Players : p # q => st.hands[p] \cap st.hands[q] = {}
    BY <1>1
  <2>2. \A o \in Orders : st.deck[o] \in {NoId, T[o]}
    BY <1>1
  <2>3. st.cardOrder \in Orders \cup {-1}
    BY <1>1
  <2>4. \A id \in Ids : /\ BaseCount(st, id) \in Int
                        /\ Cardinality(Live(st, T, id)) = Copies[id] - BaseCount(st, id)
    BY <1>5
  <2>5. QED
    BY <1>2, <1>3, <2>1, <2>2, <2>3, <2>4 DEF TableSound
<1>7. StateSound(st, T)
  <2>1. st.play_stacks \in [Suits -> Nat] /\ st.discard_stacks \in [Ids -> Nat]
    BY <1>1
  <2>2. /\ st.deck \in [Orders -> Ids \cup {NoId}] /\ st.deck_ids \in [Orders -> Ids \cup {NoId}]
        /\ \A o \in Orders : st.deck_ids[o] \in {NoId, T[o]}
    BY <1>1
  <2>3. QED
    BY <1>1, <1>6, <2>1, <2>2 DEF StateSound
<1>8. th \in [Orders -> Card]
  <2>1. c \in Card
    BY NewCardIsCard
  <2> HIDE DEF c
  <2>2. QED
    BY <2>1
<1>9. ASSUME NEW p \in Players \cup {Common}
      PROVE  ViewSound(NewView(p), st, T)
  <2> DEFINE v == NewView(p)
  <2>1. v = [playerIndex |-> p, thoughts |-> th, all_possible |-> Ids, thrown |-> FALSE]
    BY DEF NewView
  <2> HIDE DEF th
  <2>2. v \in View /\ v.all_possible = Ids /\ v.thrown = FALSE
    BY <1>8, <2>1 DEF View
  <2> HIDE DEF v
  <2>3. ViewSound(v, st, T)
    BY <1>2, <1>3, <1>4, <2>2 DEF ViewSound
  <2>4. QED
    BY <2>3 DEF v
<1>10. ViewSound(NewView(Common), st, T)
  BY <1>9
<1>11. DOMAIN ps = Players /\ \A p \in Players : ViewSound(ps[p], st, T)
  BY <1>9
<1> HIDE DEF ps
<1>12. /\ DOMAIN g = {"state", "common", "players"}
       /\ g.state = st /\ g.common = NewView(Common) /\ g.players = ps
  BY DEF NewGame, st, ps
<1> HIDE DEF g
<1>13. GameSound(g, T)
  BY <1>7, <1>10, <1>11, <1>12 DEF GameSound
<1>14. QED
  BY <1>12, <1>13 DEF g, st

\* Every card dealt goes to somebody.
LEMMA DealerIsPlayer ==
  ASSUME NEW n \in 1 .. NumPlayers * HandSize
  PROVE  Dealer(n) \in Players /\ n - 1 \in Orders
<1> DEFINE h == HandSize
           q == (n - 1) \div h
           m == NumPlayers * h
<1>1. /\ NumPlayers \in Nat /\ h \in Nat /\ h > 0 /\ m < DeckSize /\ DeckSize \in Nat
  BY TableAssumption DEF HandSize
<1> HIDE DEF h
<1>2. m \in Nat /\ n \in 1 .. m
  BY <1>1 DEF h
<1>3. q \in Int /\ q * h <= n - 1 /\ n - 1 < (q + 1) * h
  BY <1>1, <1>2
<1> HIDE DEF q
<1>4. q >= 0
  <2> SUFFICES ASSUME q < 0 PROVE FALSE
    BY <1>3
  <2>1. q + 1 <= 0 /\ q + 1 \in Int
    BY <1>3
  <2>2. (q + 1) * h <= 0
    BY <1>1, <2>1
  <2>3. (q + 1) * h \in Int
    BY <1>1, <2>1
  <2>4. QED
    BY <1>2, <1>3, <2>2, <2>3
<1>5. q < NumPlayers
  <2> SUFFICES ASSUME q >= NumPlayers PROVE FALSE
    BY <1>1, <1>3
  <2>1. PICK d \in Nat : q = NumPlayers + d
    <3>1. q - NumPlayers \in Nat /\ q = NumPlayers + (q - NumPlayers)
      BY <1>1, <1>3
    <3>2. QED
      BY <3>1
  <2>2. q * h = m + d * h /\ d * h >= 0 /\ d * h \in Nat
    BY <1>1, <2>1
  <2>3. QED
    BY <1>2, <1>3, <2>2
<1>6. n - 1 \in Orders
  BY <1>1, <1>2 DEF Orders
<1>7. Dealer(n) = q
  BY DEF Dealer, q, h
<1>8. QED
  BY <1>1, <1>3, <1>4, <1>5, <1>6, <1>7 DEF Players

\* The starting hands of seat i are drawn one by one.
LEMMA DealtCourse ==
  ASSUME NEW i \in Players
  PROVE  \E f : /\ f[0] = NewGame
                /\ \A n \in 1 .. NumPlayers * HandSize :
                     f[n] = GameDraw(f[n - 1], i, Dealer(n), n - 1, Told(i, Dealer(n), n - 1))
                /\ DealtGame(i) = f[NumPlayers * HandSize]
<1> DEFINE N == NumPlayers * HandSize
           Body(n, g) == IF n = 0 THEN NewGame
                         ELSE GameDraw(g, i, Dealer(n), n - 1, Told(i, Dealer(n), n - 1))
           Sol(n) == \E f : f = [k \in 0 .. n |-> Body(k, f[k - 1])]
           deal == CHOOSE f : f = [k \in 0 .. N |-> Body(k, f[k - 1])]
           G == {n \in 0 .. N : Sol(n)}
<1>0. N \in Nat
  <2>1. NumPlayers \in Nat /\ HandSize \in Nat
    BY TableAssumption DEF HandSize
  <2>2. QED
    BY <2>1
<1>1. DealtGame(i) = deal[N]
  BY DEF DealtGame
<1>2. \A g, h : Body(0, g) = Body(0, h)
  OBVIOUS
<1>3. /\ \A g : Body(0, g) = NewGame
      /\ \A n \in 1 .. N : \A g :
           Body(n, g) = GameDraw(g, i, Dealer(n), n - 1, Told(i, Dealer(n), n - 1))
  OBVIOUS
<1> HIDE DEF Body, N
<1>4. 0 \in G
  <2> DEFINE f == [k \in 0 .. 0 |-> Body(0, 0)]
  <2>1. \A k \in 0 .. 0 : Body(0, 0) = Body(k, f[k - 1])
    <3> HIDE DEF f
    <3>1. QED
      BY <1>2
  <2>2. f = [k \in 0 .. 0 |-> Body(k, f[k - 1])]
    BY <2>1
  <2> HIDE DEF f
  <2>3. Sol(0)
    BY <2>2
  <2> HIDE DEF Sol
  <2>4. QED
    BY <1>0, <2>3
<1>5. ASSUME NEW n \in 1 .. N, n - 1 \in G
      PROVE  n \in G
  <2>1. PICK f : f = [k \in 0 .. n - 1 |-> Body(k, f[k - 1])]
    BY <1>5
  <2> DEFINE g == [k \in 0 .. n |-> IF k = n THEN Body(n, f[n - 1]) ELSE f[k]]
  <2>2. \A k \in 0 .. n - 1 : f[k] = Body(k, f[k - 1])
    BY <2>1
  <2>3. \A k \in 0 .. n : g[k] = IF k = n THEN Body(n, f[n - 1]) ELSE f[k]
    OBVIOUS
  <2>4. g = [k \in 0 .. n |-> g[k]]
    OBVIOUS
  <2> HIDE DEF g
  <2>5. ASSUME NEW k \in 0 .. n
        PROVE  g[k] = Body(k, g[k - 1])
    <3>1. CASE k = 0
      <4>1. n # 0 /\ 0 \in 0 .. n - 1
        BY <1>0
      <4>2. g[0] = f[0] /\ f[0] = Body(0, f[0 - 1])
        BY <2>2, <2>3, <4>1
      <4>3. Body(0, f[0 - 1]) = Body(0, g[0 - 1])
        BY <1>2
      <4>4. QED
        BY <3>1, <4>2, <4>3
    <3>2. CASE k # 0
      <4>1. k - 1 \in 0 .. n /\ k - 1 # n
        BY <1>0, <3>2
      <4>2. g[k - 1] = f[k - 1]
        BY <2>3, <4>1
      <4>3. CASE k = n
        BY <2>3, <4>2, <4>3
      <4>4. CASE k # n
        <5>1. k \in 0 .. n - 1
          BY <1>0, <4>4
        <5>2. g[k] = f[k] /\ f[k] = Body(k, f[k - 1])
          BY <2>2, <2>3, <4>4, <5>1
        <5>3. QED
          BY <4>2, <5>2
      <4>5. QED
        BY <4>3, <4>4
    <3>3. QED
      BY <3>1, <3>2
  <2>6. g = [k \in 0 .. n |-> Body(k, g[k - 1])]
    BY <2>4, <2>5
  <2>7. Sol(n)
    BY <2>6
  <2> HIDE DEF Sol
  <2>8. n \in 0 .. N
    BY <1>0
  <2>9. QED
    BY <2>7, <2>8
<1>6. Sol(N)
  <2>1. G \in SUBSET {n \in 0 .. N : Sol(n)}
    OBVIOUS
  <2> HIDE DEF G, Sol
  <2>2. \A n \in 0 .. N : n \in G
    BY <1>0, <1>4, <1>5, UpTo
  <2>3. N \in G
    BY <1>0, <2>2
  <2>4. QED
    BY <2>1, <2>3
<1>7. deal = [k \in 0 .. N |-> Body(k, deal[k - 1])]
  BY <1>6
<1> HIDE DEF deal, G, Sol
<1>8. \A k \in 0 .. N : deal[k] = Body(k, deal[k - 1])
  BY <1>7
<1>9. deal[0] = NewGame
  BY <1>0, <1>3, <1>8
<1>10. \A n \in 1 .. N :
         deal[n] = GameDraw(deal[n - 1], i, Dealer(n), n - 1, Told(i, Dealer(n), n - 1))
  <2> SUFFICES ASSUME NEW n \in 1 .. N
               PROVE  deal[n] = GameDraw(deal[n - 1], i, Dealer(n), n - 1, Told(i, Dealer(n), n - 1))
    OBVIOUS
  <2>1. deal[n] = Body(n, deal[n - 1])
    BY <1>0, <1>8
  <2>2. QED
    BY <1>3, <2>1
<1>11. QED
  BY <1>1, <1>9, <1>10 DEF N

\* Two programs that agree still agree when each has drawn the next card.
LEMMA DrawAgrees ==
  ASSUME NEW T, NEW g, GameSound(g, T), NEW h, GameSound(h, T), Agreeing(g.state, h.state),
         NEW i, NEW j, NEW p \in Players, NEW o \in Orders, o = g.state.cardOrder + 1,
         NEW a \in {NoId, T[o]}, NEW b \in {NoId, T[o]}
  PROVE  /\ GameSound(GameDraw(g, i, p, o, a), T)
         /\ GameDraw(g, i, p, o, a).state.cardOrder = o
         /\ Agreeing(GameDraw(g, i, p, o, a).state, GameDraw(h, j, p, o, b).state)
<1> DEFINE x == GameDraw(g, i, p, o, a)
           y == GameDraw(h, j, p, o, b)
<1>1. /\ GameSound(x, T)
      /\ x.state.hands = With(g.state.hands, p, o) /\ x.state.cardOrder = o
      /\ x.state.strikes = g.state.strikes /\ x.state.play_stacks = g.state.play_stacks
  BY GameDrawSound
<1>2. o = h.state.cardOrder + 1
  BY DEF Agreeing
<1>3. /\ y.state.hands = With(h.state.hands, p, o) /\ y.state.cardOrder = o
      /\ y.state.strikes = h.state.strikes /\ y.state.play_stacks = h.state.play_stacks
  BY <1>2, GameDrawSound
<1> HIDE DEF x, y
<1>4. Agreeing(x.state, y.state)
  BY <1>1, <1>3 DEF Agreeing
<1>5. QED
  BY <1>1, <1>4 DEF x, y

\* What a seat is told of a card is what it is, or nothing.
LEMMA ToldTrue ==
  ASSUME NEW i, NEW p, NEW o
  PROVE  Told(i, p, o) \in {NoId, shuffled[o]}
BY DEF Told

\* All programs start with the truth and in the same state.
LEMMA DealtSound ==
  ASSUME shuffled \in Decks, NEW i \in Players, NEW j \in Players
  PROVE  /\ GameSound(DealtGame(i), shuffled)
         /\ Agreeing(DealtGame(i).state, DealtGame(j).state)
<1> DEFINE N == NumPlayers * HandSize
           T == shuffled
<1>0. N \in Nat
  <2>1. NumPlayers \in Nat /\ HandSize \in Nat
    BY TableAssumption DEF HandSize
  <2>2. QED
    BY <2>1
<1>1. PICK f : /\ f[0] = NewGame
               /\ \A n \in 1 .. N :
                    f[n] = GameDraw(f[n - 1], i, Dealer(n), n - 1, Told(i, Dealer(n), n - 1))
               /\ DealtGame(i) = f[N]
  BY DealtCourse
<1>2. PICK g : /\ g[0] = NewGame
               /\ \A n \in 1 .. N :
                    g[n] = GameDraw(g[n - 1], j, Dealer(n), n - 1, Told(j, Dealer(n), n - 1))
               /\ DealtGame(j) = g[N]
  BY DealtCourse
<1> DEFINE Sound(n) == /\ GameSound(f[n], T) /\ GameSound(g[n], T)
                       /\ f[n].state.cardOrder = n - 1
                       /\ Agreeing(f[n].state, g[n].state)
           H == {n \in 0 .. N : Sound(n)}
<1>3. 0 \in H
  <2>1. GameSound(NewGame, T) /\ NewGame.state = InitialState
    BY NewGameSound
  <2>2. InitialState.cardOrder = 0 - 1
    BY DEF InitialState
  <2>3. Sound(0)
    BY <1>1, <1>2, <2>1, <2>2 DEF Agreeing
  <2> HIDE DEF Sound, N
  <2>4. QED
    BY <1>0, <2>3
<1>4. ASSUME NEW n \in 1 .. N, n - 1 \in H
      PROVE  n \in H
  <2> DEFINE x == f[n - 1]
             y == g[n - 1]
             p == Dealer(n)
             o == n - 1
             a == Told(i, p, o)
             b == Told(j, p, o)
  <2>1. /\ GameSound(x, T) /\ GameSound(y, T) /\ Agreeing(x.state, y.state)
        /\ x.state.cardOrder = o - 1
    BY <1>4
  <2>2. f[n] = GameDraw(x, i, p, o, a) /\ g[n] = GameDraw(y, j, p, o, b)
    BY <1>1, <1>2
  <2>3. p \in Players /\ o \in Orders
    BY DealerIsPlayer
  <2>4. a \in {NoId, T[o]} /\ b \in {NoId, T[o]}
    BY ToldTrue
  <2>5. o \in Int /\ o = n - 1
    BY <1>0
  <2> HIDE DEF x, y, p, o, a, b
  <2>6. o = x.state.cardOrder + 1
    BY <2>1, <2>5
  <2>7. Agreeing(y.state, x.state) /\ o = y.state.cardOrder + 1
    BY <2>1, <2>6 DEF Agreeing
  <2>8. /\ GameSound(GameDraw(x, i, p, o, a), T)
        /\ GameDraw(x, i, p, o, a).state.cardOrder = o
        /\ Agreeing(GameDraw(x, i, p, o, a).state, GameDraw(y, j, p, o, b).state)
    BY <2>1, <2>3, <2>4, <2>6, DrawAgrees
  <2>9. GameSound(GameDraw(y, j, p, o, b), T)
    BY <2>1, <2>3, <2>4, <2>7, DrawAgrees
  <2>10. Sound(n)
    BY <2>2, <2>5, <2>8, <2>9
  <2> HIDE DEF Sound, N
  <2>11. n \in 0 .. N
    BY <1>0
  <2>12. QED
    BY <2>10, <2>11
<1>5. Sound(N)
  <2>1. H \in SUBSET {n \in 0 .. N : Sound(n)}
    OBVIOUS
  <2> HIDE DEF H, Sound, N
  <2>2. \A n \in 0 .. N : n \in H
    BY <1>0, <1>3, <1>4, UpTo
  <2>3. N \in H
    BY <1>0, <2>2
  <2>4. QED
    BY <2>1, <2>3
<1>6. QED
  BY <1>1, <1>2, <1>5

\* The programs are told the truth and see the same cards in the same places.
SoundGames(gs, T) ==
  /\ DOMAIN gs = Players
  /\ \A i \in Players : GameSound(gs[i], T) /\ Agreeing(gs[i].state, gs[0].state)

\* Somebody sits on seat 0, and somebody has the next turn.
LEMMA Seats ==
  /\ 0 \in Players
  /\ \A p \in Players : NextPlayerIndex(p) \in Players
<1>1. NumPlayers \in Nat \ {0, 1}
  BY TableAssumption
<1>2. QED
  BY <1>1 DEF Players, NextPlayerIndex

\* The next card, if there is one and the game goes on, is drawn in every program.
LEMMA RefillSound ==
  ASSUME NEW g, GameSound(g, shuffled), NEW h, GameSound(h, shuffled),
         Agreeing(g.state, h.state), NEW i, NEW j, toMove \in Players
  PROVE  GameSound(Refill(g, i), shuffled) /\ Agreeing(Refill(g, i).state, Refill(h, j).state)
<1> DEFINE o == g.state.cardOrder + 1
           a == Told(i, toMove, o)
           b == Told(j, toMove, o)
           More == o < DeckSize /\ g.state.strikes # MaxStrikes /\ Score(g.state) # PerfectScore
           x == GameDraw(g, i, toMove, o, a)
           y == GameDraw(h, j, toMove, o, b)
<1>1. /\ h.state.cardOrder + 1 = o /\ h.state.strikes = g.state.strikes
      /\ Score(h.state) = Score(g.state)
  BY DEF Agreeing, Score
<1>2. Refill(g, i) = (IF More THEN x ELSE g) /\ Refill(h, j) = (IF More THEN y ELSE h)
  BY <1>1 DEF Refill
<1>3. a \in {NoId, shuffled[o]} /\ b \in {NoId, shuffled[o]}
  BY ToldTrue
<1>4. o < DeckSize => o \in Orders
  <2>1. g.state.cardOrder \in Orders \cup {-1}
    BY DEF GameSound, StateSound, TableSound
  <2>2. QED
    BY <2>1, Finite DEF Orders
<1> HIDE DEF a, b
<1>5. More => GameSound(x, shuffled) /\ Agreeing(x.state, y.state)
  BY <1>3, <1>4, DrawAgrees
<1> HIDE DEF x, y, More
<1>6. CASE More
  BY <1>2, <1>5, <1>6
<1>7. CASE ~More
  BY <1>2, <1>7
<1>8. QED
  BY <1>6, <1>7

\* A card o leaves the hand of the player to move, and another is drawn.
LEMMA LeaveSound ==
  ASSUME SoundGames(games, shuffled), toMove \in Players, NEW o \in Orders,
         shuffled[o] \in Ids, NEW after,
         \A i \in Players : /\ StateSound(after[i], shuffled)
                            /\ Held(after[i]) = Held(games[i].state) \ {o}
                            /\ Undrawn(after[i]) = Undrawn(games[i].state)
                            /\ Agreeing(after[i], after[0]),
         Leave(o, after)
  PROVE  SoundGames(games', shuffled)
<1> DEFINE R(i) == GameReveal(games[i], after[i], toMove, o, shuffled[o])
<1>1. ASSUME NEW i \in Players
      PROVE  GameSound(R(i), shuffled) /\ R(i).state = after[i]
  <2>1. GameSound(games[i], shuffled)
    BY DEF SoundGames
  <2>2. QED
    BY <2>1, GameRevealSound
<1>2. DOMAIN games' = Players /\ \A i \in Players : games'[i] = Refill(R(i), i)
  BY DEF Leave
<1> HIDE DEF R
<1>3. 0 \in Players
  BY Seats
<1>4. ASSUME NEW i \in Players
      PROVE  GameSound(games'[i], shuffled) /\ Agreeing(games'[i].state, games'[0].state)
  <2>1. /\ GameSound(R(i), shuffled) /\ GameSound(R(0), shuffled)
        /\ Agreeing(R(i).state, R(0).state)
    BY <1>1, <1>3
  <2>2. /\ GameSound(Refill(R(i), i), shuffled)
        /\ Agreeing(Refill(R(i), i).state, Refill(R(0), 0).state)
    BY <2>1, RefillSound
  <2>3. QED
    BY <1>2, <1>3, <2>2
<1>5. QED
  BY <1>2, <1>4 DEF SoundGames

\* The inductive invariant: whatever the programs have been told is true, none of
\* their views rules out what is, and they agree on where the cards are.
IInv ==
  /\ shuffled \in Decks
  /\ toMove \in Players
  /\ SoundGames(games, shuffled)

\* It holds once the hands are dealt.
LEMMA InitIInv == Init => IInv
<1> SUFFICES ASSUME Init PROVE IInv
  OBVIOUS
<1>1. shuffled \in Decks /\ 0 \in Players /\ toMove \in Players
  BY EmpathyAssumption, Seats DEF Init
<1>2. DOMAIN games = Players /\ \A i \in Players : games[i] = DealtGame(i)
  BY DEF Init
<1>3. \A i \in Players : GameSound(games[i], shuffled) /\ Agreeing(games[i].state, games[0].state)
  <2> SUFFICES ASSUME NEW i \in Players
               PROVE  GameSound(games[i], shuffled) /\ Agreeing(games[i].state, games[0].state)
    OBVIOUS
  <2>1. GameSound(DealtGame(i), shuffled) /\ Agreeing(DealtGame(i).state, DealtGame(0).state)
    BY <1>1, DealtSound
  <2>2. QED
    BY <1>1, <1>2, <2>1
<1>4. QED
  BY <1>1, <1>2, <1>3 DEF IInv, SoundGames

\* A clue, with an inference of a convention or without, keeps it.
LEMMA ClueSound ==
  ASSUME IInv, Clue
  PROVE  SoundGames(games', shuffled)
<1>0. /\ SoundGames(games, shuffled) /\ 0 \in Players
  BY Seats DEF IInv
<1>1. PICK target \in Players, ids \in Clues :
        \/ games' = Clued(target, ids)
        \/ Inferred(Clued(target, ids), TouchedBy(target, ids))
  BY DEF Clue
<1> DEFINE list == TouchedBy(target, ids)
           C == Clued(target, ids)
<1>2. ASSUME NEW i \in Players
      PROVE  GameSound(C[i], shuffled) /\ Agreeing(C[i].state, Table)
  <2>1. GameSound(games[i], shuffled) /\ Agreeing(games[i].state, Table)
    BY <1>0 DEF SoundGames, Table
  <2>2. \A o \in games[i].state.hands[target] : o \in list <=> shuffled[o] \in ids
    BY <2>1 DEF Agreeing, TouchedBy
  <2>3. C[i] = GameClue(games[i], target, list, ids)
    BY DEF Clued
  <2> HIDE DEF list, C
  <2>4. GameSound(C[i], shuffled) /\ Agreeing(C[i].state, games[i].state)
    BY <2>1, <2>2, <2>3, GameClueSound
  <2>5. QED
    BY <2>1, <2>4 DEF Agreeing
<1>3. DOMAIN C = Players
  BY DEF Clued
<1> HIDE DEF C
<1>4. \A i \in Players : GameSound(C[i], shuffled) /\ Agreeing(C[i].state, C[0].state)
  BY <1>0, <1>2 DEF Agreeing
<1>5. CASE games' = C
  BY <1>3, <1>4, <1>5 DEF SoundGames
<1>6. CASE Inferred(C, list)
  <2>1. PICK o \in list, id \in Ids : games' = [i \in Players |-> Infer(C[i], o, id)]
    BY <1>6 DEF Inferred
  <2>2. o \in Orders
    <3>1. Table.hands \in [Players -> SUBSET Orders]
      BY <1>0 DEF SoundGames, GameSound, StateSound, TableSound, Table
    <3>2. QED
      BY <3>1 DEF TouchedBy
  <2>3. ASSUME NEW i \in Players
        PROVE  GameSound(Infer(C[i], o, id), shuffled) /\ Infer(C[i], o, id).state = C[i].state
    BY <1>4, <2>2, InferSound
  <2>4. \A i \in Players : GameSound(games'[i], shuffled) /\ games'[i].state = C[i].state
    BY <2>1, <2>3
  <2>5. DOMAIN games' = Players
    BY <2>1
  <2>6. QED
    BY <1>0, <1>4, <2>4, <2>5 DEF SoundGames
<1>7. QED
  BY <1>1, <1>5, <1>6 DEF C

\* A discard keeps it.
LEMMA DiscardSound ==
  ASSUME IInv, Discard
  PROVE  SoundGames(games', shuffled)
<1>0. SoundGames(games, shuffled) /\ toMove \in Players /\ 0 \in Players
  BY Seats DEF IInv
<1>1. PICK o \in Table.hands[toMove] :
        Leave(o, [i \in Players |-> OnDiscard(games[i].state, toMove, o, shuffled[o], FALSE)])
  BY DEF Discard
<1> DEFINE after == [i \in Players |-> OnDiscard(games[i].state, toMove, o, shuffled[o], FALSE)]
<1>2. ASSUME NEW i \in Players
      PROVE  /\ StateSound(after[i], shuffled)
             /\ Held(after[i]) = Held(games[i].state) \ {o}
             /\ Undrawn(after[i]) = Undrawn(games[i].state)
             /\ after[i].hands = Without(Table.hands, toMove, o)
             /\ after[i].cardOrder = Table.cardOrder /\ after[i].strikes = Table.strikes
             /\ after[i].play_stacks = Table.play_stacks
             /\ o \in Orders /\ shuffled[o] \in Ids
  <2> DEFINE st == games[i].state
             s  == Discarded(st, toMove, o, shuffled[o])
  <2>1. StateSound(st, shuffled) /\ Agreeing(st, Table)
    BY <1>0 DEF SoundGames, GameSound, Table
  <2>2. o \in st.hands[toMove]
    BY <2>1 DEF Agreeing
  <2>3. /\ StateSound(s, shuffled)
        /\ s.hands = Without(st.hands, toMove, o) /\ s.cardOrder = st.cardOrder
        /\ s.strikes = st.strikes /\ s.play_stacks = st.play_stacks
        /\ Held(s) = Held(st) \ {o} /\ Undrawn(s) = Undrawn(st)
        /\ o \in Orders /\ shuffled[o] \in Ids
    BY <1>0, <2>1, <2>2, DiscardState
  <2>4. after[i] = s
    BY DEF Discarded
  <2> HIDE DEF after, s
  <2>5. QED
    BY <2>1, <2>3, <2>4 DEF Agreeing
<1> HIDE DEF after
<1>3. \A i \in Players : Agreeing(after[i], after[0])
  BY <1>0, <1>2 DEF Agreeing
<1>4. Leave(o, after)
  BY <1>1 DEF after
<1>5. QED
  BY <1>0, <1>2, <1>3, <1>4, LeaveSound

\* A play of a card that fits keeps it.
LEMMA PlaySound ==
  ASSUME IInv, Play
  PROVE  SoundGames(games', shuffled)
<1>0. SoundGames(games, shuffled) /\ toMove \in Players /\ 0 \in Players
  BY Seats DEF IInv
<1>1. PICK o \in Table.hands[toMove] :
        /\ IsPlayable(Table, shuffled[o])
        /\ Leave(o, [i \in Players |-> OnPlay(games[i].state, toMove, o, shuffled[o])])
  BY DEF Play
<1> DEFINE after == [i \in Players |-> OnPlay(games[i].state, toMove, o, shuffled[o])]
<1>2. ASSUME NEW i \in Players
      PROVE  /\ StateSound(after[i], shuffled)
             /\ Held(after[i]) = Held(games[i].state) \ {o}
             /\ Undrawn(after[i]) = Undrawn(games[i].state)
             /\ after[i].hands = Without(Table.hands, toMove, o)
             /\ after[i].cardOrder = Table.cardOrder /\ after[i].strikes = Table.strikes
             /\ after[i].play_stacks = Stacked(Table.play_stacks, shuffled[o])
             /\ o \in Orders /\ shuffled[o] \in Ids
  <2> DEFINE st == games[i].state
             s  == OnPlay(st, toMove, o, shuffled[o])
  <2>1. StateSound(st, shuffled) /\ Agreeing(st, Table)
    BY <1>0 DEF SoundGames, GameSound, Table
  <2>2. o \in st.hands[toMove] /\ IsPlayable(st, shuffled[o])
    BY <1>1, <2>1 DEF Agreeing, IsPlayable
  <2>3. /\ StateSound(s, shuffled)
        /\ s.hands = Without(st.hands, toMove, o) /\ s.cardOrder = st.cardOrder
        /\ s.strikes = st.strikes /\ s.play_stacks = Stacked(st.play_stacks, shuffled[o])
        /\ Held(s) = Held(st) \ {o} /\ Undrawn(s) = Undrawn(st)
        /\ o \in Orders /\ shuffled[o] \in Ids
    BY <1>0, <2>1, <2>2, PlayState
  <2>4. after[i] = s
    OBVIOUS
  <2> HIDE DEF after, s
  <2>5. QED
    BY <2>1, <2>3, <2>4 DEF Agreeing
<1> HIDE DEF after
<1>3. \A i \in Players : Agreeing(after[i], after[0])
  BY <1>0, <1>2 DEF Agreeing
<1>4. Leave(o, after)
  BY <1>1 DEF after
<1>5. QED
  BY <1>0, <1>2, <1>3, <1>4, LeaveSound

\* Every step keeps it.
LEMMA NextIInv == IInv /\ [Next]_vars => IInv'
<1> SUFFICES ASSUME IInv, [Next]_vars PROVE IInv'
  OBVIOUS
<1>1. CASE UNCHANGED vars
  BY <1>1 DEF vars, IInv
<1>2. CASE Next
  <2>1. shuffled' = shuffled /\ toMove' = NextPlayerIndex(toMove)
    BY <1>2 DEF Next, Clue, Discard, Play, TakeTurn
  <2>2. toMove' \in Players
    BY <2>1, Seats DEF IInv
  <2>3. SoundGames(games', shuffled)
    BY <1>2, ClueSound, DiscardSound, PlaySound DEF Next
  <2>4. QED
    BY <2>1, <2>2, <2>3 DEF IInv
<1>3. QED
  BY <1>1, <1>2

\* In every program, through every clue, inference, discard and play.
THEOREM ProgramsAreSound == Spec => []IInv
<1>1. QED
  BY InitIInv, NextIInv, PTL DEF Spec

\* A view that rules out nothing rules out no card in a hand or to be drawn.
LEMMA SoundViews ==
  ASSUME IInv
  PROVE  TruthKept /\ InferredPossible
<1>1. ASSUME NEW i \in Players, NEW v \in Views(i)
      PROVE  ViewSound(v, games[i].state, shuffled)
  BY DEF IInv, SoundGames, GameSound, Views
<1>2. ASSUME NEW i \in Players
      PROVE  InHands = Held(games[i].state) /\ Table.cardOrder = games[i].state.cardOrder
  <2>1. Agreeing(games[i].state, Table)
    BY DEF IInv, SoundGames, Table
  <2>2. QED
    BY <2>1 DEF Agreeing, InHands, Held
<1>3. TruthKept
  <2> SUFFICES ASSUME NEW i \in Players, NEW v \in Views(i)
               PROVE  /\ ~v.thrown
                      /\ \A o \in InHands : shuffled[o] \in Possible(v, o)
                      /\ \A o \in Orders : o > Table.cardOrder => shuffled[o] \in v.all_possible
    BY DEF TruthKept
  <2>1. ViewSound(v, games[i].state, shuffled)
    BY <1>1
  <2>2. \A o \in InHands : CardSound(v.thoughts[o], shuffled[o])
    BY <1>2, <2>1 DEF ViewSound
  <2>3. \A o \in Orders : o > Table.cardOrder => shuffled[o] \in v.all_possible
    BY <1>2, <2>1 DEF ViewSound, Undrawn
  <2>4. ~v.thrown
    BY <2>1 DEF ViewSound
  <2>5. QED
    BY <2>2, <2>3, <2>4 DEF CardSound, Possible
<1>4. InferredPossible
  <2> SUFFICES ASSUME NEW i \in Players, NEW v \in Views(i), NEW o \in InHands
               PROVE  v.thoughts[o].inferred \subseteq Possible(v, o)
    BY DEF InferredPossible
  <2>1. CardSound(v.thoughts[o], shuffled[o])
    BY <1>1, <1>2 DEF ViewSound
  <2>2. QED
    BY <2>1 DEF CardSound, Possible
<1>5. QED
  BY <1>3, <1>4

\* No view of any program ever rules out what a card is, and card_elim never
\* throws, whatever the conventions infer.
THEOREM TruthIsKept == Spec => []TruthKept
<1>1. IInv => TruthKept
  BY SoundViews
<1>2. QED
  BY <1>1, ProgramsAreSound, PTL

\* No bot ever infers an identity that it has ruled out.
THEOREM InferencesArePossible == Spec => []InferredPossible
<1>1. IInv => InferredPossible
  BY SoundViews
<1>2. QED
  BY <1>1, ProgramsAreSound, PTL
=============================================================================
