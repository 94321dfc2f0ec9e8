--------------------------- MODULE Playout_proofs ---------------------------
(***************************************************************************)
(* What unwinnable_state gives up is lost, for every number of players,    *)
(* variant, hand size and position of an endgame.                          *)
(***************************************************************************)
EXTENDS Playout, Sums_proofs, SequenceTheorems

-----------------------------------------------------------------------------
(* The table *)

\* An identity is no NoId, and has a suit and a rank.
LEMMA IdFacts ==
  ASSUME NEW id \in Ids
  PROVE  id[1] \in Suits /\ id[2] \in 1 .. MaxRank /\ id = <<id[1], id[2]>> /\ id # NoId
BY DEF Ids, NoId

\* There is no identity NoId.
LEMMA NoIdOutside == NoId \notin Ids
BY IdFacts

\* Remainders of the seats around the table.
LEMMA AroundTable ==
  ASSUME NEW a \in Nat
  PROVE  /\ a < NumPlayers => a % NumPlayers = a
         /\ NumPlayers <= a /\ a < 2 * NumPlayers => a % NumPlayers = a - NumPlayers
<1>1. NumPlayers \in Nat /\ NumPlayers > 0
  BY EndgameAssumption
<1>2. ASSUME a < NumPlayers PROVE a % NumPlayers = a
  BY <1>1, <1>2, Z3
<1>3. ASSUME NumPlayers <= a, a < 2 * NumPlayers PROVE a % NumPlayers = a - NumPlayers
  BY <1>1, <1>3, Z3
<1>4. QED
  BY <1>2, <1>3

\* The next player is a player.
LEMMA NextIsPlayer ==
  ASSUME NEW i \in Players
  PROVE  /\ NextPlayer(i) \in Players
         /\ NextPlayer(i) = IF i + 1 < NumPlayers THEN i + 1 ELSE 0
<1>1. NumPlayers \in Nat /\ NumPlayers > 0 /\ i \in Nat /\ i < NumPlayers
  BY EndgameAssumption DEF Players
<1>2. /\ i + 1 < NumPlayers => (i + 1) % NumPlayers = i + 1
      /\ NumPlayers <= i + 1 => (i + 1) % NumPlayers = i + 1 - NumPlayers
  BY <1>1, AroundTable
<1>3. QED
  BY <1>1, <1>2 DEF NextPlayer, Players

\* The player to move has a turn left, and the turns after it are those left.
LEMMA TurnPassed ==
  ASSUME NEW p, NEW q, p.turn \in Players, p.turns \in 1 .. NumPlayers,
         q.turn = NextPlayer(p.turn), q.turns = p.turns - 1
  PROVE  p.turn \in InTurn(p) /\ InTurn(q) \subseteq InTurn(p) \ {p.turn}
<1> DEFINE t == p.turn
           e == p.turns
<1>1. NumPlayers \in Nat /\ NumPlayers > 0 /\ t \in Nat /\ t < NumPlayers /\ e \in Nat /\ e > 0 /\ e <= NumPlayers
  BY EndgameAssumption DEF Players
<1>2. t \in InTurn(p)
  <2>1. 0 \in 0 .. e - 1 /\ (t + 0) % NumPlayers = t
    BY <1>1, AroundTable
  <2> HIDE DEF t, e
  <2>2. QED
    BY <2>1 DEF InTurn, t, e
<1>3. ASSUME NEW k \in 0 .. q.turns - 1
      PROVE  /\ k + 1 \in 0 .. e - 1
             /\ (q.turn + k) % NumPlayers = (t + (k + 1)) % NumPlayers
             /\ (t + (k + 1)) % NumPlayers # t
  <2>1. k \in Nat /\ k + 1 < e
    BY <1>1
  <2>2. q.turn = IF t + 1 < NumPlayers THEN t + 1 ELSE 0
    BY NextIsPlayer
  <2>3. CASE t + 1 < NumPlayers
    <3> DEFINE a == t + (k + 1)
    <3>1. q.turn + k = a /\ a \in Nat /\ a < 2 * NumPlayers /\ a # t /\ a - NumPlayers # t
      BY <1>1, <2>1, <2>2, <2>3
    <3> HIDE DEF a
    <3>2. a % NumPlayers = a \/ a % NumPlayers = a - NumPlayers
      BY <1>1, <3>1, AroundTable
    <3>3. a % NumPlayers # t
      BY <3>1, <3>2
    <3>4. QED
      BY <2>1, <3>1, <3>3 DEF a
  <2>4. CASE ~(t + 1 < NumPlayers)
    <3>1. q.turn + k = k /\ k < NumPlayers /\ t + (k + 1) = NumPlayers + k
      BY <1>1, <2>1, <2>2, <2>4
    <3>2. k % NumPlayers = k /\ (t + (k + 1)) % NumPlayers = k
      <4> DEFINE a == t + (k + 1)
      <4>1. a \in Nat /\ NumPlayers <= a /\ a < 2 * NumPlayers /\ a - NumPlayers = k
        BY <1>1, <2>1, <3>1
      <4>2. k % NumPlayers = k
        BY <2>1, <3>1, AroundTable
      <4> HIDE DEF a
      <4>3. a % NumPlayers = k
        BY <4>1, AroundTable
      <4>4. QED
        BY <4>2, <4>3 DEF a
    <3>3. QED
      BY <1>1, <2>1, <2>4, <3>1, <3>2
  <2>5. QED
    BY <2>3, <2>4
<1>4. InTurn(q) \subseteq InTurn(p) \ {t}
  <2> SUFFICES ASSUME NEW i \in InTurn(q) PROVE i \in InTurn(p) /\ i # t
    OBVIOUS
  <2>1. PICK k \in 0 .. q.turns - 1 : i = (q.turn + k) % NumPlayers
    BY DEF InTurn
  <2>2. k + 1 \in 0 .. e - 1 /\ i = (t + (k + 1)) % NumPlayers /\ i # t
    BY <1>3, <2>1
  <2>3. QED
    BY <2>2 DEF InTurn
<1>5. QED
  BY <1>2, <1>4

\* Those who still have a turn are players.
LEMMA InTurnPlayers ==
  ASSUME NEW p, p.turn \in Players, p.turns \in -1 .. NumPlayers
  PROVE  InTurn(p) \subseteq Players /\ (p.turns \in {-1, 0} => InTurn(p) = {})
<1>1. NumPlayers \in Nat /\ NumPlayers > 0 /\ p.turn \in Nat /\ p.turn < NumPlayers
  BY EndgameAssumption DEF Players
<1>2. ASSUME NEW k \in 0 .. p.turns - 1
      PROVE  (p.turn + k) % NumPlayers \in Players
  <2> DEFINE a == p.turn + k
  <2>1. a \in Nat /\ a < 2 * NumPlayers
    BY <1>1
  <2> HIDE DEF a
  <2>2. /\ a < NumPlayers => a % NumPlayers = a
        /\ NumPlayers <= a => a % NumPlayers = a - NumPlayers
    BY <2>1, AroundTable
  <2>3. a % NumPlayers \in Players
    BY <1>1, <2>1, <2>2 DEF Players
  <2>4. QED
    BY <2>3 DEF a
<1>3. p.turns \in {-1, 0} => 0 .. p.turns - 1 = {}
  OBVIOUS
<1>4. QED
  BY <1>2, <1>3 DEF InTurn

-----------------------------------------------------------------------------
(* Hands *)

\* The card that leaves is the first of its order, and no other has it.
LEMMA FirstRemoved ==
  ASSUME NEW S, NEW s \in Seq(S), IsInjective(s), NEW o \in ToSet(s)
  PROVE  /\ RemoveFirst(s, o) \in Seq(S)
         /\ IsInjective(RemoveFirst(s, o))
         /\ ToSet(RemoveFirst(s, o)) = ToSet(s) \ {o}
<1> DEFINE n == Len(s)
           I == {i \in 1 .. n : s[i] = o}
           r == RemoveFirst(s, o)
<1>0. n \in Nat /\ DOMAIN s = 1 .. n /\ \A i \in 1 .. n : s[i] \in S
  OBVIOUS
<1>1. PICK k \in 1 .. n : s[k] = o
  BY DEF ToSet
<1>2. I = {k}
  BY <1>0, <1>1 DEF IsInjective
<1>3. Min(I) = k
  BY <1>2 DEF Min
<1>4. r = RemoveAt(s, k)
  <2>1. SelectInSeq(s, LAMBDA v : v = o) = k
    BY <1>2, <1>3 DEF SelectInSeq
  <2>2. QED
    BY <1>1, <2>1 DEF RemoveFirst
<1> DEFINE a == SubSeq(s, 1, k - 1)
           b == SubSeq(s, k + 1, n)
<1>5. a \in Seq(S) /\ Len(a) = k - 1 /\ \A i \in 1 .. k - 1 : a[i] = s[i]
  BY <1>0
<1>6. b \in Seq(S) /\ Len(b) = n - k /\ \A i \in 1 .. n - k : b[i] = s[k + i]
  <2>1. k + 1 \in Int /\ n \in Int /\ \A i \in k + 1 .. n : s[i] \in S
    BY <1>0
  <2>2. /\ b \in Seq(S)
        /\ Len(b) = IF k + 1 <= n THEN n - (k + 1) + 1 ELSE 0
        /\ \A i \in 1 .. n - (k + 1) + 1 : b[i] = s[k + 1 + i - 1]
    BY <2>1, SubSeqProperties
  <2>3. n - (k + 1) + 1 = n - k /\ (~(k + 1 <= n) => n - k = 0)
    <3> HIDE DEF n
    <3>1. n \in Nat /\ k \in 1 .. n
      BY <1>0
    <3>2. n \in Nat /\ k \in Nat /\ k <= n
      BY <3>1
    <3>3. n - (k + 1) + 1 = n - k
      BY ONLY <3>2
    <3>4. k + 1 <= n \/ n - k = 0
      BY ONLY <3>2
    <3>5. QED
      BY <3>3, <3>4
  <2>4. ASSUME NEW i \in 1 .. n - k
        PROVE  b[i] = s[k + i]
    <3>1. b[i] = s[k + 1 + i - 1]
      BY <2>2, <2>3
    <3>2. k + 1 + i - 1 = k + i
      BY <1>0
    <3>3. QED
      BY <3>1, <3>2
  <2>5. QED
    BY <2>2, <2>3, <2>4
<1>7. r = a \o b
  BY <1>4 DEF RemoveAt
<1> HIDE DEF a, b, r
<1>8. /\ r \in Seq(S) /\ Len(r) = n - 1
      /\ \A i \in 1 .. n - 1 : r[i] = IF i < k THEN s[i] ELSE s[i + 1]
  <2>1. /\ r \in Seq(S) /\ Len(r) = (k - 1) + (n - k)
        /\ \A i \in 1 .. (k - 1) + (n - k) : r[i] = IF i <= k - 1 THEN a[i] ELSE b[i - (k - 1)]
    <3>1. /\ a \o b \in Seq(S) /\ Len(a \o b) = Len(a) + Len(b)
          /\ \A i \in 1 .. Len(a) + Len(b) : (a \o b)[i] = IF i <= Len(a) THEN a[i] ELSE b[i - Len(a)]
      BY <1>5, <1>6, ConcatProperties
    <3>2. QED
      BY <1>5, <1>6, <1>7, <3>1
  <2>2. ASSUME NEW i \in 1 .. n - 1
        PROVE  r[i] = IF i < k THEN s[i] ELSE s[i + 1]
    <3>1. CASE i < k
      BY <1>0, <1>5, <2>1, <3>1
    <3>2. CASE ~(i < k)
      <4>1. i - (k - 1) \in 1 .. n - k /\ k + (i - (k - 1)) = i + 1
        BY <1>0, <3>2
      <4>2. r[i] = b[i - (k - 1)]
        BY <1>0, <2>1, <3>2
      <4>3. b[i - (k - 1)] = s[k + (i - (k - 1))]
        BY <1>6, <4>1
      <4>4. QED
        BY <3>2, <4>1, <4>2, <4>3
    <3>3. QED
      BY <3>1, <3>2
  <2>3. (k - 1) + (n - k) = n - 1
    BY <1>0
  <2>4. QED
    BY <2>1, <2>2, <2>3
<1>9. DOMAIN r = 1 .. n - 1
  BY <1>8
<1>10. IsInjective(r)
  <2> SUFFICES ASSUME NEW i \in 1 .. n - 1, NEW j \in 1 .. n - 1, r[i] = r[j] PROVE i = j
    BY <1>9 DEF IsInjective
  <2> DEFINE at(m) == IF m < k THEN m ELSE m + 1
  <2>1. ASSUME NEW m \in 1 .. n - 1
        PROVE  at(m) \in 1 .. n /\ r[m] = s[at(m)]
    <3>0. r[m] = IF m < k THEN s[m] ELSE s[m + 1]
      BY <1>8
    <3> HIDE DEF r
    <3>1. CASE m < k
      BY <1>0, <3>0, <3>1
    <3>2. CASE ~(m < k)
      BY <1>0, <3>0, <3>2
    <3>3. QED
      BY <3>1, <3>2
  <2>2. at(i) = at(j)
    <3> HIDE DEF at
    <3>1. QED
      BY <1>0, <2>1 DEF IsInjective
  <2>3. QED
    BY <1>0, <2>2
<1>11. ToSet(r) \subseteq ToSet(s) \ {o}
  <2> SUFFICES ASSUME NEW i \in 1 .. n - 1 PROVE r[i] \in ToSet(s) \ {o}
    BY <1>9 DEF ToSet
  <2> DEFINE j == IF i < k THEN i ELSE i + 1
  <2>1. j \in 1 .. n /\ j # k /\ r[i] = s[j]
    BY <1>0, <1>8
  <2> HIDE DEF j
  <2>2. s[j] # o
    BY <1>0, <1>1, <2>1 DEF IsInjective
  <2>3. QED
    BY <1>0, <2>1, <2>2 DEF ToSet
<1>12. ToSet(s) \ {o} \subseteq ToSet(r)
  <2> SUFFICES ASSUME NEW j \in 1 .. n, j # k PROVE s[j] \in ToSet(r)
    BY <1>0, <1>1 DEF ToSet
  <2> DEFINE i == IF j < k THEN j ELSE j - 1
  <2>1. i \in 1 .. n - 1 /\ r[i] = s[j]
    BY <1>0, <1>8
  <2> HIDE DEF i
  <2>2. QED
    BY <1>9, <2>1 DEF ToSet
<1>13. QED
  BY <1>8, <1>10, <1>11, <1>12 DEF r

\* A new card comes in at the front.
LEMMA FrontDrawn ==
  ASSUME NEW S, NEW s \in Seq(S), IsInjective(s), NEW x \in S, x \notin ToSet(s)
  PROVE  /\ <<x>> \o s \in Seq(S)
         /\ IsInjective(<<x>> \o s)
         /\ ToSet(<<x>> \o s) = ToSet(s) \cup {x}
<1> DEFINE n == Len(s)
           r == <<x>> \o s
<1>0. n \in Nat /\ DOMAIN s = 1 .. n /\ \A i \in 1 .. n : s[i] \in ToSet(s)
  BY DEF ToSet
<1>1. r \in Seq(S) /\ Len(r) = n + 1 /\ r[1] = x /\ \A i \in 2 .. n + 1 : r[i] = s[i - 1]
  BY <1>0
<1> HIDE DEF r
<1>2. DOMAIN r = 1 .. n + 1
  BY <1>1
<1>3. IsInjective(r)
  <2> SUFFICES ASSUME NEW i \in 1 .. n + 1, NEW j \in 1 .. n + 1, r[i] = r[j] PROVE i = j
    BY <1>2 DEF IsInjective
  <2>1. CASE i = 1 /\ j = 1
    BY <2>1
  <2>2. CASE i = 1 /\ j # 1
    <3>1. j - 1 \in 1 .. n /\ r[j] = s[j - 1]
      BY <1>0, <1>1, <2>2
    <3>2. QED
      BY <1>0, <1>1, <2>2, <3>1
  <2>3. CASE i # 1 /\ j = 1
    <3>1. i - 1 \in 1 .. n /\ r[i] = s[i - 1]
      BY <1>0, <1>1, <2>3
    <3>2. QED
      BY <1>0, <1>1, <2>3, <3>1
  <2>4. CASE i # 1 /\ j # 1
    <3>1. i - 1 \in 1 .. n /\ j - 1 \in 1 .. n /\ s[i - 1] = s[j - 1]
      BY <1>0, <1>1, <2>4
    <3>2. i - 1 = j - 1
      BY <1>0, <3>1 DEF IsInjective
    <3>3. QED
      BY <3>2
  <2>5. QED
    BY <2>1, <2>2, <2>3, <2>4
<1>4. ToSet(r) \subseteq ToSet(s) \cup {x}
  <2> SUFFICES ASSUME NEW i \in 1 .. n + 1 PROVE r[i] \in ToSet(s) \cup {x}
    BY <1>2 DEF ToSet
  <2>1. CASE i = 1
    BY <1>1, <2>1
  <2>2. CASE i # 1
    <3>1. i - 1 \in 1 .. n /\ r[i] = s[i - 1]
      BY <1>0, <1>1, <2>2
    <3>2. QED
      BY <1>0, <3>1
  <2>3. QED
    BY <2>1, <2>2
<1>5. ToSet(s) \cup {x} \subseteq ToSet(r)
  <2>1. x \in ToSet(r)
    BY <1>0, <1>1, <1>2 DEF ToSet
  <2>2. ASSUME NEW j \in 1 .. n PROVE s[j] \in ToSet(r)
    <3>1. j + 1 \in 2 .. n + 1 /\ (j + 1) - 1 = j
      BY <1>0
    <3>2. r[j + 1] = s[(j + 1) - 1] /\ j + 1 \in 1 .. n + 1
      <4> DEFINE m == j + 1
      <4>1. m \in 2 .. n + 1 /\ m \in 1 .. n + 1
        BY <1>0, <3>1
      <4> HIDE DEF m
      <4>2. r[m] = s[m - 1]
        BY <1>1, <4>1
      <4>3. QED
        BY <4>1, <4>2 DEF m
    <3>3. QED
      BY <1>2, <3>1, <3>2 DEF ToSet
  <2>3. QED
    BY <1>0, <2>1, <2>2 DEF ToSet
<1>6. QED
  BY <1>1, <1>3, <1>4, <1>5 DEF r

-----------------------------------------------------------------------------
(* What a move changes *)

\* A card that is played and fits.
Fits(p, a) == a.type = "play" /\ Playable(p, Id(p, a.order))

\* The card that leaves the hand.
LEMMA DrawnFields ==
  ASSUME NEW p \in Position, NEW o, NEW draw
  PROVE  Drawn(p, o, draw) =
           [hands    |-> Drawn(p, o, draw).hands,
            deck     |-> Drawn(p, o, draw).deck,
            stacks   |-> p.stacks,
            discards |-> p.discards,
            maxes    |-> p.maxes,
            tokens   |-> p.tokens,
            strikes  |-> p.strikes,
            left     |-> Drawn(p, o, draw).left,
            turns    |-> Drawn(p, o, draw).turns,
            top      |-> Drawn(p, o, draw).top,
            turn     |-> p.turn,
            rest     |-> p.rest,
            known    |-> p.known,
            clues    |-> p.clues]
BY DEF Drawn, Position

\* The maximum ranks after the last copy of an identity is discarded.
Reduced(p, id) ==
  [s \in Suits |-> IF s = id[1] /\ p.maxes[s] >= id[2] THEN id[2] - 1 ELSE p.maxes[s]]

\* The position after a card is played or discarded.
LEMMA CardFields ==
  ASSUME NEW p \in Position, NEW o, NEW draw, NEW a \in {PlayAct(o), TossAct(o)}, Id(p, o) \in Ids
  PROVE  AdvanceGame(p, a, draw) =
           [hands    |-> Drawn(p, o, draw).hands,
            deck     |-> Drawn(p, o, draw).deck,
            stacks   |-> IF Fits(p, a) THEN [p.stacks EXCEPT ![Id(p, o)[1]] = Id(p, o)[2]] ELSE p.stacks,
            discards |-> IF Fits(p, a) THEN p.discards ELSE Discarded(p, Id(p, o)),
            maxes    |-> IF (IF Fits(p, a) THEN p.discards ELSE Discarded(p, Id(p, o)))[Id(p, o)] = Copies[Id(p, o)]
                         THEN Reduced(p, Id(p, o)) ELSE p.maxes,
            tokens   |-> IF a.type = "discard" \/ (Fits(p, a) /\ Id(p, o)[2] = MaxRank)
                         THEN OneMore(p.tokens) ELSE p.tokens,
            strikes  |-> IF a.type = "play" /\ ~Fits(p, a) THEN p.strikes + 1 ELSE p.strikes,
            left     |-> Drawn(p, o, draw).left,
            turns    |-> Drawn(p, o, draw).turns,
            top      |-> Drawn(p, o, draw).top,
            turn     |-> NextPlayer(p.turn),
            rest     |-> IF draw = NoId THEN p.rest ELSE Less(p.rest, draw),
            known    |-> p.known,
            clues    |-> 0]
<1> DEFINE id == Id(p, o)
           d  == Drawn(p, o, draw)
           S  == IF Fits(p, a) THEN [p.stacks EXCEPT ![id[1]] = id[2]] ELSE p.stacks
           D  == IF Fits(p, a) THEN p.discards ELSE Discarded(p, id)
           M  == IF D[id] = Copies[id] THEN Reduced(p, id) ELSE p.maxes
           T  == IF a.type = "discard" \/ (Fits(p, a) /\ id[2] = MaxRank) THEN OneMore(p.tokens) ELSE p.tokens
           K  == IF a.type = "play" /\ ~Fits(p, a) THEN p.strikes + 1 ELSE p.strikes
           R  == IF draw = NoId THEN p.rest ELSE Less(p.rest, draw)
           dh == d.hands
           dd == d.deck
           dl == d.left
           dt == d.turns
           dp == d.top
           ps == p.stacks
           pd == p.discards
           pm == p.maxes
           pt == p.tokens
           pk == p.strikes
           pp == p.turn
           pr == p.rest
           pn == p.known
           pc == p.clues
           h  == [hands |-> dh, deck |-> dd, stacks |-> S, discards |-> D, maxes |-> pm,
                  tokens |-> T, strikes |-> K, left |-> dl, turns |-> dt, top |-> dp,
                  turn |-> pp, rest |-> pr, known |-> pn, clues |-> pc]
<1>1. a.order = o /\ a.type \in {"play", "discard"} /\ a.type # "clue"
  BY DEF PlayAct, TossAct
<1>2. id # NoId /\ Moving(p, a) = id
  BY <1>1, IdFacts DEF Moving
<1>3. /\ Fits(p, a) <=> a.type = "play" /\ Playable(p, id)
  BY <1>1 DEF Fits
<1>4. Moved(p, a, id, draw) = h
  <2>1. d = [hands |-> dh, deck |-> dd, stacks |-> ps, discards |-> pd,
             maxes |-> pm, tokens |-> pt, strikes |-> pk, left |-> dl,
             turns |-> dt, top |-> dp, turn |-> pp, rest |-> pr,
             known |-> pn, clues |-> pc]
    BY DrawnFields
  <2> HIDE DEF d, dh, dd, dl, dt, dp, ps, pd, pm, pt, pk, pp, pr, pn, pc
  <2>2. CASE Fits(p, a)
    <3>1. Moved(p, a, id, draw) =
            [d EXCEPT !.stacks = [p.stacks EXCEPT ![id[1]] = id[2]],
                      !.tokens = IF id[2] = MaxRank THEN OneMore(p.tokens) ELSE p.tokens]
      BY <1>1, <1>3, <2>2 DEF Moved, d
    <3>2. S = [p.stacks EXCEPT ![id[1]] = id[2]] /\ D = pd /\ K = pk
      BY <2>2 DEF pd, pk
    <3>3. T = IF id[2] = MaxRank THEN OneMore(p.tokens) ELSE p.tokens
      BY <1>3, <2>2
    <3> HIDE DEF S, D, T, K, id
    <3>4. QED
      BY <2>1, <3>1, <3>2, <3>3
  <2>3. CASE ~Fits(p, a) /\ a.type = "play"
    <3>1. Moved(p, a, id, draw) = [d EXCEPT !.discards = Discarded(p, id), !.strikes = p.strikes + 1]
      BY <1>1, <1>3, <2>3 DEF Moved, d
    <3>2. D = Discarded(p, id) /\ K = p.strikes + 1 /\ T = pt /\ S = ps
      BY <2>3 DEF pt, ps
    <3> HIDE DEF S, D, T, K, id
    <3>3. QED
      BY <2>1, <3>1, <3>2
  <2>4. CASE ~Fits(p, a) /\ a.type = "discard"
    <3>1. Moved(p, a, id, draw) = [d EXCEPT !.discards = Discarded(p, id), !.tokens = OneMore(p.tokens)]
      BY <1>1, <1>3, <2>4 DEF Moved, d
    <3>2. S = ps /\ D = Discarded(p, id) /\ K = pk /\ T = OneMore(p.tokens)
      BY <2>4 DEF ps, pk
    <3> HIDE DEF S, D, T, K, id
    <3>3. QED
      BY <2>1, <3>1, <3>2
  <2>5. QED
    BY <1>1, <2>2, <2>3, <2>4
<1>5. Handled(p, a, draw) = [h EXCEPT !.maxes = M, !.turn = NextPlayer(p.turn)]
  <2>1. Advance(p, a, draw) = [h EXCEPT !.turn = NextPlayer(p.turn)]
    BY <1>2, <1>4 DEF Advance
  <2> DEFINE g == [h EXCEPT !.turn = NextPlayer(p.turn)]
  <2>2. g.discards = D /\ g.maxes = p.maxes
    OBVIOUS
  <2>3. CASE D[id] = Copies[id]
    <3>1. Lowered(id, g) = [g EXCEPT !.maxes = Reduced(p, id)]
      BY <1>2, <2>2, <2>3 DEF Lowered, Reduced
    <3>2. M = Reduced(p, id)
      BY <2>3
    <3>3. Handled(p, a, draw) = [g EXCEPT !.maxes = M]
      BY <1>2, <2>1, <3>1, <3>2 DEF Handled
    <3>4. QED
      BY <3>3
  <2>4. CASE D[id] # Copies[id]
    <3>1. Lowered(id, g) = g
      BY <2>2, <2>4 DEF Lowered
    <3>2. M = pm
      BY <2>4 DEF pm
    <3>3. Handled(p, a, draw) = g
      BY <1>2, <2>1, <3>1 DEF Handled
    <3> HIDE DEF M, S, D, T, K, dh, dd, dl, dt, dp, ps, pd, pm, pt, pk, pp, pr, pn, pc
    <3>4. [h EXCEPT !.maxes = M] = h
      BY <3>2
    <3>5. QED
      BY <3>3, <3>4
  <2>5. QED
    BY <2>3, <2>4
<1>6. AdvanceGame(p, a, draw) = [Handled(p, a, draw) EXCEPT !.clues = 0, !.rest = R]
  BY <1>1 DEF AdvanceGame
<1> DEFINE n == NextPlayer(p.turn)
<1>7. AdvanceGame(p, a, draw) = [[h EXCEPT !.maxes = M, !.turn = n] EXCEPT !.clues = 0, !.rest = R]
  BY <1>5, <1>6
<1> HIDE DEF S, D, M, T, K, R, n, dh, dd, dl, dt, dp, ps, pd, pm, pt, pk, pp, pr, pn, pc
<1>8. [[h EXCEPT !.maxes = M, !.turn = n] EXCEPT !.clues = 0, !.rest = R] =
        [hands |-> dh, deck |-> dd, stacks |-> S, discards |-> D, maxes |-> M,
         tokens |-> T, strikes |-> K, left |-> dl, turns |-> dt, top |-> dp,
         turn |-> n, rest |-> R, known |-> pn, clues |-> 0]
  <2> DEFINE w(m, t, r, c) ==
               [hands |-> dh, deck |-> dd, stacks |-> S, discards |-> D, maxes |-> m,
                tokens |-> T, strikes |-> K, left |-> dl, turns |-> dt, top |-> dp,
                turn |-> t, rest |-> r, known |-> pn, clues |-> c]
  <2>1. h = w(pm, pp, pr, pc)
    OBVIOUS
  <2>2. [w(pm, pp, pr, pc) EXCEPT !.maxes = M] = w(M, pp, pr, pc)
    OBVIOUS
  <2>3. [w(M, pp, pr, pc) EXCEPT !.turn = n] = w(M, n, pr, pc)
    OBVIOUS
  <2>4. [w(M, n, pr, pc) EXCEPT !.clues = 0] = w(M, n, pr, 0)
    OBVIOUS
  <2>5. [w(M, n, pr, 0) EXCEPT !.rest = R] = w(M, n, R, 0)
    OBVIOUS
  <2> HIDE DEF h, w
  <2>6. [[h EXCEPT !.maxes = M, !.turn = n] EXCEPT !.clues = 0, !.rest = R] = w(M, n, R, 0)
    BY <2>1, <2>2, <2>3, <2>4, <2>5
  <2>7. QED
    BY <2>6 DEF w
<1>9. QED
  BY <1>7, <1>8 DEF id, d, S, D, M, T, K, R, n, dh, dd, dl, dt, dp, pn

\* The position after a clue.
LEMMA ClueFields ==
  ASSUME NEW p \in Position
  PROVE  AdvanceGame(p, ClueAct, NoId) =
           [p EXCEPT !.tokens = p.tokens - 1, !.turns = CountDown(p.turns), !.turn = NextPlayer(p.turn)]
<1>1. Moving(p, ClueAct) = NoId /\ ClueAct.type = "clue"
  BY DEF Moving, ClueAct
<1>2. Advance(p, ClueAct, NoId) =
        [p EXCEPT !.tokens = p.tokens - 1, !.turns = CountDown(p.turns), !.turn = NextPlayer(p.turn)]
  BY <1>1 DEF Advance, Moved, Position
<1>3. Handled(p, ClueAct, NoId) = Advance(p, ClueAct, NoId)
  BY <1>1 DEF Handled, Lowered
<1>4. AdvanceGame(p, ClueAct, NoId) =
        [Advance(p, ClueAct, NoId) EXCEPT !.clues = p.clues, !.rest = p.rest]
  BY <1>1, <1>3 DEF AdvanceGame
<1>5. QED
  BY <1>2, <1>4 DEF Position

-----------------------------------------------------------------------------
(* What a move changes, in sets of cards *)

\* The cards that come in.
DrawnIn(p) == IF p.turns = -1 THEN {p.top + 1} ELSE {}

\* q comes from p: the player to move gave card o away, on its stack (played) or on
\* the discard pile, and drew draw if the deck was not empty.
Carded(p, q, o, played, draw) ==
  /\ p.turns # 0 /\ o \in Hand(p, p.turn) /\ Id(p, o) \in Ids
  /\ played \in BOOLEAN /\ (played => Playable(p, Id(p, o)))
  /\ p.turns = -1 => draw \in Ids /\ p.rest[draw] > 0
  /\ q.turn = NextPlayer(p.turn)
  /\ Hand(q, p.turn) = (Hand(p, p.turn) \ {o}) \cup DrawnIn(p)
  /\ \A i \in Players \ {p.turn} : Hand(q, i) = Hand(p, i)
  /\ \A x \in Orders : Id(q, x) = IF x \in DrawnIn(p) THEN draw ELSE Id(p, x)
  /\ q.top = IF p.turns = -1 THEN p.top + 1 ELSE p.top
  /\ q.left = IF p.turns = -1 THEN p.left - 1 ELSE p.left
  /\ q.turns = IF p.turns # -1 THEN p.turns - 1 ELSE IF p.left = 1 THEN NumPlayers ELSE -1
  /\ \A s \in Suits : q.stacks[s] = IF played /\ s = Id(p, o)[1] THEN p.stacks[s] + 1 ELSE p.stacks[s]
  /\ \A id \in Ids : q.discards[id] = IF ~played /\ id = Id(p, o) THEN p.discards[id] + 1 ELSE p.discards[id]
  /\ \A s \in Suits :
       q.maxes[s] = IF /\ q.discards[Id(p, o)] = Copies[Id(p, o)]
                       /\ s = Id(p, o)[1] /\ p.maxes[s] >= Id(p, o)[2]
                    THEN Id(p, o)[2] - 1 ELSE p.maxes[s]
  /\ \A id \in Ids : q.rest[id] = IF p.turns = -1 /\ id = draw THEN p.rest[id] - 1 ELSE p.rest[id]

\* The types of a position's fields.
LEMMA PositionFacts ==
  ASSUME NEW p \in Position
  PROVE  /\ p.hands \in [Players -> Seq(Orders)] /\ p.deck \in [Orders -> Ids \cup {NoId}]
         /\ p.stacks \in [Suits -> 0 .. MaxRank] /\ p.discards \in [Ids -> Nat]
         /\ p.maxes \in [Suits -> 0 .. MaxRank] /\ p.tokens \in -1 .. MaxClues /\ p.strikes \in Nat
         /\ p.left \in Nat /\ p.turns \in -1 .. NumPlayers /\ p.top \in Orders /\ p.turn \in Players
         /\ p.rest \in [Ids -> Nat] /\ p.known \in SUBSET Orders /\ p.clues \in Nat
BY DEF Position

\* The cards of a hand are orders.
LEMMA HandOrders ==
  ASSUME NEW p \in Position, NEW i \in Players
  PROVE  Hand(p, i) \subseteq Orders
<1>1. p.hands[i] \in Seq(Orders)
  BY PositionFacts
<1>2. QED
  BY <1>1 DEF Hand, ToSet

\* The hands of d are those of p after card o was removed and draw was drawn.
HandsDrawn(p, o, draw, d) ==
  /\ d.hands \in [Players -> Seq(Orders)] /\ d.deck \in [Orders -> Ids \cup {NoId}]
  /\ d.top \in Orders
  /\ \A i \in Players : IsInjective(d.hands[i])
  /\ Hand(d, p.turn) = (Hand(p, p.turn) \ {o}) \cup DrawnIn(p)
  /\ \A i \in Players \ {p.turn} : Hand(d, i) = Hand(p, i)
  /\ \A x \in Orders : Id(d, x) = IF x \in DrawnIn(p) THEN draw ELSE Id(p, x)

\* The removal of a card and the draw.
LEMMA HandFacts ==
  ASSUME NEW p, Proper(p), NEW o \in Hand(p, p.turn), NEW draw \in Ids \cup {NoId},
         p.turns = -1 => draw \in Ids,
         NEW d, d = Drawn(p, o, draw)
  PROVE  HandsDrawn(p, o, draw, d)
<1> DEFINE t == p.turn
           r == RemoveFirst(p.hands[t], o)
<1>1. p \in Position /\ HandsOK(p) /\ DeckOK(p)
  BY DEF Proper
<1>2. /\ p.hands \in [Players -> Seq(Orders)] /\ p.deck \in [Orders -> Ids \cup {NoId}]
      /\ p.left \in Nat /\ p.top \in Orders /\ t \in Players
  BY <1>1, PositionFacts
<1>3. /\ r \in Seq(Orders) /\ IsInjective(r) /\ ToSet(r) = Hand(p, t) \ {o}
  <2>1. p.hands[t] \in Seq(Orders) /\ IsInjective(p.hands[t]) /\ o \in ToSet(p.hands[t])
    BY <1>1, <1>2 DEF HandsOK, Hand
  <2>2. QED
    BY <2>1, FirstRemoved DEF Hand
<1>4. CASE p.turns = -1
  <2> DEFINE c == p.top + 1
  <2>1. c \in Orders /\ p.deck[c] = NoId
    <3>1. p.left > 0 /\ p.top + p.left <= MaxOrder /\ MaxOrder \in Nat
      BY <1>1, <1>4, EndgameAssumption DEF DeckOK
    <3>2. c \in Orders /\ c > p.top
      BY <1>2, <3>1 DEF Orders
    <3>3. QED
      BY <1>1, <3>2 DEF DeckOK
  <2>2. /\ d.hands = [p.hands EXCEPT ![t] = <<c>> \o r]
        /\ d.deck = [p.deck EXCEPT ![c] = draw]
        /\ d.top = c
    <3>1. p \in Position /\ p.turns = -1 /\ p.deck[p.top + 1] = NoId
      BY <1>1, <1>4, <2>1
    <3> HIDE DEF Id
    <3>2. QED
      BY <3>1 DEF Drawn, Position
  <2>3. c \notin ToSet(r)
    <3>1. \A x \in Hand(p, t) : x <= p.top
      BY <1>1, <1>2 DEF HandsOK
    <3>2. ~(c <= p.top)
      BY <1>2 DEF Orders
    <3>3. QED
      BY <1>3, <3>1, <3>2
  <2> HIDE DEF c, r, t
  <2>4. <<c>> \o r \in Seq(Orders) /\ IsInjective(<<c>> \o r) /\ ToSet(<<c>> \o r) = ToSet(r) \cup {c}
    BY <1>3, <2>1, <2>3, FrontDrawn
  <2>5. /\ d.hands \in [Players -> Seq(Orders)] /\ d.hands[t] = <<c>> \o r
        /\ \A i \in Players \ {t} : d.hands[i] = p.hands[i]
    BY <1>2, <2>2, <2>4
  <2>6. \A i \in Players : IsInjective(d.hands[i])
    <3>1. \A i \in Players : IsInjective(p.hands[i])
      BY <1>1 DEF HandsOK
    <3>2. QED
      BY <2>4, <2>5, <3>1
  <2>7. DrawnIn(p) = {c}
    BY <1>4 DEF DrawnIn, c
  <2>8. /\ Hand(d, t) = (Hand(p, t) \ {o}) \cup DrawnIn(p)
        /\ \A i \in Players \ {t} : Hand(d, i) = Hand(p, i)
    BY <1>3, <2>4, <2>5, <2>7 DEF Hand
  <2>9. d.deck \in [Orders -> Ids \cup {NoId}] /\ \A x \in Orders : d.deck[x] = IF x = c THEN draw ELSE p.deck[x]
    BY <1>2, <2>2
  <2>10. QED
    BY <2>1, <2>2, <2>5, <2>6, <2>7, <2>8, <2>9 DEF HandsDrawn, Id, t
<1>5. CASE p.turns # -1
  <2>1. /\ d.hands = [p.hands EXCEPT ![t] = r] /\ d.deck = p.deck /\ d.top = p.top
    BY <1>1, <1>5 DEF Drawn, Position
  <2> HIDE DEF r, t
  <2>2. /\ d.hands \in [Players -> Seq(Orders)] /\ d.hands[t] = r
        /\ \A i \in Players \ {t} : d.hands[i] = p.hands[i]
    BY <1>2, <1>3, <2>1
  <2>3. \A i \in Players : IsInjective(d.hands[i])
    <3>1. \A i \in Players : IsInjective(p.hands[i])
      BY <1>1 DEF HandsOK
    <3>2. QED
      BY <1>3, <2>2, <3>1
  <2>4. DrawnIn(p) = {}
    BY <1>5 DEF DrawnIn
  <2>5. QED
    BY <1>2, <1>3, <2>1, <2>2, <2>3, <2>4 DEF HandsDrawn, Hand, Id, t
<1>6. QED
  BY <1>4, <1>5

\* A card that is played or discarded, and the position it leaves.
LEMMA CardMove ==
  ASSUME NEW p, Proper(p), ~Ended(p), NEW o \in Hand(p, p.turn), NEW a \in {PlayAct(o), TossAct(o)},
         NEW draw, draw \in IF p.left = 0 THEN {NoId} ELSE Unseen(p),
         NEW q, q = AdvanceGame(p, a, draw)
  PROVE  /\ Carded(p, q, o, Fits(p, a), draw)
         /\ q \in Position
         /\ \A i \in Players : IsInjective(q.hands[i])
<1> DEFINE id == Id(p, o)
           d == Drawn(p, o, draw)
           played == Fits(p, a)
<1>1. p \in Position /\ HandsOK(p) /\ DeckOK(p)
  BY DEF Proper
<1>2. /\ p.stacks \in [Suits -> 0 .. MaxRank] /\ p.discards \in [Ids -> Nat]
      /\ p.maxes \in [Suits -> 0 .. MaxRank] /\ p.tokens \in -1 .. MaxClues /\ p.strikes \in Nat
      /\ p.left \in Nat /\ p.turns \in -1 .. NumPlayers /\ p.top \in Orders /\ p.turn \in Players
      /\ p.rest \in [Ids -> Nat] /\ p.known \in SUBSET Orders
  BY <1>1, PositionFacts
<1>3. id \in Ids /\ id[1] \in Suits /\ id[2] \in 1 .. MaxRank
  BY <1>1, <1>2, IdFacts DEF HandsOK
<1>4. /\ p.turns # 0
      /\ p.turns = -1 => p.left > 0 /\ draw \in Ids /\ p.rest[draw] > 0
      /\ p.turns # -1 => p.left = 0 /\ draw = NoId
  BY <1>1, <1>2 DEF Ended, DeckOK, Unseen
<1>5. /\ played \in BOOLEAN /\ a.order = o /\ a.type \in {"play", "discard"}
      /\ played => Playable(p, id)
  BY DEF Fits, PlayAct, TossAct
<1>6. q = [hands    |-> d.hands,
           deck     |-> d.deck,
           stacks   |-> IF played THEN [p.stacks EXCEPT ![id[1]] = id[2]] ELSE p.stacks,
           discards |-> IF played THEN p.discards ELSE Discarded(p, id),
           maxes    |-> IF (IF played THEN p.discards ELSE Discarded(p, id))[id] = Copies[id]
                        THEN Reduced(p, id) ELSE p.maxes,
           tokens   |-> IF a.type = "discard" \/ (played /\ id[2] = MaxRank)
                        THEN OneMore(p.tokens) ELSE p.tokens,
           strikes  |-> IF a.type = "play" /\ ~played THEN p.strikes + 1 ELSE p.strikes,
           left     |-> d.left,
           turns    |-> d.turns,
           top      |-> d.top,
           turn     |-> NextPlayer(p.turn),
           rest     |-> IF draw = NoId THEN p.rest ELSE Less(p.rest, draw),
           known    |-> p.known,
           clues    |-> 0]
  BY <1>1, <1>3, CardFields
<1>7. /\ d.hands \in [Players -> Seq(Orders)] /\ d.deck \in [Orders -> Ids \cup {NoId}]
      /\ d.top \in Orders
      /\ \A i \in Players : IsInjective(d.hands[i])
      /\ Hand(d, p.turn) = (Hand(p, p.turn) \ {o}) \cup DrawnIn(p)
      /\ \A i \in Players \ {p.turn} : Hand(d, i) = Hand(p, i)
      /\ \A x \in Orders : Id(d, x) = IF x \in DrawnIn(p) THEN draw ELSE Id(p, x)
  <2>1. draw \in Ids \cup {NoId} /\ (p.turns = -1 => draw \in Ids) /\ d = Drawn(p, o, draw)
    BY <1>4
  <2> HIDE DEF d, id, played
  <2>2. HandsDrawn(p, o, draw, d)
    BY <2>1, HandFacts
  <2>3. QED
    BY <2>2 DEF HandsDrawn
<1>8. /\ d.top = IF p.turns = -1 THEN p.top + 1 ELSE p.top
      /\ d.left = IF p.turns = -1 THEN p.left - 1 ELSE p.left
      /\ d.turns = IF p.turns # -1 THEN p.turns - 1 ELSE IF p.left = 1 THEN NumPlayers ELSE -1
  BY <1>1 DEF Drawn, Position
<1> HIDE DEF d, id, played
<1>9. /\ q.hands = d.hands /\ q.deck = d.deck /\ q.top = d.top /\ q.left = d.left /\ q.turns = d.turns
      /\ q.turn = NextPlayer(p.turn)
      /\ q.stacks = IF played THEN [p.stacks EXCEPT ![id[1]] = id[2]] ELSE p.stacks
      /\ q.discards = IF played THEN p.discards ELSE Discarded(p, id)
      /\ q.maxes = IF q.discards[id] = Copies[id] THEN Reduced(p, id) ELSE p.maxes
      /\ q.rest = IF draw = NoId THEN p.rest ELSE Less(p.rest, draw)
  BY <1>6
<1>10. \A s \in Suits : q.stacks[s] = IF played /\ s = id[1] THEN p.stacks[s] + 1 ELSE p.stacks[s]
  <2>1. CASE played
    <3>1. id[2] = p.stacks[id[1]] + 1
      BY <1>5, <2>1 DEF Playable
    <3>2. QED
      BY <1>2, <1>3, <1>9, <2>1, <3>1
  <2>2. CASE ~played
    BY <1>9, <2>2
  <2>3. QED
    BY <1>5, <2>1, <2>2
<1>11. q.stacks \in [Suits -> 0 .. MaxRank]
  BY <1>2, <1>3, <1>9, EndgameAssumption
<1>12. /\ q.discards \in [Ids -> Nat]
       /\ \A e \in Ids : q.discards[e] = IF ~played /\ e = id THEN p.discards[e] + 1 ELSE p.discards[e]
  BY <1>2, <1>5, <1>9 DEF Discarded
<1>13. /\ q.maxes \in [Suits -> 0 .. MaxRank]
       /\ \A s \in Suits :
            q.maxes[s] = IF q.discards[id] = Copies[id] /\ s = id[1] /\ p.maxes[s] >= id[2]
                         THEN id[2] - 1 ELSE p.maxes[s]
  <2>1. CASE q.discards[id] = Copies[id]
    <3>1. q.maxes = [s \in Suits |-> IF s = id[1] /\ p.maxes[s] >= id[2] THEN id[2] - 1 ELSE p.maxes[s]]
      BY <1>9, <2>1 DEF Reduced
    <3>2. id[2] - 1 \in 0 .. MaxRank
      BY <1>3, EndgameAssumption
    <3>3. QED
      BY <1>2, <2>1, <3>1, <3>2
  <2>2. CASE q.discards[id] # Copies[id]
    BY <1>2, <1>9, <2>2
  <2>3. QED
    BY <2>1, <2>2
<1>14. /\ q.rest \in [Ids -> Nat]
       /\ \A e \in Ids : q.rest[e] = IF p.turns = -1 /\ e = draw THEN p.rest[e] - 1 ELSE p.rest[e]
  <2>1. CASE p.turns = -1
    <3>1. draw # NoId
      BY <1>4, <2>1, NoIdOutside
    <3>2. q.rest = [e \in Ids |-> IF e = draw THEN p.rest[e] - 1 ELSE p.rest[e]]
      BY <1>9, <3>1 DEF Less
    <3>3. QED
      BY <1>2, <1>4, <2>1, <3>2
  <2>2. CASE p.turns # -1
    BY <1>2, <1>4, <1>9, <2>2
  <2>3. QED
    BY <2>1, <2>2
<1>15. /\ q.hands \in [Players -> Seq(Orders)] /\ q.deck \in [Orders -> Ids \cup {NoId}]
       /\ q.top \in Orders /\ q.left \in Nat /\ q.turns \in -1 .. NumPlayers /\ q.turn \in Players
  <2>1. q.left \in Nat /\ q.turns \in -1 .. NumPlayers
    BY <1>2, <1>4, <1>8, <1>9, EndgameAssumption
  <2>2. QED
    BY <1>2, <1>7, <1>9, <2>1, NextIsPlayer
<1>16. /\ q.tokens \in -1 .. MaxClues /\ q.strikes \in Nat /\ q.known \in SUBSET Orders /\ q.clues \in Nat
  <2>1. OneMore(p.tokens) \in -1 .. MaxClues
    BY <1>2, EndgameAssumption DEF OneMore
  <2>2. /\ q.tokens = IF a.type = "discard" \/ (played /\ id[2] = MaxRank) THEN OneMore(p.tokens) ELSE p.tokens
        /\ q.strikes = IF a.type = "play" /\ ~played THEN p.strikes + 1 ELSE p.strikes
        /\ q.known = p.known /\ q.clues = 0
    BY <1>6
  <2>3. QED
    BY <1>2, <2>1, <2>2
<1>17. q \in Position
  <2>1. q = [hands |-> q.hands, deck |-> q.deck, stacks |-> q.stacks, discards |-> q.discards,
             maxes |-> q.maxes, tokens |-> q.tokens, strikes |-> q.strikes, left |-> q.left,
             turns |-> q.turns, top |-> q.top, turn |-> q.turn, rest |-> q.rest, known |-> q.known,
             clues |-> q.clues]
    BY <1>6
  <2>2. QED
    BY <1>11, <1>12, <1>13, <1>14, <1>15, <1>16, <2>1 DEF Position
<1>18. /\ Hand(q, p.turn) = (Hand(p, p.turn) \ {o}) \cup DrawnIn(p)
       /\ \A i \in Players \ {p.turn} : Hand(q, i) = Hand(p, i)
       /\ \A x \in Orders : Id(q, x) = IF x \in DrawnIn(p) THEN draw ELSE Id(p, x)
  BY <1>7, <1>9 DEF Hand, Id
<1>19. Carded(p, q, o, played, draw)
  BY <1>3, <1>4, <1>5, <1>8, <1>9, <1>10, <1>12, <1>13, <1>14, <1>18 DEF Carded, id
<1>20. QED
  BY <1>7, <1>9, <1>17, <1>19 DEF played

\* A clue changes neither cards nor stacks.
Clued(p, q) ==
  /\ p.turns # 0 /\ q.turn = NextPlayer(p.turn)
  /\ q.turns = IF p.turns = -1 THEN -1 ELSE p.turns - 1
  /\ q.hands = p.hands /\ q.deck = p.deck /\ q.stacks = p.stacks /\ q.discards = p.discards
  /\ q.maxes = p.maxes /\ q.left = p.left /\ q.top = p.top /\ q.rest = p.rest

\* A clue, and the position it leaves.
LEMMA ClueMove ==
  ASSUME NEW p, p \in Position, ~Ended(p), p.tokens > 0, NEW q, q = AdvanceGame(p, ClueAct, NoId)
  PROVE  Clued(p, q) /\ q \in Position
<1>1. q = [p EXCEPT !.tokens = p.tokens - 1, !.turns = CountDown(p.turns), !.turn = NextPlayer(p.turn)]
  BY ClueFields
<1>2. /\ p.tokens - 1 \in -1 .. MaxClues /\ NextPlayer(p.turn) \in Players
      /\ p.turns # 0 /\ CountDown(p.turns) = (IF p.turns = -1 THEN -1 ELSE p.turns - 1)
      /\ CountDown(p.turns) \in -1 .. NumPlayers
  BY PositionFacts, NextIsPlayer, EndgameAssumption DEF CountDown, Ended
<1>3. Clued(p, q)
  BY <1>1, <1>2 DEF Clued, Position
<1>4. q \in Position
  BY <1>1, <1>2 DEF Position
<1>5. QED
  BY <1>3, <1>4

-----------------------------------------------------------------------------
(* Positions stay those of a game *)

\* The copies of an identity in the hands are finitely many.
LEMMA InHandFinite ==
  ASSUME NEW p \in Position, NEW id
  PROVE  /\ InHand(p, id) \subseteq Orders /\ IsFiniteSet(InHand(p, id))
         /\ Cardinality(InHand(p, id)) \in Nat
         /\ InHand(p, id) # {} => Cardinality(InHand(p, id)) > 0
<1>1. InHand(p, id) \subseteq Orders
  BY HandOrders DEF InHand
<1>2. IsFiniteSet(Orders)
  BY EndgameAssumption, FS_Interval DEF Orders
<1>3. IsFiniteSet(InHand(p, id)) /\ Cardinality(InHand(p, id)) \in Nat
  BY <1>1, <1>2, FS_Subset, FS_CardinalityType
<1>4. InHand(p, id) # {} => Cardinality(InHand(p, id)) # 0
  BY <1>3, FS_EmptySet
<1>5. QED
  BY <1>1, <1>3, <1>4

\* The card to be drawn is in no hand.
LEMMA NewCard ==
  ASSUME NEW p, Proper(p), p.turns = -1
  PROVE  p.top + 1 \in Orders /\ \A i \in Players : p.top + 1 \notin Hand(p, i)
<1>1. p \in Position /\ HandsOK(p) /\ DeckOK(p)
  BY DEF Proper
<1>2. p.left \in Nat /\ p.top \in Nat /\ p.top + p.left <= MaxOrder /\ p.left > 0 /\ MaxOrder \in Nat
  BY <1>1, PositionFacts, EndgameAssumption DEF DeckOK, Orders
<1>3. p.top + 1 \in Orders /\ ~(p.top + 1 <= p.top)
  BY <1>2 DEF Orders
<1>4. QED
  BY <1>1, <1>3 DEF HandsOK

\* One more copy of id: 1 or 0.
One0(test) == IF test THEN 1 ELSE 0

\* The copies in the hands after a card was exchanged.
LEMMA HeldAfter ==
  ASSUME NEW p, Proper(p), NEW q, NEW o, NEW played, NEW draw, Carded(p, q, o, played, draw), NEW id \in Ids
  PROVE  /\ InHand(q, id) = (InHand(p, id) \ {o}) \cup {x \in DrawnIn(p) : draw = id}
         /\ Cardinality(InHand(q, id)) =
              Cardinality(InHand(p, id)) - One0(id = Id(p, o)) + One0(p.turns = -1 /\ id = draw)
         /\ id = Id(p, o) => Cardinality(InHand(p, id)) > 0
<1> DEFINE t == p.turn
           H(r) == UNION {Hand(r, i) : i \in Players}
           N == {x \in DrawnIn(p) : draw = id}
<1>1. p \in Position /\ HandsOK(p) /\ t \in Players
  BY PositionFacts DEF Proper
<1>2. /\ o \in Hand(p, t) /\ Hand(q, t) = (Hand(p, t) \ {o}) \cup DrawnIn(p)
      /\ \A i \in Players \ {t} : Hand(q, i) = Hand(p, i)
      /\ \A x \in Orders : Id(q, x) = IF x \in DrawnIn(p) THEN draw ELSE Id(p, x)
  BY DEF Carded
<1>3. \A i \in Players \ {t} : o \notin Hand(p, i)
  BY <1>1, <1>2 DEF HandsOK
<1>4. DrawnIn(p) \subseteq Orders /\ \A x \in DrawnIn(p) : x \notin H(p)
  BY NewCard DEF DrawnIn
<1>5. H(q) = (H(p) \ {o}) \cup DrawnIn(p)
  <2>1. H(q) = Hand(q, t) \cup UNION {Hand(q, i) : i \in Players \ {t}}
    BY <1>1
  <2>2. H(p) = Hand(p, t) \cup UNION {Hand(p, i) : i \in Players \ {t}}
    BY <1>1
  <2>3. UNION {Hand(q, i) : i \in Players \ {t}} = UNION {Hand(p, i) : i \in Players \ {t}}
    BY <1>2
  <2>4. o \notin UNION {Hand(p, i) : i \in Players \ {t}}
    BY <1>3
  <2> HIDE DEF H
  <2>5. QED
    BY <1>2, <2>1, <2>2, <2>3, <2>4
<1>6. H(p) \subseteq Orders /\ o \in H(p)
  BY <1>1, <1>2, HandOrders
<1>7. InHand(q, id) = {x \in H(q) : Id(q, x) = id} /\ InHand(p, id) = {x \in H(p) : Id(p, x) = id}
  BY DEF InHand
<1> HIDE DEF H, t
<1>8. InHand(q, id) = (InHand(p, id) \ {o}) \cup N
  <2>1. ASSUME NEW x \in H(q)
        PROVE  Id(q, x) = id <=> (x \in InHand(p, id) \ {o}) \/ x \in N
    <3>1. CASE x \in DrawnIn(p)
      BY <1>2, <1>4, <1>7, <3>1
    <3>2. CASE x \notin DrawnIn(p)
      BY <1>2, <1>5, <1>6, <1>7, <3>2
    <3>3. QED
      BY <3>1, <3>2
  <2>2. InHand(p, id) \ {o} \subseteq H(q) /\ N \subseteq H(q)
    BY <1>5, <1>7
  <2>3. QED
    BY <1>7, <2>1, <2>2
<1>9. /\ IsFiniteSet(InHand(p, id)) /\ Cardinality(InHand(p, id)) \in Nat
      /\ InHand(p, id) # {} => Cardinality(InHand(p, id)) > 0
  BY <1>1, InHandFinite
<1> DEFINE R == InHand(p, id) \ {o}
<1>10. /\ IsFiniteSet(R) /\ Cardinality(R) = Cardinality(InHand(p, id)) - One0(id = Id(p, o))
       /\ Cardinality(R) \in Nat
       /\ id = Id(p, o) => Cardinality(InHand(p, id)) > 0
  <2>1. CASE id = Id(p, o)
    <3>1. o \in InHand(p, id)
      BY <1>6, <1>7, <2>1
    <3>2. IsFiniteSet(R) /\ Cardinality(R) = Cardinality(InHand(p, id)) - 1
      BY <1>9, <3>1, FS_RemoveElement
    <3>3. QED
      BY <1>9, <2>1, <3>1, <3>2 DEF One0
  <2>2. CASE id # Id(p, o)
    <3>1. R = InHand(p, id)
      BY <1>7, <2>2
    <3>2. QED
      BY <1>9, <2>2, <3>1 DEF One0
  <2>3. QED
    BY <2>1, <2>2
<1>11. Cardinality(R \cup N) = Cardinality(R) + One0(p.turns = -1 /\ id = draw)
  <2>1. CASE p.turns = -1 /\ id = draw
    <3>1. N = {p.top + 1} /\ p.top + 1 \notin R
      BY <1>4, <1>7, <2>1 DEF DrawnIn
    <3>2. Cardinality(R \cup {p.top + 1}) = Cardinality(R) + 1
      BY <1>10, <3>1, FS_AddElement
    <3>3. QED
      BY <2>1, <3>1, <3>2 DEF One0
  <2>2. CASE ~(p.turns = -1 /\ id = draw)
    <3>1. N = {}
      BY <2>2 DEF DrawnIn
    <3>2. R \cup N = R /\ Cardinality(R) \in Nat
      BY <1>10, <3>1, FS_CardinalityType
    <3> HIDE DEF R, N
    <3>3. QED
      BY <2>2, <3>2 DEF One0
  <2>3. QED
    BY <2>1, <2>2
<1>12. QED
  BY <1>8, <1>9, <1>10, <1>11

\* The card that left a hand is counted.
LEMMA BaseAfter ==
  ASSUME NEW p, Proper(p), NEW q, NEW o, NEW played, NEW draw, Carded(p, q, o, played, draw), NEW id \in Ids
  PROVE  /\ Base(p, id) \in Nat
         /\ Base(q, id) = Base(p, id) + One0(id = Id(p, o))
<1>1. /\ p.stacks \in [Suits -> 0 .. MaxRank] /\ p.discards \in [Ids -> Nat]
  BY PositionFacts DEF Proper
<1>2. /\ id[1] \in Suits /\ id[2] \in 1 .. MaxRank /\ id = <<id[1], id[2]>>
      /\ Id(p, o) \in Ids /\ Id(p, o) = <<Id(p, o)[1], Id(p, o)[2]>>
      /\ Id(p, o)[1] \in Suits /\ Id(p, o)[2] \in 1 .. MaxRank
  BY IdFacts DEF Carded
<1>3. p.stacks[id[1]] \in Nat /\ p.discards[id] \in Nat /\ id[2] \in Nat /\ MaxRank \in Nat
  BY <1>1, <1>2, EndgameAssumption
<1>4. /\ q.stacks[id[1]] = IF played /\ id[1] = Id(p, o)[1] THEN p.stacks[id[1]] + 1 ELSE p.stacks[id[1]]
      /\ q.discards[id] = IF ~played /\ id = Id(p, o) THEN p.discards[id] + 1 ELSE p.discards[id]
      /\ played \in BOOLEAN
      /\ played => Id(p, o)[2] = p.stacks[Id(p, o)[1]] + 1
  BY <1>2 DEF Carded, Playable
<1>5. CASE played
  <2>1. CASE id = Id(p, o)
    BY <1>3, <1>4, <1>5, <2>1 DEF Base, One0
  <2>2. CASE id # Id(p, o)
    <3>1. id[1] = Id(p, o)[1] => id[2] # p.stacks[id[1]] + 1
      BY <1>2, <1>4, <1>5, <2>2
    <3>2. QED
      BY <1>3, <1>4, <1>5, <2>2, <3>1 DEF Base, One0
  <2>3. QED
    BY <2>1, <2>2
<1>6. CASE ~played
  BY <1>3, <1>4, <1>6 DEF Base, One0
<1>7. QED
  BY <1>4, <1>5, <1>6

\* No identity gets more cards than it has copies.
LEMMA CopiesAfter ==
  ASSUME NEW p, Proper(p), NEW q \in Position, NEW o, NEW played, NEW draw, Carded(p, q, o, played, draw)
  PROVE  CopiesOK(q)
<1> SUFFICES ASSUME NEW id \in Ids
             PROVE  Base(q, id) + Cardinality(InHand(q, id)) + q.rest[id] <= Copies[id]
  BY DEF CopiesOK
<1>1. Base(p, id) + Cardinality(InHand(p, id)) + p.rest[id] <= Copies[id]
  BY DEF Proper, CopiesOK
<1>2. Base(p, id) \in Nat /\ Base(q, id) = Base(p, id) + One0(id = Id(p, o))
  BY BaseAfter
<1>3. Cardinality(InHand(q, id)) =
        Cardinality(InHand(p, id)) - One0(id = Id(p, o)) + One0(p.turns = -1 /\ id = draw)
  BY HeldAfter
<1>4. q.rest[id] = p.rest[id] - One0(p.turns = -1 /\ id = draw)
  <2>1. p.rest[id] \in Nat
    BY PositionFacts DEF Proper
  <2>2. QED
    BY <2>1 DEF Carded, One0
<1>5. /\ Cardinality(InHand(p, id)) \in Nat /\ p.rest[id] \in Nat /\ Copies[id] \in Nat
      /\ One0(id = Id(p, o)) \in Nat /\ One0(p.turns = -1 /\ id = draw) \in Nat
  BY InHandFinite, PositionFacts, CopiesAssumption DEF Proper, One0
<1>6. QED
  BY <1>1, <1>2, <1>3, <1>4, <1>5

\* The cards of the hands stay apart and known.
LEMMA HandsAfter ==
  ASSUME NEW p, Proper(p), NEW q \in Position, NEW o, NEW played, NEW draw, Carded(p, q, o, played, draw),
         \A i \in Players : IsInjective(q.hands[i])
  PROVE  HandsOK(q)
<1> DEFINE t == p.turn
<1>1. p \in Position /\ HandsOK(p) /\ t \in Players /\ p.top \in Nat
  BY PositionFacts, EndgameAssumption DEF Proper, Orders
<1>2. /\ Hand(q, t) = (Hand(p, t) \ {o}) \cup DrawnIn(p)
      /\ \A i \in Players \ {t} : Hand(q, i) = Hand(p, i)
      /\ \A x \in Orders : Id(q, x) = IF x \in DrawnIn(p) THEN draw ELSE Id(p, x)
      /\ q.top = IF p.turns = -1 THEN p.top + 1 ELSE p.top
      /\ p.turns = -1 => draw \in Ids
  BY DEF Carded
<1>3. DrawnIn(p) \subseteq Orders /\ \A x \in DrawnIn(p) : \A i \in Players : x \notin Hand(p, i)
  BY NewCard DEF DrawnIn
<1>4. \A i \in Players : Hand(q, i) \subseteq Hand(p, i) \cup DrawnIn(p)
  BY <1>2
<1> HIDE DEF t
<1>5. ASSUME NEW i \in Players, NEW j \in Players, i # j
      PROVE  Hand(q, i) \cap Hand(q, j) = {}
  <2>1. Hand(p, i) \cap Hand(p, j) = {}
    BY <1>1, <1>5 DEF HandsOK
  <2>2. CASE i # t /\ j # t
    BY <1>2, <2>1, <2>2
  <2>3. CASE i = t /\ j # t
    BY <1>2, <1>3, <2>1, <2>3
  <2>4. CASE i # t /\ j = t
    BY <1>2, <1>3, <2>1, <2>4
  <2>5. QED
    BY <1>5, <2>2, <2>3, <2>4
<1>6. ASSUME NEW i \in Players, NEW x \in Hand(q, i)
      PROVE  x <= q.top /\ Id(q, x) \in Ids
  <2>1. CASE x \in DrawnIn(p)
    <3>1. p.turns = -1 /\ x = p.top + 1
      BY <2>1 DEF DrawnIn
    <3>2. QED
      BY <1>1, <1>2, <1>3, <2>1, <3>1
  <2>2. CASE x \notin DrawnIn(p)
    <3>1. x \in Hand(p, i) /\ x \in Orders
      BY <1>1, <1>4, <2>2, HandOrders
    <3>2. x <= p.top /\ Id(p, x) \in Ids /\ x \in Nat
      BY <1>1, <3>1 DEF HandsOK, Orders
    <3>3. QED
      BY <1>1, <1>2, <2>2, <3>1, <3>2
  <2>3. QED
    BY <2>1, <2>2
<1>7. QED
  BY <1>5, <1>6 DEF HandsOK

\* The deck and the last turns stay in step.
LEMMA DeckAfter ==
  ASSUME NEW p, Proper(p), NEW q \in Position, NEW o, NEW played, NEW draw, Carded(p, q, o, played, draw)
  PROVE  DeckOK(q)
<1>1. /\ p \in Position /\ DeckOK(p) /\ p.left \in Nat /\ p.turns \in -1 .. NumPlayers /\ p.top \in Nat
      /\ NumPlayers \in Nat /\ NumPlayers > 0
  BY PositionFacts, EndgameAssumption DEF Proper, Orders
<1>2. /\ q.top = IF p.turns = -1 THEN p.top + 1 ELSE p.top
      /\ q.left = IF p.turns = -1 THEN p.left - 1 ELSE p.left
      /\ q.turns = IF p.turns # -1 THEN p.turns - 1 ELSE IF p.left = 1 THEN NumPlayers ELSE -1
      /\ p.turns # 0
      /\ \A x \in Orders : Id(q, x) = IF x \in DrawnIn(p) THEN draw ELSE Id(p, x)
  BY DEF Carded
<1>3. ASSUME NEW x \in Orders, x > q.top
      PROVE  q.deck[x] = NoId
  <2>1. x \in Nat /\ x > p.top /\ x \notin DrawnIn(p)
    BY <1>1, <1>2, <1>3 DEF DrawnIn, Orders
  <2>2. QED
    BY <1>1, <1>2, <2>1 DEF DeckOK, Id
<1>4. q.top + q.left <= MaxOrder /\ (q.turns = -1 <=> q.left > 0)
  <2>1. p.top + p.left <= MaxOrder /\ (p.turns = -1 <=> p.left > 0) /\ MaxOrder \in Nat
    BY <1>1, EndgameAssumption DEF DeckOK
  <2>2. QED
    BY <1>1, <1>2, <2>1
<1>5. QED
  BY <1>3, <1>4 DEF DeckOK

\* A card that fits its stack is within the maximum rank, and one of its copies is left.
LEMMA FitsWithin ==
  ASSUME NEW p, Proper(p), NEW q \in Position, NEW o, NEW played, NEW draw, Carded(p, q, o, played, draw)
  PROVE  /\ Playable(p, Id(p, o)) => /\ p.discards[Id(p, o)] < Copies[Id(p, o)]
                                     /\ Id(p, o)[2] <= p.maxes[Id(p, o)[1]]
         /\ q.discards[Id(p, o)] = Copies[Id(p, o)] =>
              /\ ~played
              /\ p.stacks[Id(p, o)[1]] < Id(p, o)[2]
<1> DEFINE id == Id(p, o)
<1>1. /\ p \in Position /\ p.discards \in [Ids -> Nat] /\ p.rest \in [Ids -> Nat]
      /\ p.stacks \in [Suits -> 0 .. MaxRank] /\ p.maxes \in [Suits -> 0 .. MaxRank]
  BY PositionFacts DEF Proper
<1>2. id \in Ids /\ id[1] \in Suits /\ id[2] \in 1 .. MaxRank /\ id = <<id[1], id[2]>>
  BY IdFacts DEF Carded
<1>3. Base(p, id) + Cardinality(InHand(p, id)) + p.rest[id] <= Copies[id]
  BY <1>2 DEF Proper, CopiesOK
<1>4. Cardinality(InHand(p, id)) > 0 /\ Cardinality(InHand(p, id)) \in Nat
  BY <1>1, <1>2, HeldAfter, InHandFinite
<1>5. Base(p, id) \in Nat /\ Copies[id] \in Nat /\ p.rest[id] \in Nat
  BY <1>1, <1>2, BaseAfter, CopiesAssumption
<1>6. Base(p, id) < Copies[id]
  BY <1>3, <1>4, <1>5
<1>7. p.discards[id] < Copies[id]
  BY <1>1, <1>2, <1>5, <1>6 DEF Base
<1>8. ASSUME Playable(p, id) PROVE id[2] <= p.maxes[id[1]]
  <2> DEFINE m == p.maxes[id[1]]
  <2> SUFFICES ASSUME id[2] > m PROVE FALSE
    BY <1>1, <1>2
  <2>1. id[2] = p.stacks[id[1]] + 1
    BY <1>8 DEF Playable
  <2>2. p.stacks[id[1]] <= m /\ (m < MaxRank => p.discards[<<id[1], m + 1>>] >= Copies[<<id[1], m + 1>>])
    BY <1>2 DEF Proper, MaxesOK
  <2>3. m = p.stacks[id[1]] /\ m < MaxRank
    BY <1>1, <1>2, <2>1, <2>2, EndgameAssumption
  <2>4. <<id[1], m + 1>> = id
    BY <1>2, <2>1, <2>3
  <2>5. QED
    BY <1>1, <1>2, <1>5, <1>7, <2>2, <2>3, <2>4
<1>9. ASSUME q.discards[id] = Copies[id]
      PROVE  ~played /\ p.stacks[id[1]] < id[2]
  <2>1. ~played
    BY <1>1, <1>2, <1>5, <1>7, <1>9 DEF Carded
  <2>2. q.discards[id] = p.discards[id] + 1
    BY <1>2, <2>1 DEF Carded
  <2>3. QED
    BY <1>1, <1>2, <1>5, <1>6, <1>9, <2>1, <2>2 DEF Base
<1>10. QED
  BY <1>7, <1>8, <1>9

\* The maximum ranks stay what the discard pile leaves, and never rise.
LEMMA MaxesAfter ==
  ASSUME NEW p, Proper(p), NEW q \in Position, NEW o, NEW played, NEW draw, Carded(p, q, o, played, draw)
  PROVE  MaxesOK(q) /\ \A s \in Suits : q.maxes[s] <= p.maxes[s]
<1> DEFINE id == Id(p, o)
           gone == q.discards[id] = Copies[id]
<1>1. /\ p \in Position /\ p.discards \in [Ids -> Nat] /\ q.discards \in [Ids -> Nat]
      /\ p.stacks \in [Suits -> 0 .. MaxRank] /\ p.maxes \in [Suits -> 0 .. MaxRank]
      /\ Copies \in [Ids -> Nat] /\ MaxRank \in Nat
  BY PositionFacts, CopiesAssumption, EndgameAssumption DEF Proper
<1>2. id \in Ids /\ id[1] \in Suits /\ id[2] \in 1 .. MaxRank /\ id = <<id[1], id[2]>>
  BY IdFacts DEF Carded
<1>3. /\ Playable(p, id) => id[2] <= p.maxes[id[1]]
      /\ gone => ~played /\ p.stacks[id[1]] < id[2]
  BY FitsWithin
<1>4. /\ played \in BOOLEAN /\ (played => Playable(p, id))
      /\ \A s \in Suits : q.stacks[s] = IF played /\ s = id[1] THEN p.stacks[s] + 1 ELSE p.stacks[s]
      /\ \A e \in Ids : q.discards[e] = IF ~played /\ e = id THEN p.discards[e] + 1 ELSE p.discards[e]
      /\ \A s \in Suits : q.maxes[s] = IF gone /\ s = id[1] /\ p.maxes[s] >= id[2] THEN id[2] - 1 ELSE p.maxes[s]
  BY DEF Carded
<1>5. played => id[2] = p.stacks[id[1]] + 1
  BY <1>4 DEF Playable
<1>6. \A s \in Suits : /\ p.stacks[s] <= p.maxes[s]
                       /\ p.maxes[s] < MaxRank => p.discards[<<s, p.maxes[s] + 1>>] >= Copies[<<s, p.maxes[s] + 1>>]
  BY DEF Proper, MaxesOK
<1> HIDE DEF id, gone
<1>7. ASSUME NEW s \in Suits
      PROVE  /\ q.stacks[s] <= q.maxes[s] /\ q.maxes[s] <= p.maxes[s]
             /\ q.maxes[s] < MaxRank => q.discards[<<s, q.maxes[s] + 1>>] >= Copies[<<s, q.maxes[s] + 1>>]
  <2>1. CASE gone /\ s = id[1] /\ p.maxes[s] >= id[2]
    <3>1. q.maxes[s] = id[2] - 1 /\ ~played /\ q.stacks[s] = p.stacks[s] /\ p.stacks[s] < id[2]
      BY <1>3, <1>4, <2>1
    <3>2. p.stacks[s] \in Nat /\ p.maxes[s] \in Nat
      BY <1>1
    <3>3. <<s, q.maxes[s] + 1>> = id
      BY <1>2, <2>1, <3>1
    <3>4. q.discards[id] = Copies[id] /\ Copies[id] \in Nat
      BY <1>1, <1>2, <2>1 DEF gone
    <3>5. QED
      BY <1>2, <2>1, <3>1, <3>2, <3>3, <3>4
  <2>2. CASE ~(gone /\ s = id[1] /\ p.maxes[s] >= id[2])
    <3>1. q.maxes[s] = p.maxes[s]
      BY <1>4, <2>2
    <3>2. p.stacks[s] \in Nat /\ p.maxes[s] \in Nat
      BY <1>1
    <3>3. q.stacks[s] <= q.maxes[s]
      BY <1>2, <1>3, <1>4, <1>5, <1>6, <3>1, <3>2
    <3>4. ASSUME q.maxes[s] < MaxRank
          PROVE  q.discards[<<s, q.maxes[s] + 1>>] >= Copies[<<s, q.maxes[s] + 1>>]
      <4> DEFINE e == <<s, p.maxes[s] + 1>>
      <4>1. e \in Ids
        BY <1>1, <3>1, <3>2, <3>4 DEF Ids
      <4>2. p.discards[e] >= Copies[e]
        BY <1>6, <3>1, <3>4
      <4> HIDE DEF e
      <4>3. p.discards[e] \in Nat /\ Copies[e] \in Nat
        BY <1>1, <4>1
      <4>4. q.discards[e] >= Copies[e]
        BY <1>4, <4>1, <4>2, <4>3
      <4>5. QED
        BY <3>1, <4>4 DEF e
    <3>5. QED
      BY <3>1, <3>2, <3>3, <3>4
  <2>3. QED
    BY <2>1, <2>2
<1>8. QED
  BY <1>7 DEF MaxesOK

\* A card of the player to move that is played or discarded.
LEMMA CardStep ==
  ASSUME NEW p, Proper(p), ~Ended(p), NEW o \in Hand(p, p.turn), NEW a \in {PlayAct(o), TossAct(o)},
         NEW q \in After(p, a)
  PROVE  Proper(q) /\ \E draw : Carded(p, q, o, Fits(p, a), draw)
<1>1. PICK draw \in IF p.left = 0 THEN {NoId} ELSE Unseen(p) : q = AdvanceGame(p, a, draw)
  <2>1. a.type # "clue"
    BY DEF PlayAct, TossAct
  <2>2. QED
    BY <2>1 DEF After
<1>2. /\ Carded(p, q, o, Fits(p, a), draw) /\ q \in Position
      /\ \A i \in Players : IsInjective(q.hands[i])
  BY <1>1, CardMove
<1>3. Proper(q)
  BY <1>2, HandsAfter, DeckAfter, CopiesAfter, MaxesAfter DEF Proper
<1>4. QED
  BY <1>2, <1>3

\* A clue of the player to move.
LEMMA ClueStep ==
  ASSUME NEW p, Proper(p), ~Ended(p), p.tokens > 0, NEW q \in After(p, ClueAct)
  PROVE  Proper(q) /\ Clued(p, q)
<1>1. q = AdvanceGame(p, ClueAct, NoId)
  BY DEF After, ClueAct
<1>2. p \in Position
  BY DEF Proper
<1>3. Clued(p, q) /\ q \in Position
  BY <1>1, <1>2, ClueMove
<1>4. HandsOK(q)
  BY <1>3 DEF Proper, HandsOK, Clued, Hand, Id
<1>5. DeckOK(q)
  <2>1. p.turns \in -1 .. NumPlayers /\ p.left \in Nat
    BY <1>2, PositionFacts
  <2>2. (q.turns = -1 <=> p.turns = -1) /\ q.left = p.left /\ q.top = p.top /\ q.deck = p.deck
    BY <1>3, <2>1 DEF Clued
  <2>3. QED
    BY <2>2 DEF Proper, DeckOK
<1>6. CopiesOK(q)
  BY <1>3 DEF Proper, CopiesOK, Clued, Base, InHand, Hand, Id
<1>7. MaxesOK(q)
  BY <1>3 DEF Proper, MaxesOK, Clued
<1>8. QED
  BY <1>3, <1>4, <1>5, <1>6, <1>7 DEF Proper

\* A legal move is a clue, a play or a discard.
LEMMA MoveCases ==
  ASSUME NEW p, NEW a \in LegalMoves(p)
  PROVE  \/ a = ClueAct /\ p.tokens > 0
         \/ \E o \in Hand(p, p.turn) : a \in {PlayAct(o), TossAct(o)}
BY DEF LegalMoves

-----------------------------------------------------------------------------
(* Scores *)

\* The score and the maximum score are integers, the one within the other.
LEMMA ScoreFacts ==
  ASSUME NEW p, Proper(p)
  PROVE  /\ ScoreOf(p) \in Int /\ Goal(p) \in Int /\ ScoreOf(p) <= Goal(p)
         /\ ScoreOf(p) = Goal(p) => p.stacks = p.maxes
<1> DEFINE f == p.stacks
           g == p.maxes
<1>1. f \in [Suits -> 0 .. MaxRank] /\ g \in [Suits -> 0 .. MaxRank]
  BY PositionFacts DEF Proper
<1>2. \A s \in Suits : f[s] <= g[s]
  BY DEF Proper, MaxesOK
<1>3. IsFiniteSet(Suits)
  BY EndgameAssumption
<1> HIDE DEF f, g
<1>4. f \in [Suits -> Int] /\ g \in [Suits -> Int]
  BY <1>1
<1>5. /\ Sum(f) \in Int /\ Sum(g) \in Int
      /\ Sum(f) <= Sum(g)
      /\ Sum(f) = Sum(g) => f = g
  BY <1>2, <1>3, <1>4, SumOrder
<1>6. QED
  BY <1>5 DEF ScoreOf, Goal, f, g

\* What a card does to the score and to the maximum score.
LEMMA ScoreAfter ==
  ASSUME NEW p, Proper(p), NEW q, Proper(q), NEW o, NEW played, NEW draw, Carded(p, q, o, played, draw)
  PROVE  /\ ScoreOf(q) = ScoreOf(p) + One0(played)
         /\ Goal(q) <= Goal(p)
         /\ Goal(q) = Goal(p) => q.maxes = p.maxes
<1>1. /\ p.stacks \in [Suits -> 0 .. MaxRank] /\ p.maxes \in [Suits -> 0 .. MaxRank]
      /\ q.stacks \in [Suits -> 0 .. MaxRank] /\ q.maxes \in [Suits -> 0 .. MaxRank]
  BY PositionFacts DEF Proper
<1>2. /\ p.stacks \in [Suits -> Int] /\ p.maxes \in [Suits -> Int]
      /\ q.stacks \in [Suits -> Int] /\ q.maxes \in [Suits -> Int]
  BY <1>1
<1>3. Goal(q) <= Goal(p) /\ (Goal(q) = Goal(p) => q.maxes = p.maxes)
  <2> DEFINE f == q.maxes
             g == p.maxes
  <2>1. \A s \in Suits : f[s] <= g[s]
    BY MaxesAfter DEF Proper
  <2>2. f \in [Suits -> Int] /\ g \in [Suits -> Int] /\ IsFiniteSet(Suits)
    BY <1>2, EndgameAssumption
  <2> HIDE DEF f, g
  <2>3. Sum(f) <= Sum(g) /\ (Sum(f) = Sum(g) => f = g)
    BY <2>1, <2>2, SumOrder
  <2>4. QED
    BY <2>3 DEF Goal, f, g
<1>4. /\ Id(p, o)[1] \in Suits /\ played \in BOOLEAN
      /\ \A s \in Suits : q.stacks[s] = IF played /\ s = Id(p, o)[1] THEN p.stacks[s] + 1 ELSE p.stacks[s]
  BY IdFacts DEF Carded
<1>5. ScoreOf(q) = ScoreOf(p) + One0(played)
  <2>1. CASE played
    <3>1. /\ q.stacks[Id(p, o)[1]] = p.stacks[Id(p, o)[1]] + 1
          /\ \A s \in Suits \ {Id(p, o)[1]} : q.stacks[s] = p.stacks[s]
      BY <1>4, <2>1
    <3> DEFINE f == q.stacks
               g == p.stacks
               x == Id(p, o)[1]
    <3>2. f \in [Suits -> Int] /\ g \in [Suits -> Int] /\ IsFiniteSet(Suits) /\ x \in Suits
          /\ f[x] = g[x] + 1 /\ \A s \in Suits \ {x} : f[s] = g[s]
      BY <1>2, <1>4, <3>1, EndgameAssumption
    <3> HIDE DEF f, g, x
    <3>3. OneApart(g, f)
      BY <3>2, SumOneMore
    <3>4. QED
      BY <2>1, <3>3 DEF OneApart, ScoreOf, One0, f, g
  <2>2. CASE ~played
    <3>1. q.stacks = p.stacks
      BY <1>1, <1>4, <2>2
    <3> DEFINE total(f) == Sum(f)
    <3>2. ScoreOf(q) = total(q.stacks) /\ ScoreOf(p) = total(p.stacks)
      BY DEF ScoreOf
    <3> HIDE DEF total
    <3>3. QED
      BY <2>2, <3>1, <3>2, ScoreFacts DEF One0
  <2>3. QED
    BY <1>4, <2>1, <2>2
<1>6. QED
  BY <1>3, <1>5

-----------------------------------------------------------------------------
(* Why a position is lost *)

\* The plays there can still be, if nobody without a useful card gets one for free.
PlaysLeft(p) ==
  IF p.turns = -1 THEN p.left + NumPlayers - Cardinality(VoidPlayers(p))
  ELSE Cardinality(InTurn(p) \ VoidPlayers(p))

\* There are not enough of them.
TooFew(p) == ScoreOf(p) + PlaysLeft(p) < Goal(p)

TurnsOf(p, i) == IF i \in InTurn(p) THEN 1 ELSE 0

\* In the last round somebody has more to play than turns.
TooLate(p) ==
  p.turns # -1 /\ \E i \in Players : Cardinality(MustPlays(p, i)) > TurnsOf(p, i)

\* Two players have to play two cards each, and one of them draws the last card.
Rivals(p) ==
  /\ p.turns = -1 /\ p.left = 1
  /\ \E i, j \in Players : /\ i # j
                           /\ Cardinality(MustPlays(p, i)) > 1 /\ Cardinality(MustPlays(p, j)) > 1

Doomed(p) == TooFew(p) \/ TooLate(p) \/ Rivals(p)

-----------------------------------------------------------------------------
(* Counting players and plays *)

\* The players are NumPlayers, and so is no set of them larger.
LEMMA SeatsFinite ==
  /\ IsFiniteSet(Players) /\ Cardinality(Players) = NumPlayers
  /\ \A S \in SUBSET Players : /\ IsFiniteSet(S) /\ Cardinality(S) \in Nat
                                /\ Cardinality(Players \ S) = NumPlayers - Cardinality(S)
<1>1. IsFiniteSet(Players) /\ Cardinality(Players) = NumPlayers
  <2>1. NumPlayers \in Nat /\ NumPlayers > 0
    BY EndgameAssumption
  <2>2. 0 \in Int /\ NumPlayers - 1 \in Int /\ ~(0 > NumPlayers - 1) /\ NumPlayers - 1 - 0 + 1 = NumPlayers
    BY <2>1
  <2>3. IsFiniteSet(0 .. NumPlayers - 1) /\ Cardinality(0 .. NumPlayers - 1) = NumPlayers - 1 - 0 + 1
    BY <2>2, FS_Interval
  <2>4. QED
    BY <2>2, <2>3 DEF Players
<1>2. ASSUME NEW S \in SUBSET Players
      PROVE  /\ IsFiniteSet(S) /\ Cardinality(S) \in Nat
             /\ Cardinality(Players \ S) = NumPlayers - Cardinality(S)
  <2>1. IsFiniteSet(S) /\ Cardinality(S) \in Nat
    BY <1>1, FS_Subset, FS_CardinalityType
  <2>2. Players \cap S = S
    OBVIOUS
  <2>3. Cardinality(Players \ S) = Cardinality(Players) - Cardinality(Players \cap S)
    BY <1>1, FS_Difference
  <2>4. QED
    BY <1>1, <2>1, <2>2, <2>3
<1>3. QED
  BY <1>1, <1>2

\* The identities are finitely many.
LEMMA MustPlaysFinite ==
  ASSUME NEW p, NEW i
  PROVE  /\ IsFiniteSet(MustPlays(p, i)) /\ Cardinality(MustPlays(p, i)) \in Nat
         /\ Cardinality(MustPlays(p, i)) > 0 => MustPlays(p, i) # {}
<1>1. IsFiniteSet(1 .. MaxRank)
  BY FS_Interval, EndgameAssumption
<1>2. IsFiniteSet(Ids)
  BY <1>1, FS_Product, EndgameAssumption DEF Ids
<1>3. MustPlays(p, i) \subseteq Ids
  BY DEF MustPlays
<1>4. QED
  BY <1>2, <1>3, FS_Subset, FS_CardinalityType, FS_EmptySet

\* What cannot be played any more stays so.
LEMMA TrashStays ==
  ASSUME NEW p, Proper(p), NEW q, NEW o, NEW played, NEW draw, Carded(p, q, o, played, draw),
         q.maxes = p.maxes, NEW id \in Ids, Trash(p, id)
  PROVE  Trash(q, id)
<1>1. p.stacks \in [Suits -> 0 .. MaxRank] /\ id[1] \in Suits /\ id[2] \in 1 .. MaxRank
  BY PositionFacts, IdFacts DEF Proper
<1>2. q.stacks[id[1]] = p.stacks[id[1]] \/ q.stacks[id[1]] = p.stacks[id[1]] + 1
  BY <1>1 DEF Carded
<1>3. p.stacks[id[1]] \in Nat /\ id[2] \in Nat
  BY <1>1
<1>4. QED
  BY <1>2, <1>3 DEF Trash

\* A player with nothing to play gets something to play only by a draw.
LEMMA VoidAfter ==
  ASSUME NEW p, Proper(p), NEW q \in Position, NEW o, NEW played, NEW draw, Carded(p, q, o, played, draw),
         q.maxes = p.maxes
  PROVE  /\ VoidPlayers(p) \ {p.turn} \subseteq VoidPlayers(q)
         /\ p.turns # -1 => VoidPlayers(p) \subseteq VoidPlayers(q)
         /\ played => p.turn \notin VoidPlayers(p)
<1> DEFINE t == p.turn
<1>1. p \in Position /\ HandsOK(p) /\ t \in Players
  BY PositionFacts DEF Proper
<1>2. /\ Hand(q, t) = (Hand(p, t) \ {o}) \cup DrawnIn(p)
      /\ \A i \in Players \ {t} : Hand(q, i) = Hand(p, i)
      /\ \A x \in Orders : Id(q, x) = IF x \in DrawnIn(p) THEN draw ELSE Id(p, x)
      /\ o \in Hand(p, t) /\ Id(p, o) \in Ids
      /\ played => Playable(p, Id(p, o))
  BY DEF Carded
<1>3. \A x \in DrawnIn(p) : \A i \in Players : x \notin Hand(p, i)
  BY NewCard DEF DrawnIn
<1>4. ASSUME NEW i \in Players, NEW x \in Hand(p, i), Worthless(p, x)
      PROVE  Worthless(q, x)
  <2>1. x \in Orders /\ Id(p, x) \in Ids /\ Id(p, x) # NoId
    BY <1>1, HandOrders, NoIdOutside DEF HandsOK
  <2>2. Id(q, x) = Id(p, x)
    BY <1>2, <1>3, <2>1
  <2>3. Trash(p, Id(p, x))
    BY <1>4, <2>1 DEF Worthless
  <2>4. Trash(q, Id(p, x))
    BY <2>1, <2>3, TrashStays
  <2>5. QED
    BY <2>2, <2>4 DEF Worthless
<1>5. \A i \in Players \ {t} : i \in VoidPlayers(p) => i \in VoidPlayers(q)
  BY <1>2, <1>4 DEF VoidPlayers
<1>6. ASSUME p.turns # -1, t \in VoidPlayers(p)
      PROVE  t \in VoidPlayers(q)
  <2>1. Hand(q, t) \subseteq Hand(p, t)
    BY <1>2, <1>6 DEF DrawnIn
  <2>2. \A x \in Hand(q, t) : Worthless(q, x)
    BY <1>1, <1>4, <1>6, <2>1 DEF VoidPlayers
  <2>3. QED
    BY <1>1, <2>2 DEF VoidPlayers
<1>7. ASSUME played, t \in VoidPlayers(p)
      PROVE  FALSE
  <2>1. Worthless(p, o) /\ Id(p, o) # NoId
    BY <1>2, <1>7, NoIdOutside DEF VoidPlayers
  <2>2. Trash(p, Id(p, o))
    BY <2>1 DEF Worthless
  <2>3. Playable(p, Id(p, o)) /\ Id(p, o)[1] \in Suits /\ Id(p, o)[2] \in 1 .. MaxRank
    BY <1>2, <1>7, IdFacts
  <2>4. p.stacks[Id(p, o)[1]] \in Nat /\ p.maxes[Id(p, o)[1]] \in Nat
    <3>1. p.stacks \in [Suits -> 0 .. MaxRank] /\ p.maxes \in [Suits -> 0 .. MaxRank]
      BY <1>1, PositionFacts
    <3>2. QED
      BY <2>3, <3>1
  <2>5. Id(p, o)[2] = p.stacks[Id(p, o)[1]] + 1
    BY <2>3 DEF Playable
  <2>6. Id(p, o)[2] > p.maxes[Id(p, o)[1]]
    BY <2>2, <2>3, <2>4, <2>5 DEF Trash
  <2>7. Id(p, o)[2] <= p.maxes[Id(p, o)[1]]
    BY <2>3, FitsWithin
  <2>8. QED
    BY <2>3, <2>4, <2>6, <2>7
<1>8. QED
  BY <1>5, <1>6, <1>7 DEF VoidPlayers

\* All copies that are left of an identity are in the hand that must play it.
LEMMA MustFacts ==
  ASSUME NEW p, Proper(p), NEW i \in Players, NEW id \in MustPlays(p, i)
  PROVE  /\ id \in Ids /\ ~Trash(p, id) /\ p.rest[id] = 0
         /\ \A j \in Players \ {i} : \A x \in Hand(p, j) : Id(p, x) # id
<1> DEFINE held == {x \in Hand(p, i) : Id(p, x) = id}
<1>1. /\ id \in Ids /\ held # {} /\ ~Trash(p, id) /\ Copies[id] - Base(p, id) = Cardinality(held)
  BY DEF MustPlays
<1>2. p \in Position /\ HandsOK(p)
  BY DEF Proper
<1>3. /\ p.rest[id] \in Nat /\ Copies[id] \in Nat /\ Base(p, id) \in Nat
  <2>1. p.discards \in [Ids -> Nat] /\ p.rest \in [Ids -> Nat]
    BY <1>2, PositionFacts
  <2>2. QED
    BY <1>1, <2>1, CopiesAssumption DEF Base
<1>4. Base(p, id) + Cardinality(InHand(p, id)) + p.rest[id] <= Copies[id]
  BY <1>1 DEF Proper, CopiesOK
<1>5. /\ IsFiniteSet(InHand(p, id)) /\ Cardinality(InHand(p, id)) \in Nat
  BY <1>2, InHandFinite
<1>6. held \in SUBSET InHand(p, id)
  BY DEF InHand
<1>7. Cardinality(held) \in Nat /\ Cardinality(held) <= Cardinality(InHand(p, id))
      /\ (Cardinality(InHand(p, id)) = Cardinality(held) => InHand(p, id) = held)
  BY <1>5, <1>6, FS_Subset, FS_CardinalityType
<1> HIDE DEF held
<1>8. p.rest[id] = 0 /\ Cardinality(InHand(p, id)) = Cardinality(held)
  BY <1>1, <1>3, <1>4, <1>5, <1>7
<1>9. InHand(p, id) = held
  BY <1>7, <1>8
<1>10. ASSUME NEW j \in Players \ {i}, NEW x \in Hand(p, j), Id(p, x) = id
       PROVE  FALSE
  <2>1. x \in InHand(p, id)
    BY <1>10 DEF InHand
  <2>2. x \in Hand(p, i)
    BY <1>9, <2>1 DEF held
  <2>3. QED
    BY <1>2, <2>2 DEF HandsOK
<1>11. QED
  BY <1>1, <1>8, <1>10

\* A hand keeps having to play what it had to, but for the card that leaves it.
LEMMA MustAfter ==
  ASSUME NEW p, Proper(p), NEW q, NEW o, NEW played, NEW draw, Carded(p, q, o, played, draw),
         q.maxes = p.maxes, NEW i \in Players
  PROVE  /\ MustPlays(p, i) \ {Id(p, o)} \subseteq MustPlays(q, i)
         /\ i # p.turn => MustPlays(p, i) \subseteq MustPlays(q, i)
<1> DEFINE t == p.turn
<1>1. p \in Position /\ HandsOK(p) /\ t \in Players
  BY PositionFacts DEF Proper
<1>2. /\ Hand(q, t) = (Hand(p, t) \ {o}) \cup DrawnIn(p)
      /\ \A j \in Players \ {t} : Hand(q, j) = Hand(p, j)
      /\ \A x \in Orders : Id(q, x) = IF x \in DrawnIn(p) THEN draw ELSE Id(p, x)
      /\ o \in Hand(p, t) /\ Id(p, o) \in Ids
      /\ played \in BOOLEAN /\ (played => Playable(p, Id(p, o)))
      /\ \A s \in Suits : q.stacks[s] = IF played /\ s = Id(p, o)[1] THEN p.stacks[s] + 1 ELSE p.stacks[s]
  BY DEF Carded
<1>3. \A x \in DrawnIn(p) : x \in Orders /\ \A j \in Players : x \notin Hand(p, j)
  BY NewCard DEF DrawnIn
<1> HIDE DEF t
<1>4. ASSUME NEW id \in MustPlays(p, i), id # Id(p, o)
      PROVE  id \in MustPlays(q, i)
  <2> DEFINE held(r) == {x \in Hand(r, i) : Id(r, x) = id}
  <2>1. /\ id \in Ids /\ ~Trash(p, id) /\ p.rest[id] = 0
    BY MustFacts
  <2>2. held(p) # {} /\ Copies[id] - Base(p, id) = Cardinality(held(p))
    BY DEF MustPlays
  <2>3. \A x \in DrawnIn(p) : Id(q, x) # id
    <3>1. p.turns = -1 => draw # id
      BY <2>1 DEF Carded
    <3>2. QED
      BY <1>2, <1>3, <3>1 DEF DrawnIn
  <2>4. \A x \in Hand(p, i) : Id(q, x) = Id(p, x) /\ x \in Orders
    BY <1>1, <1>2, <1>3, HandOrders
  <2>5. held(q) = held(p)
    <3>1. CASE i = t
      <4>1. \A x \in Hand(p, i) : Id(p, x) = id => x # o
        BY <1>4
      <4>2. QED
        BY <1>2, <2>3, <2>4, <3>1, <4>1
    <3>2. CASE i # t
      BY <1>2, <2>4, <3>2
    <3>3. QED
      BY <3>1, <3>2
  <2>6. Base(q, id) = Base(p, id)
    BY <1>4, <2>1, BaseAfter DEF One0
  <2>7. ~Trash(q, id)
    <3>1. /\ id[1] \in Suits /\ id[2] \in 1 .. MaxRank /\ id = <<id[1], id[2]>>
          /\ Id(p, o) = <<Id(p, o)[1], Id(p, o)[2]>>
      BY <1>2, <2>1, IdFacts
    <3>2. p.stacks[id[1]] \in Nat /\ p.maxes[id[1]] \in Nat
      <4>1. p.stacks \in [Suits -> 0 .. MaxRank] /\ p.maxes \in [Suits -> 0 .. MaxRank]
        BY <1>1, PositionFacts
      <4>2. QED
        BY <3>1, <4>1
    <3>3. ~(id[2] <= p.stacks[id[1]]) /\ ~(id[2] > p.maxes[id[1]])
      BY <2>1 DEF Trash
    <3>4. ~(id[2] <= q.stacks[id[1]])
      <4>1. CASE played /\ id[1] = Id(p, o)[1]
        <5>1. Id(p, o)[2] = p.stacks[id[1]] + 1
          BY <1>2, <4>1 DEF Playable
        <5>2. id[2] # Id(p, o)[2]
          BY <1>4, <3>1, <4>1
        <5>3. q.stacks[id[1]] = p.stacks[id[1]] + 1
          BY <1>2, <3>1, <4>1
        <5>4. QED
          BY <3>1, <3>2, <3>3, <5>1, <5>2, <5>3
      <4>2. CASE ~(played /\ id[1] = Id(p, o)[1])
        BY <1>2, <3>1, <3>3, <4>2
      <4>3. QED
        BY <4>1, <4>2
    <3>5. QED
      BY <3>3, <3>4 DEF Trash
  <2>8. QED
    BY <2>1, <2>2, <2>5, <2>6, <2>7 DEF MustPlays
<1>5. ASSUME i # t, Id(p, o) \in MustPlays(p, i)
      PROVE  FALSE
  BY <1>1, <1>2, <1>5, MustFacts
<1>6. QED
  BY <1>4, <1>5 DEF t

-----------------------------------------------------------------------------
(* A lost position stays lost *)

\* The last rounds' players after a turn.
LEMMA RoundAfter ==
  ASSUME NEW p, Proper(p), NEW q, Proper(q), p.turns # 0, p.turns # -1,
         q.turn = NextPlayer(p.turn), q.turns = p.turns - 1
  PROVE  /\ p.turn \in InTurn(p) /\ InTurn(q) \subseteq InTurn(p) \ {p.turn}
         /\ InTurn(p) \subseteq Players /\ InTurn(q) \subseteq Players /\ q.turns # -1
<1>1. /\ p.turn \in Players /\ p.turns \in -1 .. NumPlayers /\ q.turn \in Players /\ q.turns \in -1 .. NumPlayers
  BY PositionFacts DEF Proper
<1>2. p.turns \in 1 .. NumPlayers /\ q.turns # -1
  BY <1>1
<1>3. QED
  BY <1>1, <1>2, TurnPassed, InTurnPlayers

\* Too few plays stay too few when a card is played or discarded.
LEMMA TooFewCard ==
  ASSUME NEW p, Proper(p), NEW q, Proper(q), NEW o, NEW played, NEW draw, Carded(p, q, o, played, draw),
         Goal(q) = Goal(p), TooFew(p)
  PROVE  TooFew(q)
<1> DEFINE V == VoidPlayers(p)
           W == VoidPlayers(q)
           t == p.turn
           v == Cardinality(V)
           w == Cardinality(W)
<1>1. /\ q \in Position /\ t \in Players /\ p.turns \in -1 .. NumPlayers /\ p.left \in Nat
      /\ NumPlayers \in Nat /\ NumPlayers > 0
  BY PositionFacts, EndgameAssumption DEF Proper
<1>2. /\ ScoreOf(q) = ScoreOf(p) + One0(played) /\ q.maxes = p.maxes
      /\ ScoreOf(p) \in Int /\ Goal(p) \in Int
  BY ScoreAfter, ScoreFacts
<1>3. /\ V \ {t} \subseteq W /\ (p.turns # -1 => V \subseteq W) /\ (played => t \notin V)
  BY <1>1, <1>2, VoidAfter
<1>4. V \in SUBSET Players /\ W \in SUBSET Players
  BY DEF VoidPlayers
<1>5. /\ IsFiniteSet(V) /\ IsFiniteSet(W) /\ v \in Nat /\ w \in Nat
      /\ Cardinality(Players \ V) = NumPlayers - v /\ Cardinality(Players \ W) = NumPlayers - w
  BY <1>4, SeatsFinite
<1>6. /\ played \in BOOLEAN /\ p.turns # 0 /\ q.turn = NextPlayer(p.turn)
      /\ q.left = IF p.turns = -1 THEN p.left - 1 ELSE p.left
      /\ q.turns = IF p.turns # -1 THEN p.turns - 1 ELSE IF p.left = 1 THEN NumPlayers ELSE -1
  BY DEF Carded
<1>7. ScoreOf(p) + PlaysLeft(p) < Goal(p)
  BY DEF TooFew
<1> HIDE DEF V, W, t
<1>8. CASE p.turns = -1
  <2>1. w + One0(~played) >= v
    <3>1. CASE t \in V
      <4>1. Cardinality(V \ {t}) = v - 1 /\ Cardinality(V \ {t}) <= w
        BY <1>3, <1>5, <3>1, FS_RemoveElement, FS_Subset
      <4>2. ~played
        BY <1>3, <3>1
      <4>3. QED
        BY <1>5, <4>1, <4>2 DEF One0
    <3>2. CASE t \notin V
      <4>1. V \subseteq W
        BY <1>3, <3>2
      <4>2. v <= w
        BY <1>5, <4>1, FS_Subset
      <4>3. QED
        BY <1>5, <4>2 DEF One0
    <3>3. QED
      BY <3>1, <3>2
  <2>2. PlaysLeft(p) = p.left + NumPlayers - v
    BY <1>8 DEF PlaysLeft, V
  <2>3. One0(played) + One0(~played) = 1 /\ One0(played) \in Nat /\ One0(~played) \in Nat
    BY <1>6 DEF One0
  <2>4. ScoreOf(p) + One0(played) + (p.left - 1) + NumPlayers - w < Goal(p)
    BY <1>1, <1>2, <1>5, <1>7, <2>1, <2>2, <2>3
  <2>5. CASE p.left = 1
    <3>1. q.turns = NumPlayers /\ NumPlayers # -1 /\ q.turns # -1
      BY <1>1, <1>6, <1>8, <2>5
    <3>2. PlaysLeft(q) = Cardinality(InTurn(q) \ W)
      BY <3>1 DEF PlaysLeft, W
    <3>3. InTurn(q) \ W \in SUBSET (Players \ W)
      <4>1. q.turn \in Players /\ q.turns \in -1 .. NumPlayers
        BY <1>1, PositionFacts
      <4>2. QED
        BY <4>1, InTurnPlayers
    <3>4. IsFiniteSet(Players \ W)
      BY SeatsFinite, FS_Subset
    <3>5. Cardinality(InTurn(q) \ W) <= NumPlayers - w /\ Cardinality(InTurn(q) \ W) \in Nat
      BY <1>5, <3>3, <3>4, FS_Subset, FS_CardinalityType
    <3>6. QED
      BY <1>1, <1>2, <1>5, <2>3, <2>4, <2>5, <3>2, <3>5 DEF TooFew
  <2>6. CASE p.left # 1
    <3>1. q.turns = -1 /\ q.left = p.left - 1
      BY <1>6, <1>8, <2>6
    <3>2. PlaysLeft(q) = p.left - 1 + NumPlayers - w
      BY <3>1 DEF PlaysLeft, W
    <3>3. QED
      BY <1>1, <1>2, <1>5, <2>3, <2>4, <3>2 DEF TooFew
  <2>7. QED
    BY <2>5, <2>6
<1>9. CASE p.turns # -1
  <2> DEFINE A == InTurn(p) \ V
             B == InTurn(q) \ W
  <2>1. /\ t \in InTurn(p) /\ InTurn(q) \subseteq InTurn(p) \ {t} /\ InTurn(p) \subseteq Players
        /\ q.turns # -1
    BY <1>6, <1>9, RoundAfter DEF t
  <2>2. PlaysLeft(p) = Cardinality(A) /\ PlaysLeft(q) = Cardinality(B)
    BY <1>9, <2>1 DEF PlaysLeft, V, W
  <2>3. IsFiniteSet(A) /\ Cardinality(A) \in Nat /\ B \in SUBSET A /\ B \in SUBSET (A \ {t})
    BY <1>3, <1>9, <2>1, SeatsFinite
  <2> HIDE DEF A, B
  <2>4. IsFiniteSet(A \ {t}) /\ Cardinality(A \ {t}) = IF t \in A THEN Cardinality(A) - 1 ELSE Cardinality(A)
    BY <2>3, FS_RemoveElement
  <2>5. /\ Cardinality(B) \in Nat /\ Cardinality(B) <= Cardinality(A)
        /\ Cardinality(B) <= Cardinality(A \ {t})
    BY <2>3, <2>4, FS_Subset, FS_CardinalityType
  <2>6. Cardinality(B) + One0(played) <= Cardinality(A)
    <3>1. CASE played
      <4>1. t \in A
        BY <1>3, <2>1, <3>1 DEF A
      <4>2. QED
        BY <2>3, <2>4, <2>5, <3>1, <4>1 DEF One0
    <3>2. CASE ~played
      BY <2>3, <2>5, <3>2 DEF One0
    <3>3. QED
      BY <3>1, <3>2
  <2>7. One0(played) \in Nat
    BY DEF One0
  <2>8. QED
    BY <1>2, <1>7, <2>2, <2>3, <2>5, <2>6, <2>7 DEF TooFew
<1>10. QED
  BY <1>8, <1>9

\* A hand that must play too much in the last round still does after a card.
LEMMA TooLateCard ==
  ASSUME NEW p, Proper(p), NEW q, Proper(q), NEW o, NEW played, NEW draw, Carded(p, q, o, played, draw),
         Goal(q) = Goal(p), TooLate(p)
  PROVE  TooLate(q)
<1>1. q.maxes = p.maxes
  BY ScoreAfter
<1>2. PICK i \in Players : Cardinality(MustPlays(p, i)) > TurnsOf(p, i)
  BY DEF TooLate
<1>3. /\ p.turns # 0 /\ p.turns # -1 /\ q.turn = NextPlayer(p.turn) /\ q.turns = p.turns - 1
  BY DEF Carded, TooLate
<1>4. /\ p.turn \in InTurn(p) /\ InTurn(q) \subseteq InTurn(p) \ {p.turn} /\ q.turns # -1
  BY <1>3, RoundAfter
<1>5. /\ MustPlays(p, i) \ {Id(p, o)} \subseteq MustPlays(q, i)
      /\ i # p.turn => MustPlays(p, i) \subseteq MustPlays(q, i)
  BY <1>1, MustAfter
<1>6. /\ IsFiniteSet(MustPlays(p, i)) /\ Cardinality(MustPlays(p, i)) \in Nat
      /\ IsFiniteSet(MustPlays(q, i)) /\ Cardinality(MustPlays(q, i)) \in Nat
  BY MustPlaysFinite
<1>7. CASE i = p.turn
  <2>1. TurnsOf(p, i) = 1 /\ TurnsOf(q, i) = 0
    BY <1>4, <1>7 DEF TurnsOf
  <2> DEFINE M == MustPlays(p, i) \ {Id(p, o)}
  <2>2. IsFiniteSet(M) /\ Cardinality(M) >= Cardinality(MustPlays(p, i)) - 1 /\ Cardinality(M) \in Nat
    <3> DEFINE all == MustPlays(p, i)
               id == Id(p, o)
    <3>1. IsFiniteSet(all) /\ Cardinality(all) \in Nat
      BY <1>6
    <3> HIDE DEF all, id
    <3>2. IsFiniteSet(all \ {id}) /\ Cardinality(all \ {id}) \in Nat
          /\ Cardinality(all \ {id}) >= Cardinality(all) - 1
      <4>1. IsFiniteSet(all \ {id})
        BY <3>1, FS_RemoveElement
      <4>2. Cardinality(all \ {id}) = IF id \in all THEN Cardinality(all) - 1 ELSE Cardinality(all)
        BY <3>1, FS_RemoveElement
      <4>3. QED
        BY <3>1, <4>1, <4>2, FS_CardinalityType
    <3>3. QED
      BY <3>2 DEF all, id
  <2>3. Cardinality(M) <= Cardinality(MustPlays(q, i))
    BY <1>5, <1>6, FS_Subset
  <2>4. Cardinality(MustPlays(q, i)) > TurnsOf(q, i)
    BY <1>2, <1>6, <2>1, <2>2, <2>3
  <2>5. QED
    BY <1>4, <2>4 DEF TooLate
<1>8. CASE i # p.turn
  <2>1. TurnsOf(q, i) <= TurnsOf(p, i) /\ TurnsOf(q, i) \in Nat /\ TurnsOf(p, i) \in Nat
    BY <1>4 DEF TurnsOf
  <2>2. Cardinality(MustPlays(p, i)) <= Cardinality(MustPlays(q, i))
    BY <1>5, <1>6, <1>8, FS_Subset
  <2>3. Cardinality(MustPlays(q, i)) > TurnsOf(q, i)
    BY <1>2, <1>6, <2>1, <2>2
  <2>4. QED
    BY <1>4, <2>3 DEF TooLate
<1>9. QED
  BY <1>7, <1>8

\* Of two players who both need the last card, one does not draw it.
LEMMA RivalsCard ==
  ASSUME NEW p, Proper(p), NEW q, Proper(q), NEW o, NEW played, NEW draw, Carded(p, q, o, played, draw),
         Goal(q) = Goal(p), Rivals(p)
  PROVE  TooLate(q)
<1>1. q.maxes = p.maxes
  BY ScoreAfter
<1>2. q.turns # -1
  <2>1. q.turns = NumPlayers
    BY DEF Carded, Rivals
  <2>2. QED
    BY <2>1, EndgameAssumption
<1>3. PICK i \in Players : i # p.turn /\ Cardinality(MustPlays(p, i)) > 1
  BY DEF Rivals
<1>4. MustPlays(p, i) \subseteq MustPlays(q, i)
  BY <1>1, <1>3, MustAfter
<1>5. /\ Cardinality(MustPlays(p, i)) \in Nat /\ Cardinality(MustPlays(q, i)) \in Nat
      /\ Cardinality(MustPlays(p, i)) <= Cardinality(MustPlays(q, i))
  BY <1>4, MustPlaysFinite, FS_Subset
<1>6. Cardinality(MustPlays(q, i)) > TurnsOf(q, i)
  BY <1>3, <1>5 DEF TurnsOf
<1>7. QED
  BY <1>2, <1>6 DEF TooLate

\* A clue takes a turn and changes nothing else.
LEMMA DoomedClue ==
  ASSUME NEW p, Proper(p), NEW q, Proper(q), Clued(p, q)
  PROVE  /\ Goal(q) = Goal(p) /\ ScoreOf(q) = ScoreOf(p)
         /\ Doomed(p) => Doomed(q)
<1>1. /\ p.turns # 0 /\ q.turn = NextPlayer(p.turn)
      /\ q.turns = IF p.turns = -1 THEN -1 ELSE p.turns - 1
      /\ q.left = p.left
  BY DEF Clued
<1>2. Goal(q) = Goal(p) /\ ScoreOf(q) = ScoreOf(p)
  BY DEF Clued, Goal, ScoreOf
<1>3. VoidPlayers(q) = VoidPlayers(p)
  BY DEF Clued, VoidPlayers, Worthless, Trash, Hand, Id
<1>4. \A i \in Players : MustPlays(q, i) = MustPlays(p, i)
  BY DEF Clued, MustPlays, Trash, Hand, Id, Base
<1>5. CASE p.turns = -1
  <2>1. PlaysLeft(q) = PlaysLeft(p)
    BY <1>1, <1>3, <1>5 DEF PlaysLeft
  <2>2. q.turns = -1
    BY <1>1, <1>5
  <2>3. QED
    BY <1>1, <1>2, <1>4, <1>5, <2>1, <2>2 DEF Doomed, TooFew, TooLate, Rivals
<1>6. CASE p.turns # -1
  <2>1. /\ InTurn(q) \subseteq InTurn(p) /\ InTurn(p) \subseteq Players /\ q.turns # -1
    BY <1>1, <1>6, RoundAfter
  <2>2. ASSUME TooFew(p) PROVE TooFew(q)
    <3> DEFINE A == InTurn(p) \ VoidPlayers(p)
               B == InTurn(q) \ VoidPlayers(q)
    <3>1. PlaysLeft(p) = Cardinality(A) /\ PlaysLeft(q) = Cardinality(B)
      BY <1>6, <2>1 DEF PlaysLeft
    <3>2. IsFiniteSet(A) /\ Cardinality(A) \in Nat /\ B \in SUBSET A
      BY <1>3, <2>1, SeatsFinite
    <3> HIDE DEF A, B
    <3>3. Cardinality(B) \in Nat /\ Cardinality(B) <= Cardinality(A)
      BY <3>2, FS_Subset, FS_CardinalityType
    <3>4. ScoreOf(p) \in Int /\ Goal(p) \in Int
      BY ScoreFacts
    <3>5. QED
      BY <1>2, <2>2, <3>1, <3>2, <3>3, <3>4 DEF TooFew
  <2>3. ASSUME TooLate(p) PROVE TooLate(q)
    <3>1. PICK i \in Players : Cardinality(MustPlays(p, i)) > TurnsOf(p, i)
      BY <2>3 DEF TooLate
    <3>2. /\ TurnsOf(q, i) <= TurnsOf(p, i) /\ TurnsOf(q, i) \in Nat /\ TurnsOf(p, i) \in Nat
          /\ Cardinality(MustPlays(p, i)) \in Nat
      BY <2>1, MustPlaysFinite DEF TurnsOf
    <3>3. Cardinality(MustPlays(q, i)) > TurnsOf(q, i)
      BY <1>4, <3>1, <3>2
    <3>4. QED
      BY <2>1, <3>3 DEF TooLate
  <2>4. ~Rivals(p)
    BY <1>6 DEF Rivals
  <2>5. QED
    BY <1>2, <2>2, <2>3, <2>4 DEF Doomed
<1>7. QED
  BY <1>2, <1>5, <1>6

\* No legal move saves a lost position, unless it lowers the maximum score.
LEMMA DoomedStep ==
  ASSUME NEW p, Proper(p), ~Over(p), NEW a \in LegalMoves(p), NEW q \in After(p, a)
  PROVE  /\ Proper(q) /\ Goal(q) <= Goal(p)
         /\ Goal(q) = Goal(p) /\ Doomed(p) => Doomed(q)
<1>1. ~Ended(p)
  BY DEF Over
<1>2. CASE a = ClueAct /\ p.tokens > 0
  <2>1. Proper(q) /\ Clued(p, q)
    BY <1>1, <1>2, ClueStep
  <2>2. Goal(p) \in Int
    BY ScoreFacts
  <2>3. QED
    BY <2>1, <2>2, DoomedClue
<1>3. CASE \E o \in Hand(p, p.turn) : a \in {PlayAct(o), TossAct(o)}
  <2>1. PICK o \in Hand(p, p.turn) : a \in {PlayAct(o), TossAct(o)}
    BY <1>3
  <2>2. Proper(q) /\ \E draw : Carded(p, q, o, Fits(p, a), draw)
    BY <1>1, <2>1, CardStep
  <2>3. PICK draw : Carded(p, q, o, Fits(p, a), draw)
    BY <2>2
  <2> DEFINE played == Fits(p, a)
  <2> HIDE DEF played
  <2>4. Carded(p, q, o, played, draw)
    BY <2>3 DEF played
  <2>5. Goal(q) <= Goal(p)
    BY <2>2, <2>4, ScoreAfter
  <2>6. Goal(q) = Goal(p) /\ Doomed(p) => Doomed(q)
    BY <2>2, <2>4, TooFewCard, TooLateCard, RivalsCard DEF Doomed
  <2>7. QED
    BY <2>2, <2>5, <2>6
<1>4. QED
  BY <1>2, <1>3, MoveCases

-----------------------------------------------------------------------------
(* What unwinnable_state gives up *)

\* A lost position has not reached its maximum score.
LEMMA DoomedIsShort ==
  ASSUME NEW p, Proper(p), Doomed(p)
  PROVE  ScoreOf(p) < Goal(p)
<1>1. /\ p \in Position /\ p.turn \in Players /\ p.turns \in -1 .. NumPlayers /\ p.left \in Nat
      /\ NumPlayers \in Nat
  BY PositionFacts, EndgameAssumption DEF Proper
<1>2. /\ ScoreOf(p) \in Int /\ Goal(p) \in Int /\ ScoreOf(p) <= Goal(p)
      /\ ScoreOf(p) = Goal(p) => p.stacks = p.maxes
  BY ScoreFacts
<1>3. ASSUME NEW i \in Players, MustPlays(p, i) # {}
      PROVE  ScoreOf(p) < Goal(p)
  <2>1. PICK id \in MustPlays(p, i) : TRUE
    BY <1>3
  <2>2. id \in Ids /\ ~Trash(p, id)
    BY <2>1, MustFacts
  <2>3. /\ p.stacks \in [Suits -> 0 .. MaxRank] /\ p.maxes \in [Suits -> 0 .. MaxRank]
        /\ id[1] \in Suits /\ id[2] \in 1 .. MaxRank
    BY <1>1, <2>2, PositionFacts, IdFacts
  <2>4. p.stacks # p.maxes
    BY <2>2, <2>3 DEF Trash
  <2>5. QED
    BY <1>2, <2>4
<1>4. CASE TooFew(p)
  <2>1. PlaysLeft(p) >= 0 /\ PlaysLeft(p) \in Int
    <3>1. VoidPlayers(p) \in SUBSET Players
      BY DEF VoidPlayers
    <3>2. Cardinality(VoidPlayers(p)) \in Nat /\ Cardinality(VoidPlayers(p)) <= NumPlayers
      BY <3>1, SeatsFinite, FS_Subset
    <3>3. Cardinality(InTurn(p) \ VoidPlayers(p)) \in Nat
      <4>1. InTurn(p) \ VoidPlayers(p) \in SUBSET Players
        BY <1>1, InTurnPlayers
      <4>2. QED
        BY <4>1, SeatsFinite
    <3>4. QED
      BY <1>1, <3>2, <3>3 DEF PlaysLeft
  <2>2. QED
    BY <1>2, <1>4, <2>1 DEF TooFew
<1>5. CASE TooLate(p)
  <2>1. PICK i \in Players : Cardinality(MustPlays(p, i)) > TurnsOf(p, i)
    BY <1>5 DEF TooLate
  <2>2. Cardinality(MustPlays(p, i)) > 0
    BY <2>1, MustPlaysFinite DEF TurnsOf
  <2>3. QED
    BY <1>3, <2>2, MustPlaysFinite
<1>6. CASE Rivals(p)
  <2>1. PICK i \in Players : Cardinality(MustPlays(p, i)) > 1
    BY <1>6 DEF Rivals
  <2>2. Cardinality(MustPlays(p, i)) > 0
    BY <2>1, MustPlaysFinite
  <2>3. QED
    BY <1>3, <2>2, MustPlaysFinite
<1>7. QED
  BY <1>4, <1>5, <1>6 DEF Doomed

\* Every test of unwinnable_state finds such a reason, if the game is not won.
LEMMA GivenUpIsDoomed ==
  ASSUME NEW p, Proper(p), Unwinnable(p), ~Won(p)
  PROVE  Doomed(p)
<1> DEFINE V == VoidPlayers(p)
           v == Cardinality(V)
<1>1. /\ p \in Position /\ DeckOK(p) /\ p.turn \in Players /\ p.turns \in -1 .. NumPlayers /\ p.left \in Nat
      /\ NumPlayers \in Nat /\ (p.turns = -1 <=> p.left > 0)
  BY PositionFacts, EndgameAssumption DEF Proper, DeckOK
<1>2. /\ ScoreOf(p) \in Int /\ Goal(p) \in Int /\ ScoreOf(p) < Goal(p)
  BY ScoreFacts DEF Won
<1>3. /\ V \in SUBSET Players /\ IsFiniteSet(V) /\ v \in Nat
      /\ Cardinality(Players \ V) = NumPlayers - v
  BY SeatsFinite DEF VoidPlayers
<1>4. /\ InTurn(p) \subseteq Players /\ (p.turns \in {-1, 0} => InTurn(p) = {})
  BY <1>1, InTurnPlayers
<1>5. /\ Cardinality(InTurn(p) \ V) \in Nat /\ Cardinality(InTurn(p) \ V) <= NumPlayers - v
  <2>1. InTurn(p) \ V \in SUBSET (Players \ V) /\ IsFiniteSet(Players \ V)
    BY <1>4, SeatsFinite
  <2>2. QED
    BY <1>3, <2>1, FS_Subset, FS_CardinalityType
<1> HIDE DEF V
<1>6. PlaysLeft(p) = IF p.turns = -1 THEN p.left + NumPlayers - v ELSE Cardinality(InTurn(p) \ V)
  BY DEF PlaysLeft, V
<1>7. CASE Ended(p)
  <2>1. p.turns = 0 /\ InTurn(p) \ V = {}
    BY <1>4, <1>7 DEF Ended
  <2>2. PlaysLeft(p) = 0
    BY <1>6, <2>1, FS_EmptySet
  <2>3. QED
    BY <1>2, <2>2 DEF Doomed, TooFew
<1>8. CASE v > Pace(p) \/ Pace(p) < 0
  <2>1. ScoreOf(p) + p.left + NumPlayers - Goal(p) < v \/ ScoreOf(p) + p.left + NumPlayers - Goal(p) < 0
    BY <1>1, <1>2, <1>3, <1>8 DEF Pace
  <2>2. ScoreOf(p) + (p.left + NumPlayers - v) < Goal(p)
    BY <1>1, <1>2, <1>3, <2>1
  <2>3. PlaysLeft(p) <= p.left + NumPlayers - v /\ PlaysLeft(p) \in Int
    BY <1>1, <1>3, <1>5, <1>6
  <2>4. ScoreOf(p) + PlaysLeft(p) < Goal(p)
    BY <1>1, <1>2, <1>3, <2>2, <2>3
  <2>5. QED
    BY <2>4 DEF Doomed, TooFew
<1>9. CASE p.turns # -1 /\ Cardinality(InTurn(p) \ V) + ScoreOf(p) < Goal(p)
  BY <1>2, <1>5, <1>6, <1>9 DEF Doomed, TooFew
<1>10. CASE p.turns # -1 /\ \E i \in InTurn(p) : Cardinality(MustPlays(p, i)) > 1
  BY <1>4, <1>10 DEF Doomed, TooLate, TurnsOf
<1>11. CASE p.left = 1 /\ Cardinality({i \in Players : Cardinality(MustPlays(p, i)) > 1}) > 1
  <2> DEFINE M == {i \in Players : Cardinality(MustPlays(p, i)) > 1}
  <2>1. IsFiniteSet(M) /\ Cardinality(M) > 1 /\ Cardinality(M) \in Nat
    <3>1. M \in SUBSET Players
      OBVIOUS
    <3>2. QED
      BY <1>11, <3>1, SeatsFinite
  <2>2. PICK i \in M : TRUE
    <3>1. M # {}
      BY <2>1, FS_EmptySet
    <3>2. QED
      BY <3>1
  <2>3. PICK j \in M \ {i} : TRUE
    <3> HIDE DEF M
    <3>1. Cardinality(M \ {i}) = Cardinality(M) - 1
      BY <2>1, <2>2, FS_RemoveElement
    <3>2. Cardinality(M \ {i}) # 0
      BY <2>1, <3>1
    <3>3. M \ {i} # {}
      BY <3>2, FS_EmptySet
    <3>4. QED
      BY <3>3
  <2>4. p.turns = -1
    BY <1>1, <1>11
  <2>5. QED
    BY <1>11, <2>2, <2>3, <2>4 DEF Doomed, Rivals
<1>12. QED
  BY <1>7, <1>8, <1>9, <1>10, <1>11 DEF Unwinnable, V

-----------------------------------------------------------------------------
(* The theorem *)

\* What the invariant says of a score that was given up: the maximum has sunk
\* below it, or the position is lost for one of the three reasons.
StaysLost(p, score) == Goal(p) < score \/ (Goal(p) = score /\ Doomed(p))

\* The inductive invariant of a game that goes on.
PlayInv == Proper(pos) /\ lost \subseteq Int /\ \A score \in lost : StaysLost(pos, score)

\* What is given up in a position is lost in it.
LEMMA GivenUpIsLost ==
  ASSUME NEW p, Proper(p)
  PROVE  GivenUp(p) \subseteq Int /\ \A score \in GivenUp(p) : StaysLost(p, score)
BY ScoreFacts, GivenUpIsDoomed DEF GivenUp, StaysLost

\* One move keeps the invariant: the positions stay proper, and what was given up
\* stays lost.
LEMMA PlayKeeps ==
  ASSUME PlayInv, PlayOn
  PROVE  PlayInv'
<1>0. PICK a \in LegalMoves(pos) : \E q \in After(pos, a) : pos' = q /\ lost' = lost \cup GivenUp(q)
  BY DEF PlayOn
<1>1. PICK q \in After(pos, a) : pos' = q /\ lost' = lost \cup GivenUp(q)
  BY <1>0
<1>2. ~Over(pos) /\ Proper(pos)
  BY DEF PlayOn, PlayInv
<1>3. /\ Proper(q) /\ Goal(q) <= Goal(pos)
      /\ Goal(q) = Goal(pos) /\ Doomed(pos) => Doomed(q)
  BY <1>2, DoomedStep
<1>4. Goal(q) \in Int /\ Goal(pos) \in Int
  BY <1>2, <1>3, ScoreFacts
<1>5. ASSUME NEW score \in lost PROVE StaysLost(q, score)
  <2>1. StaysLost(pos, score) /\ score \in Int
    BY DEF PlayInv
  <2>2. QED
    BY <1>3, <1>4, <2>1 DEF StaysLost
<1>6. GivenUp(q) \subseteq Int /\ \A score \in GivenUp(q) : StaysLost(q, score)
  BY <1>3, GivenUpIsLost
<1>7. Proper(pos') /\ lost' \subseteq Int /\ \A score \in lost' : StaysLost(pos', score)
  BY <1>1, <1>3, <1>5, <1>6 DEF PlayInv
<1>8. QED
  BY <1>7 DEF PlayInv

\* Whatever is played, the positions are those of a game and a score that was given
\* up stays lost, for every table, variant and set of positions to start from.
THEOREM PlayInvariance == PlaySpec => []PlayInv
<1>1. ASSUME PlayInit PROVE PlayInv
  <2>1. Proper(pos)
    BY <1>1, RootAssumption DEF PlayInit
  <2>2. QED
    BY <1>1, <2>1, GivenUpIsLost DEF PlayInit, PlayInv
<1>2. PlayInv /\ [PlayOn]_<<pos, lost>> => PlayInv'
  <2>1. ASSUME PlayInv, UNCHANGED <<pos, lost>> PROVE PlayInv'
    BY <2>1 DEF PlayInv
  <2>2. QED
    BY <2>1, PlayKeeps
<1>3. QED
  BY <1>1, <1>2, PTL DEF PlaySpec

\* unwinnable_state never gives up a game that is won later, for every number of
\* players, variant, hand size and endgame, whatever is played and drawn.
THEOREM GivenUpIsFinal == PlaySpec => []UnwinnableIsFinal
<1>1. ASSUME PlayInv PROVE UnwinnableIsFinal
  <2> SUFFICES ASSUME NEW score \in lost PROVE ScoreOf(pos) < score
    BY DEF UnwinnableIsFinal
  <2>1. Proper(pos) /\ score \in Int /\ StaysLost(pos, score)
    BY <1>1 DEF PlayInv
  <2>2. /\ ScoreOf(pos) \in Int /\ Goal(pos) \in Int /\ ScoreOf(pos) <= Goal(pos)
        /\ Doomed(pos) => ScoreOf(pos) < Goal(pos)
    BY <2>1, ScoreFacts, DoomedIsShort
  <2>3. QED
    BY <2>1, <2>2 DEF StaysLost
<1>2. QED
  BY <1>1, PlayInvariance, PTL
=============================================================================
