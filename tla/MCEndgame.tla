----------------------------- MODULE MCEndgame -----------------------------
(* Three players, two suits of three ranks (three copies of rank 1, two of   *)
(* rank 2, one of the 3), hands of two cards, or of three when some have had *)
(* their last turn; we are player 0 and to move.                             *)
EXTENDS Endgame

MCCopies == [id \in Ids |-> 4 - id[2]]

Of(cards, id) == Cardinality({k \in DOMAIN cards : cards[k] = id})

Rest(cards, stacks, discards) ==
  [id \in Ids |-> MCCopies[id] - Of(cards, id) - Of(discards, id)
                  - (IF stacks[id[1]] >= id[2] THEN 1 ELSE 0)]

\* The orders of player i's hand, newest first, if each of the first n players
\* has three cards and the others have two.
HandOf(i, n) ==
  IF i < n THEN <<3 * i + 2, 3 * i + 1, 3 * i>> ELSE <<2 * i + n + 1, 2 * i + n>>

Hands(n) == [i \in Players |-> HandOf(i, n)]

Dealing(n) == HandOf(0, n) \o HandOf(1, n) \o HandOf(2, n)

\* cards: the identities of the hands, one hand after the other, newest first; the
\* rest is in the deck.  Players who have three cards have not had their last turn.
Position0(cards, n, stacks, discards, tokens, known, rest) ==
  [hands |-> Hands(n),
   deck  |-> [o \in Orders |-> IF \E k \in DOMAIN cards : Dealing(n)[k] = o
                               THEN cards[CHOOSE k \in DOMAIN cards : Dealing(n)[k] = o] ELSE NoId],
   stacks |-> stacks, discards |-> [id \in Ids |-> Of(discards, id)],
   maxes |-> [s \in Suits |-> MaxRank],
   tokens |-> tokens, strikes |-> 0, left |-> Sum(rest),
   turns |-> IF Sum(rest) > 0 THEN -1 ELSE IF n = 0 THEN NumPlayers ELSE n,
   top |-> Len(cards) - 1, turn |-> 0, rest |-> rest, known |-> known, clues |-> 0]

\* The hands are dealt from a pool of the cards that are neither played nor
\* discarded: from every place of it, with the cards i and j exchanged.
Deals(pool, size, swaps) ==
  LET n == Len(pool)
      Swapped(i, j, k) == IF k = i THEN j ELSE IF k = j THEN i ELSE k
  IN  {[k \in 1 .. size |-> pool[((Swapped(w[1], w[2], k) + r) % n) + 1]] :
         r \in 1 .. n, w \in swaps}

Dealt(pool, swaps, stacks, discards, tokens, knowns) ==
  {Position0(d, 0, stacks, discards, tokens, known, Rest(d, stacks, discards)) :
     d \in Deals(pool, 6, swaps), known \in knowns}

\* Two cards are left; each suit needs its 2 and 3, or one suit all its cards.
TwoLeft ==
  Dealt(<<<<0, 2>>, <<0, 2>>, <<0, 3>>, <<1, 3>>, <<0, 1>>, <<1, 2>>, <<1, 1>>, <<1, 2>>>>,
        {<<1, 1>>}, [s \in Suits |-> 1], <<<<0, 1>>, <<1, 1>>>>, 1, {{}, {1, 3, 5}}) \cup
  Dealt(<<<<1, 1>>, <<1, 1>>, <<1, 1>>, <<1, 2>>, <<0, 1>>, <<1, 2>>, <<0, 2>>, <<1, 3>>>>,
        {<<1, 1>>, <<4, 7>>}, [s \in Suits |-> 3 - 3 * s], <<<<0, 1>>>>, 0, {{1, 3}})

\* One card is left, and a suit is missing, with copies of its 1 and 2.
OneLeft ==
  Dealt(<<<<0, 2>>, <<0, 2>>, <<0, 3>>, <<1, 3>>, <<0, 1>>, <<1, 2>>, <<1, 1>>>>,
        {<<1, 1>>, <<1, 4>>}, [s \in Suits |-> s + 1], <<<<0, 1>>, <<1, 1>>>>, 1, {{}, {1, 3, 5}}) \cup
  Dealt(<<<<1, 1>>, <<1, 1>>, <<1, 2>>, <<1, 2>>, <<1, 3>>, <<0, 1>>, <<0, 2>>>>,
        {<<1, 1>>, <<2, 3>>}, [s \in Suits |-> 3 - 3 * s], <<<<0, 1>>, <<1, 1>>>>, 0, {{1, 3}})

\* The deck is empty; in the last of these positions the game is won.
NoneLeft ==
  Dealt(<<<<0, 2>>, <<0, 2>>, <<0, 3>>, <<1, 3>>, <<1, 2>>, <<0, 1>>>>,
        {<<1, 1>>, <<1, 3>>, <<2, 6>>}, [s \in Suits |-> s + 1], <<<<0, 1>>, <<1, 1>>, <<1, 1>>>>, 1,
        {{0}, {0, 1, 2, 3, 4, 5}}) \cup
  Dealt(<<<<0, 1>>, <<0, 1>>, <<0, 2>>, <<1, 1>>, <<1, 1>>, <<1, 2>>>>,
        {<<1, 1>>}, [s \in Suits |-> 3], <<>>, 1, {0 .. 5})

\* The last player has had the last turn; each suit needs its 3.
OneMoved ==
  LET pool   == <<<<0, 1>>, <<0, 2>>, <<1, 2>>, <<0, 3>>, <<1, 3>>, <<1, 1>>, <<1, 1>>, <<0, 1>>>>
      stacks == [s \in Suits |-> 2]
  IN  {Position0(d, 2, stacks, <<>>, 1, known, Rest(d, stacks, <<>>)) :
         d \in Deals(pool, 8, {<<1, 1>>, <<2, 5>>}), known \in {{}, 3 .. 7}}

MCRoots == TwoLeft \cup OneLeft \cup NoneLeft \cup OneMoved

MCGuesses == {<<0, 2>>}
=============================================================================
