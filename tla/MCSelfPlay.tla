----------------------------- MODULE MCSelfPlay -----------------------------
(* A small table for SelfPlay: three copies of one of the ones, two of the   *)
(* other, a single copy of every rank above.  Of the decks those are taken   *)
(* that deal a card of each suit to each of the two players.                 *)
EXTENDS SelfPlay

MCCopies == [id \in Ids |-> IF id[2] > 1 THEN 1 ELSE IF id[1] = 0 THEN 3 ELSE 2]

MCShuffles == {d \in Decks : \A o \in 0 .. 3 : d[o][1] = o % 2}
=============================================================================
