---------------------------- MODULE MCPlayfulSieve ----------------------------
(* A small table of the Playful Sieve: plain suits, two ones of each and one *)
(* card of every other rank.                                                 *)
EXTENDS PlayfulSieve

MCCopies == [id \in Ids |-> IF id[2] = 1 THEN 2 ELSE 1]

MCClues == [type : {"colour"}, value : Suits] \cup [type : {"rank"}, value : Ranks]

MCClueIds == [clue \in MCClues |-> IF clue.type = "colour" THEN {clue.value} \X Ranks
                                   ELSE Suits \X {clue.value}]

\* Two deals.  In the first, player 1 has playable cards next to each other; in the second
\* a colour clue to its oldest card locks it, and player 0 has a card to play.
MCShuffles ==
  {d \in Decks :
     \/ /\ d[0] = <<0, 2>> /\ d[1] = <<0, 1>> /\ d[2] = <<1, 3>>
        /\ d[3] = <<1, 1>> /\ d[4] = <<1, 2>> /\ d[5] = <<0, 1>>
        /\ d[6] = <<0, 3>>
     \/ /\ d[0] = <<1, 2>> /\ d[1] = <<1, 3>> /\ d[2] = <<0, 1>>
        /\ d[3] = <<1, 1>> /\ d[4] = <<0, 1>> /\ d[5] = <<0, 2>>
        /\ d[6] = <<1, 1>>}
=============================================================================
