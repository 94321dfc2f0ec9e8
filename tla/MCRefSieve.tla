------------------------------ MODULE MCRefSieve ------------------------------
(* A small table of the Referential Sieve: plain suits, two ones of each and *)
(* one card of every other rank.                                             *)
EXTENDS RefSieve

MCCopies == [id \in Ids |-> IF id[2] = 1 THEN 2 ELSE 1]

MCClues == [type : {"colour"}, value : Suits] \cup [type : {"rank"}, value : Ranks]

MCClueIds == [clue \in MCClues |-> IF clue.type = "colour" THEN {clue.value} \X Ranks
                                   ELSE Suits \X {clue.value}]

MCShuffles == {d \in Decks : /\ d[0] = <<0, 2>> /\ d[1] = <<0, 1>> /\ d[2] = <<1, 3>>
                             /\ d[3] = <<1, 1>> /\ d[4] = <<1, 2>> /\ d[5] = <<0, 1>>
                             /\ d[6] = <<0, 3>>}
=============================================================================
