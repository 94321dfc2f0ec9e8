------------------------------ MODULE MCEmpathy ------------------------------
(* A small table for Empathy: plain suits, two copies of every one and a     *)
(* single copy of every other rank.                                          *)
EXTENDS Empathy

MCCopies == [id \in Ids |-> IF id[2] > 1 THEN 1 ELSE 2]

MCClues == {{s} \X Ranks : s \in Suits} \cup {Suits \X {r} : r \in Ranks}

\* The first card is a one of suit 0, the last one a one of suit 1.
MCShuffles == {d \in Decks : d[0] = <<0, 1>> /\ d[5] = <<1, 1>>}
=============================================================================
