----------------------------- MODULE MCRewind ------------------------------
(* Two players with two cards each and a suit of three ranks; we are player 0  *)
(* and hold the orders 0 and 1, the partner 2 and 3.                           *)
EXTENDS Rewind

MCCopies == [id \in Ids |-> IF id[2] = 1 THEN 3 ELSE IF id[2] = 2 THEN 2 ELSE 1]

MCDeck == [o \in Orders |->
             <<<<0, 2>>, <<0, 1>>, <<0, 1>>, <<0, 3>>, <<0, 1>>, <<0, 2>>>>[o + 1]]

GiveClue == [type |-> "clue", order |-> 0]
Play(o)  == [type |-> "play", order |-> o]
Toss(o)  == [type |-> "discard", order |-> o]

\* Clues each way and a play of ours; our misplay, then a clue about the card we
\* drew; our play, the partner's discard, and our misplay of the new card.
Clued      == <<GiveClue, GiveClue, Play(1)>>
Misplayed  == <<Play(0), GiveClue, Toss(4)>>
Unclued    == <<Play(1), Toss(3), Play(4)>>
MCGames    == {Clued, Misplayed, Unclued}
MCRequests == [g \in MCGames |-> IF g = Clued THEN 1 ELSE 3]
=============================================================================
