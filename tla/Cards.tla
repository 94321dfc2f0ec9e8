-------------------------------- MODULE Cards --------------------------------
(***************************************************************************)
(* What a player thinks about a card: class Card of src/basics/Card.js,    *)
(* and the record a Player of src/basics/Player.js keeps for all of them.  *)
(* A field that holds undefined holds NoSet, NoStatus or NoTouch here.     *)
(* finesse_ids, rewind_ids, maybe_layered, assume_playable and             *)
(* chop_when_first_clued are only set by the H-Group conventions and are   *)
(* left out; of reasoning_turn, the last turn is kept.                     *)
(***************************************************************************)
EXTENDS Engine, Sequences, SequencesExt

\* Suits are counted from 0.
ASSUME SuitsAssumption == Suits \subseteq Nat

Common == -1                  \* playerIndex of common knowledge

NoSet    == {NoId}
NoStatus == "none"
NoTouch  == [giver |-> -1, turn |-> -1]
NoOrder  == -1

CARD_STATUS == {"CLUED", "FINESSED", "BLUFFED", "F_MAYBE_BLUFF", "CM",
                "CALLED_TO_PLAY", "CALLED_TO_DC", "GD"}

\* A clue as it was given: type, value, giver and turn.
GivenClue == [type : {"colour", "rank"}, value : Int, giver : Players, turn : Nat]

\* id: suitIndex and rank, the identity this player sees or was told.
Card ==
  [id : Ids \cup {NoId},
   possible : SUBSET Ids, inferred : SUBSET Ids,
   old_inferred : (SUBSET Ids) \cup {NoSet}, info_lock : (SUBSET Ids) \cup {NoSet},
   status : CARD_STATUS \cup {NoStatus}, last_status : CARD_STATUS \cup {NoStatus},
   clued : BOOLEAN, newly_clued : BOOLEAN, clues : Seq(GivenClue),
   firstTouch : [giver : Players \cup {-1}, turn : Nat \cup {-1}],
   focused : BOOLEAN, reset : BOOLEAN, superposition : BOOLEAN, hidden : BOOLEAN,
   certain_finessed : BOOLEAN, trash : BOOLEAN, uncertain : BOOLEAN, known : BOOLEAN,
   permission_to_discard : BOOLEAN, rewinded : BOOLEAN,
   finesse_index : Int, reasoning_turn : Nat \cup {-1}]

\* The constructor of Card.
NewCard(ids, id) ==
  [id |-> id, possible |-> ids, inferred |-> ids, old_inferred |-> NoSet, info_lock |-> NoSet,
   status |-> NoStatus, last_status |-> NoStatus,
   clued |-> FALSE, newly_clued |-> FALSE, clues |-> <<>>, firstTouch |-> NoTouch,
   focused |-> FALSE, reset |-> FALSE, superposition |-> FALSE, hidden |-> FALSE,
   certain_finessed |-> FALSE, trash |-> FALSE, uncertain |-> FALSE, known |-> FALSE,
   permission_to_discard |-> FALSE, rewinded |-> FALSE,
   finesse_index |-> -1, reasoning_turn |-> -1]

-----------------------------------------------------------------------------
(* Getters *)

Only(S) == CHOOSE x \in S : TRUE

Possibilities(c) == IF c.inferred = {} THEN c.possible ELSE c.inferred

Touched(c) ==
  c.known \/ c.status \in {"CLUED", "FINESSED", "BLUFFED", "F_MAYBE_BLUFF", "CALLED_TO_PLAY", "GD"}

Saved(c) == Touched(c) \/ c.status = "CM"

BlindPlaying(c) == c.status \in {"FINESSED", "BLUFFED", "CALLED_TO_PLAY"}

Symmetric(c) == IF Cardinality(c.possible) = 1 THEN Only(c.possible) ELSE NoId

\* identity(), without options
Identity(c) == IF Symmetric(c) # NoId THEN Symmetric(c) ELSE c.id

FromInference(c) ==
  IF c.info_lock # NoSet /\ Cardinality(c.info_lock) = 1 THEN Only(c.info_lock)
  ELSE IF Cardinality(c.inferred) = 1 THEN Only(c.inferred)
  ELSE NoId

\* identity({ infer: true, symmetric }): what the card is, by its inferences at last.
InferredIdentity(c, symmetric) ==
  LET known == IF symmetric THEN Symmetric(c) ELSE Identity(c)
  IN  IF known # NoId THEN known ELSE FromInference(c)

\* matches(id, { infer: true })
InferMatches(c, id) == id # NoId /\ InferredIdentity(c, FALSE) = id

-----------------------------------------------------------------------------
(* Updates *)

UpdateStatus(c, status) == [c EXCEPT !.last_status = c.status, !.status = status]

RevertStatus(c) ==
  [c EXCEPT !.status = IF c.clued THEN "CLUED" ELSE c.last_status, !.last_status = NoStatus]

\* the identities locked onto c can still be
Lockable(c) == c.info_lock # NoSet /\ c.info_lock \cap c.possible # {}

BrokenLock(c) == c.info_lock # NoSet /\ c.info_lock \cap c.possible = {}

\* reset_inferences of a finessed card goes back to what was inferred before.
Unfinessed(c) ==
  [RevertStatus(c) EXCEPT
     !.hidden    = FALSE,
     !.info_lock = IF BrokenLock(c) THEN NoSet ELSE @,
     !.inferred  = IF Lockable(c) THEN c.info_lock
                   ELSE IF c.old_inferred # NoSet THEN c.old_inferred \cap c.possible
                   ELSE c.possible]

\* Any other card is locked on what is left of its lock, or on its possibilities.
Relocked(c) ==
  LET left == IF Lockable(c) THEN c.info_lock \cap c.possible ELSE c.possible
  IN  [c EXCEPT !.inferred  = left,
                !.info_lock = IF BrokenLock(c) THEN NoSet ELSE left]

ResetInferences(c) ==
  [(IF c.status = "FINESSED" THEN Unfinessed(c) ELSE Relocked(c))
     EXCEPT !.reset = TRUE, !.known = FALSE]

-----------------------------------------------------------------------------
(* Cards in hands.  A hand is iterated from its newest card on. *)

\* find and findLast over the cards S of a hand
Newest(S) == IF S = {} THEN NoOrder ELSE CHOOSE o \in S : \A q \in S : q <= o
Oldest(S) == IF S = {} THEN NoOrder ELSE CHOOSE o \in S : \A q \in S : o <= q

NewestFirst(S) == SelectSeq([k \in 1 .. DeckSize |-> DeckSize - k], LAMBDA o : o \in S)

\* The cards in hands in the order the loops visit them: players in turn.
Slots(st) ==
  FlattenSeq([i \in 1 .. NumPlayers |->
                LET hand == NewestFirst(st.hands[i - 1])
                IN  [k \in DOMAIN hand |-> [order |-> hand[k], playerIndex |-> i - 1]]])

Held(st) == UNION {st.hands[p] : p \in Players}

HeldBy(st, o) == CHOOSE p \in Players : o \in st.hands[p]

\* state.playableAway
PlayableAway(st, id) == id[2] - (st.play_stacks[id[1]] + 1)

Useful(st, id) == st.play_stacks[id[1]] < id[2] /\ id[2] <= st.max_ranks[id[1]]

\* state.hasConsistentInferences
HasConsistentInferences(st, o, c) ==
  st.deck[o] = NoId \/ Cardinality(c.possible) = 1 \/ st.deck[o] \in c.inferred

\* The bit of an IdentitySet that stands for id: with a rank past the last one, it
\* is that of the first rank of the next suit.
Masked(id) == IF id[2] <= MaxRank THEN id ELSE <<id[1] + 1, 1>>

\* The elements of S in the order of their keys, no two of which are equal.
Ordered(S, key) ==
  [k \in 1 .. Cardinality(S) |->
     CHOOSE x \in S : Cardinality({y \in S : key[y] < key[x]}) = k - 1]

\* By suit and rank.
IdNumber == [id \in Ids |-> id[1] * MaxRank + id[2]]

\* IdentitySet.array
InOrder(ids) == Ordered(ids, IdNumber)
=============================================================================
