------------------------------ MODULE Connecting ------------------------------
(***************************************************************************)
(* src/conventions/ref-sieve/connecting-cards.js: the cards that have to   *)
(* be played before an identity can be, as the players after the giver of  *)
(* a clue will play them.                                                  *)
(***************************************************************************)
EXTENDS Basics

NoConnection == [type |-> "none"]

Connection(type, p, o, id) == [type |-> type, reacting |-> p, order |-> o, identities |-> {id}]

\* getIgnoreOrders: the cards that a rewind asked to ignore as first connection
IgnoreOrders(game, id) ==
  IF id[2] # game.state.play_stacks[id[1]] + 1 THEN {}
  ELSE {i.order : i \in {n \in game.next_ignore : n.inference[1] = id[1]}}

-----------------------------------------------------------------------------
(* find_connecting: a card of player p that is known, playable, prompted   *)
(* or finessed as id.                                                      *)

KnownConnecting(game, p, id, connected) ==
  Newest({o \in game.state.hands[p] \ connected : InferMatches(game.common.thoughts[o], id)})

PlayableConnecting(game, p, id, connected) ==
  Newest({o \in game.state.hands[p] \ connected :
            LET c == game.common.thoughts[o]
            IN  /\ BlindPlaying(c) \/ \A i \in c.possible : IsPlayable(game.state, i)
                /\ id \in c.inferred})

\* A prompt that is wrong as far as we see hides the finesse behind it.
BlindConnecting(game, p, id, connected, ignored) ==
  LET st      == game.state
      prompt  == FindPrompt(game.common, st, p, id, connected)
      finesse == FindFinesse(game.common, st, p, connected)
  IN  IF prompt # NoOrder /\ ~DeckMatches(st, prompt, id) THEN NoConnection
      ELSE IF prompt # NoOrder /\ prompt \notin ignored THEN Connection("prompt", p, prompt, id)
      ELSE IF finesse # NoOrder /\ DeckMatches(st, finesse, id) /\ finesse \notin ignored
      THEN Connection("finesse", p, finesse, id)
      ELSE NoConnection

FindConnecting(game, p, id, connected, looksDirect) ==
  LET ignored  == IgnoreOrders(game, id)
      known    == KnownConnecting(game, p, id, connected)
      playable == PlayableConnecting(game, p, id, connected)
  IN  IF known # NoOrder /\ known \notin ignored THEN Connection("known", p, known, id)
      ELSE IF playable # NoOrder /\ DeckMatches(game.state, playable, id) /\ playable \notin ignored
      THEN Connection("playable", p, playable, id)
      ELSE IF looksDirect \/ playable # NoOrder THEN NoConnection
      ELSE BlindConnecting(game, p, id, connected, ignored)

-----------------------------------------------------------------------------
(* connect and find_own_finesses.  A search is for the connections to card *)
(* order as identity, after a clue of giver to target; unknown if the      *)
(* target does not know the card.                                          *)

Search(order, id, giver, target, unknown) ==
  [order |-> order, id |-> id, giver |-> giver, target |-> target, unknown |-> unknown]

OrdersOf(conns) == {conns[k].order : k \in DOMAIN conns}

Extended(conns, conn) == IF conn = NoConnection THEN conns ELSE Append(conns, conn)

\* the next identity to connect
NextId(st, s, conns) == <<s.id[1], st.play_stacks[s.id[1]] + 1 + Len(conns)>>

Outcome(st, s, conns) == [success |-> NextId(st, s, conns) = s.id, connections |-> conns]

RECURSIVE ConnectFrom(_, _, _, _, _)

\* After player p was asked: the search ends at the target, unless the target
\* knows the card and something was found since it was last asked.
ConnectOn(game, s, p, looped, conns, conn) ==
  LET again == looped /\ conn = NoConnection
  IN  IF p = s.target /\ (s.unknown \/ again)
      THEN Outcome(game.state, s, Extended(conns, conn))
      ELSE ConnectFrom(game, s, NextPlayerIndex(p), p = s.target \/ again, Extended(conns, conn))

ConnectFrom(game, s, p, looped, conns) ==
  LET id == NextId(game.state, s, conns)
  IN  IF id = s.id THEN Outcome(game.state, s, conns)
      ELSE ConnectOn(game, s, p, looped, conns,
                     FindConnecting(game, p, id, {s.order} \cup OrdersOf(conns),
                                    s.unknown /\ p = s.target))

Connect(game, s) == ConnectFrom(game, s, NextPlayerIndex(s.giver), FALSE, << >>)

\* find_own_connecting: a card of ours
OwnConnecting(game, s, id, conns) ==
  LET st       == game.state
      us       == st.ourPlayerIndex
      ignored  == IgnoreOrders(game, id)
      playable == Newest({o \in st.hands[us] :
                            LET c == game.players[us].thoughts[o]
                            IN  /\ BlindPlaying(c) \/ \A i \in c.inferred : IsPlayable(st, i)
                                /\ id \in c.inferred})
      prompt   == FindPrompt(game.common, st, us, id, OrdersOf(conns))
      finesse  == FindFinesse(game.common, st, us, OrdersOf(conns))
  IN  IF playable # NoOrder /\ playable \notin ignored THEN Connection("playable", us, playable, id)
      ELSE IF s.unknown /\ us = s.target THEN NoConnection
      ELSE IF prompt # NoOrder /\ prompt \notin ignored THEN Connection("prompt", us, prompt, id)
      ELSE IF finesse # NoOrder /\ finesse \notin ignored THEN Connection("finesse", us, finesse, id)
      ELSE NoConnection

\* inBetween: player p is after giver, and not after target.
InBetween(p, giver, target) ==
  (p - giver + NumPlayers) % NumPlayers \in 1 .. (target - giver + NumPlayers) % NumPlayers

AsksUs(st, s, p) == p = s.target /\ (~s.unknown \/ InBetween(st.ourPlayerIndex, s.giver, s.target))

RECURSIVE OwnFrom(_, _, _, _, _)

\* The target has been asked for id: our hand is tried for it, even if the target
\* has it, and the search goes on after us.
OwnAfter(game, s, p, id, looped, conns) ==
  LET us  == game.state.ourPlayerIndex
      own == IF AsksUs(game.state, s, p) THEN OwnConnecting(game, s, id, conns) ELSE NoConnection
  IN  IF own # NoConnection
      THEN OwnFrom(game, s, NextPlayerIndex(us), FALSE, Append(conns, own))
      ELSE IF p = s.target /\ (s.unknown \/ looped) THEN Outcome(game.state, s, conns)
      ELSE OwnFrom(game, s, NextPlayerIndex(p), p = s.target \/ looped, conns)

OwnOn(game, s, p, id, looped, conns, conn) ==
  OwnAfter(game, s, p, id, looped /\ conn = NoConnection, Extended(conns, conn))

\* No card has a rank past the last, which bounds the search once id is passed.
OwnFrom(game, s, p, looped, conns) ==
  LET id == NextId(game.state, s, conns)
  IN  IF id = s.id \/ id[2] > MaxRank THEN Outcome(game.state, s, conns)
      ELSE OwnOn(game, s, p, id, looped, conns,
                 FindConnecting(game, p, id, {s.order} \cup OrdersOf(conns),
                                (s.unknown /\ p = s.target) \/ p = s.giver))

FindOwnFinesses(game, s) == OwnFrom(game, s, NextPlayerIndex(s.giver), FALSE, << >>)
=============================================================================
