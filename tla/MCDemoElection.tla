--------------------------- MODULE MCDemoElection ---------------------------
(* Small instances of DemoElection for TLC. *)
EXTENDS DemoElection

CONSTANTS a1, a2, c1, c2

TwoCandidates    == <<c1, c2>>
TwoAggregators   == <<a1, a2>>
OneAggregator    == <<a1>>
SameAggregatorTwice == <<a1, a1>>
SmallDomains     == {2^k : k \in 0..4}

\* All but the bulletin board, which no handler reads and which only grows.
ElectionView ==
    <<phase, next_voter, registered_with, vote, registered, finalized,
      registration_valid, tally_post, verification>>

\* The board enters the view only through what decides the board properties of a state
\* and of its successors: whether they hold so far, and for each aggregator whether its
\* latest tally was followed by a verification result.  When BoardTellsState holds,
\* everything else that later checks look up on the board is part of the state.
BoardView ==
    <<ElectionView,
      [a \in Aggregators |->
          \E i \in EventsOf("verification_result", a) :
             \A j \in EventsOf("tally_post", a) : j < i],
      BoardTellsState, GlobalTallyAuditable>>
=============================================================================
