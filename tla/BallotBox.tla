------------------------------ MODULE BallotBox ------------------------------
(***************************************************************************)
(* What an Aggios election promises its voters, without lists, indices,    *)
(* partitions or proofs: a voter delegates once, to one aggregator; its    *)
(* latest ballot is the one its delegate holds; the roll of an aggregator  *)
(* is fixed once and for all; and what an aggregator publishes are the     *)
(* ballots its roll holds at that moment, each counted once and exactly.   *)
(*                                                                         *)
(* Who calls what, and when (phases, requests, the board), is left open.   *)
(***************************************************************************)
EXTENDS Naturals, FiniteSets

CONSTANTS Voters, Aggregators, CandidateIds, None

VARIABLES
    delegate,  \* per voter: its aggregator
    ballot,    \* per voter: its latest ballot
    roll,      \* per aggregator: the voters it may count, once fixed
    counts,    \* per aggregator: the tally it last published
    accepted   \* aggregators whose tally the validator accepted

ballotVars == <<delegate, ballot, roll, counts, accepted>>

Init ==
    /\ delegate = [v \in Voters |-> None]
    /\ ballot = [v \in Voters |-> None]
    /\ roll = [a \in Aggregators |-> None]
    /\ counts = [a \in Aggregators |-> None]
    /\ accepted = {}

Delegate(v, a) ==
    /\ delegate[v] = None
    /\ roll[a] = None
    /\ delegate' = [delegate EXCEPT ![v] = a]
    /\ UNCHANGED <<ballot, roll, counts, accepted>>

Cast(v, c) ==
    /\ delegate[v] # None
    /\ ballot' = [ballot EXCEPT ![v] = c]
    /\ UNCHANGED <<delegate, roll, counts, accepted>>

FixRoll(a) ==
    /\ roll[a] = None
    /\ roll' = [roll EXCEPT ![a] = {v \in Voters : delegate[v] = a}]
    /\ UNCHANGED <<delegate, ballot, counts, accepted>>

Publish(a) ==
    /\ roll[a] # None
    /\ counts' = [counts EXCEPT ![a] =
          [c \in CandidateIds |-> Cardinality({v \in roll[a] : ballot[v] = c})]]
    /\ UNCHANGED <<delegate, ballot, roll, accepted>>

\* Validation never turns an honest tally down, one aggregator at a time or all at once.
Accept(S) ==
    /\ \A a \in S : counts[a] # None
    /\ accepted' = accepted \cup S
    /\ UNCHANGED <<delegate, ballot, roll, counts>>

Next ==
    \/ \E v \in Voters, a \in Aggregators : Delegate(v, a)
    \/ \E v \in Voters, c \in CandidateIds : Cast(v, c)
    \/ \E a \in Aggregators : FixRoll(a) \/ Publish(a)
    \/ \E S \in SUBSET Aggregators : Accept(S)

Spec == Init /\ [][Next]_ballotVars
=============================================================================
