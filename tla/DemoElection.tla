---------------------------- MODULE DemoElection ----------------------------
(***************************************************************************)
(* One election of the demo server: the ElectionState of demo.rs and every *)
(* handler of DemoState that changes it.  A handler runs to its end while  *)
(* its caller holds the lock on DemoState, so a handler is one action; a   *)
(* request that the handler refuses leaves the state alone.                *)
(*                                                                         *)
(* Initially the election has just been created.  Voter "voter-n" is the   *)
(* number n.  The bulletin board is a sequence, its seq the position less  *)
(* one; timestamps, texts and timings are left out.                        *)
(***************************************************************************)
EXTENDS Tally

CONSTANTS
    None,        \* the None of an Option field
    Stranger,    \* an id that names no aggregator and no candidate
    MaxVoters,   \* bound: voters an election may get
    BatchSizes,  \* the counts that requests for new voters ask for
    PhaseNames,  \* the phase names that requests ask for
    MaxBulletin  \* bound: length of the bulletin board

CandidateIds == {Candidates[j] : j \in DOMAIN Candidates}

Voters == 1..MaxVoters

Phases == {"setup", "registration", "voting", "tally", "closed"}

\* Ids are distinct (template ids, or "opt-<i>"), and some domain is large enough.
ASSUME CandidatesAssumption ==
    /\ Candidates \in Seq(CandidateIds)
    /\ \A i, j \in DOMAIN Candidates : Candidates[i] = Candidates[j] => i = j

ASSUME AggregatorsAssumption == AggregatorList \in Seq(Aggregators)

ASSUME IdsAssumption ==
    /\ None \notin Aggregators \cup CandidateIds
    /\ Stranger \notin Aggregators \cup CandidateIds

ASSUME BoundsAssumption ==
    /\ MaxVoters \in Nat
    /\ BatchSizes \subseteq Nat
    /\ MaxBulletin \in Nat

ASSUME DomainSizesAssumption ==
    /\ DomainSizes \subseteq Nat
    /\ \E n \in DomainSizes : n >= MaxVoters /\ n >= num_partitions + 1

\* None is no truth value, no verification result, no post of an honest aggregator, with
\* whatever list and ballots, and no value the abstract specification has for such posts.
ASSUME NoneAssumption ==
    /\ None \notin [aggregator_id : Aggregators, valid : BOOLEAN]
    /\ None \notin BOOLEAN
    /\ None \notin [CandidateIds -> Nat]
    /\ \A S \in SUBSET Voters : None # S
    /\ \A a \in Aggregators : \A k \in 0..MaxVoters : \A vs \in [1..k -> Voters] :
          LET list == [i \in 1..k |-> RegisteredVoter(vs[i], sign_delegation(vs[i], a), skv(vs[i]))]
              post == finalize_registration(a, list)
          IN  /\ None # post
              /\ \A S \in SUBSET Voters : \A votes \in [S -> CandidateIds] :
                    None # build_and_prove_tally(post, list, votes)

VARIABLES
    phase,               \* params.phase
    next_voter,          \* voters 1..next_voter exist
    registered_with,     \* per voter: the aggregator it delegated to
    vote,                \* per voter: the ballot its aggregator holds
    registered,          \* per aggregator: accepted voters, in order of registration
    finalized,           \* per aggregator: its registration post
    registration_valid,  \* per aggregator: what validating that post gave
    tally_post,          \* per aggregator: its tally and proof
    verification,        \* per aggregator: the last verification result
    bulletin             \* the public log

vars == <<phase, next_voter, registered_with, vote, registered, finalized,
          registration_valid, tally_post, verification, bulletin>>

-----------------------------------------------------------------------------
(* The bulletin board. *)

ElectionCreated        == [kind |-> "election_created"]
PhaseChanged(p)        == [kind |-> "phase_changed", phase |-> p]
VoterRegistered(v, a)  == [kind |-> "voter_registered", voter_id |-> v, aggregator_id |-> a]
RegistrationPost(f)    == [kind |-> "registration_post", aggregator_id |-> f.aggregator_id,
                           post |-> f]
RegistrationValidated(a, ok) ==
    [kind |-> "registration_validated", aggregator_id |-> a, valid |-> ok]
TallyPosted(p)         == [kind |-> "tally_post", aggregator_id |-> p.aggregator_id, post |-> p]
VerificationResult(r)  == [kind |-> "verification_result", aggregator_id |-> r.aggregator_id,
                           valid |-> r.valid]
GlobalTally(t, dups)   == [kind |-> "global_tally", tally |-> t, duplicate_voters |-> dups]

\* Mutant: the newest event first.
post_bulletin_newest_first(events) ==
    /\ Len(bulletin) + Len(events) <= MaxBulletin
    /\ bulletin' = events \o bulletin

post_bulletin(events) ==
    /\ Len(bulletin) + Len(events) <= MaxBulletin
    /\ bulletin' = bulletin \o events

-----------------------------------------------------------------------------
(* What handlers read. *)

\* Mutant: ballots are only there while voting is open.
VotesHeldBy_while_voting(a) ==
    [v \in {w \in 1..next_voter :
               phase = "voting" /\ registered_with[w] = a /\ vote[w] # None} |-> vote[v]]

\* HashMap of the ballots of the voters that delegated to a.
VotesHeldBy(a) ==
    [v \in {w \in 1..next_voter : registered_with[w] = a /\ vote[w] # None} |-> vote[v]]

AggregatorVerification(a, ok) == [aggregator_id |-> a, valid |-> ok]

\* The values of f for the ids of AggregatorList, in its order, leaving out None.
Collect(f) ==
    LET present == {i \in DOMAIN AggregatorList : f[AggregatorList[i]] # None}
    IN  ElementsAt([i \in DOMAIN AggregatorList |-> f[AggregatorList[i]]], present)

\* "verified_global_tally" of the election summary and of the public artifact.
published_global_tally == global_tally(Collect(tally_post), Collect(verification))

\* "proof_status" of the election summary.
proof_status(a) ==
    IF tally_post[a] # None
    THEN IF verification[a] = None THEN "proved"
         ELSE IF verification[a].valid THEN "verified" ELSE "rejected"
    ELSE IF finalized[a] # None THEN "ready" ELSE "pending"

-----------------------------------------------------------------------------
(* Handlers. *)

\* create_election leaves every field at its default and posts one event.
Init ==
    /\ phase = "setup"
    /\ next_voter = 0
    /\ registered_with = [v \in Voters |-> None]
    /\ vote = [v \in Voters |-> None]
    /\ registered = [a \in Aggregators |-> <<>>]
    /\ finalized = [a \in Aggregators |-> None]
    /\ registration_valid = [a \in Aggregators |-> None]
    /\ tally_post = [a \in Aggregators |-> None]
    /\ verification = [a \in Aggregators |-> None]
    /\ bulletin = <<ElectionCreated>>

set_phase(p) ==
    /\ p \in Phases
    /\ phase' = p
    /\ post_bulletin(<<PhaseChanged(p)>>)
    /\ UNCHANGED <<next_voter, registered_with, vote, registered, finalized,
                   registration_valid, tally_post, verification>>

demo_create_voters(count) ==
    /\ count \in 1..500
    /\ next_voter + count <= MaxVoters
    /\ next_voter' = next_voter + count
    /\ UNCHANGED <<phase, registered_with, vote, registered, finalized,
                   registration_valid, tally_post, verification, bulletin>>

\* Mutant: a voter may register again.
MayRegister_again(v, a) ==
    phase = "registration" /\ a \in Aggregators /\ v <= next_voter /\ finalized[a] = None

\* Mutant: a finalized aggregator takes more voters.
MayRegister_late(v, a) ==
    phase = "registration" /\ a \in Aggregators /\ v <= next_voter /\ registered_with[v] = None

\* What register_voter demands before anything is signed.
MayRegister(v, a) ==
    /\ phase = "registration"
    /\ a \in Aggregators
    /\ v <= next_voter
    /\ registered_with[v] = None
    /\ finalized[a] = None

register_voter(v, a) ==
    LET sigma == sign_delegation(v, a) IN
    /\ MayRegister(v, a)
    /\ accept_registration(a, v, sigma, skv(v))
    /\ registered' = [registered EXCEPT ![a] = Append(@, RegisteredVoter(v, sigma, skv(v)))]
    /\ registered_with' = [registered_with EXCEPT ![v] = a]
    /\ post_bulletin(<<VoterRegistered(v, a)>>)
    /\ UNCHANGED <<phase, next_voter, vote, finalized, registration_valid, tally_post,
                   verification>>

\* Mutant: any candidate id is taken.
cast_vote_unchecked(v, c) ==
    /\ phase = "voting"
    /\ v <= next_voter
    /\ registered_with[v] # None
    /\ vote' = [vote EXCEPT ![v] = c]
    /\ UNCHANGED <<phase, next_voter, registered_with, registered, finalized,
                   registration_valid, tally_post, verification, bulletin>>

cast_vote(v, c) ==
    /\ phase = "voting"
    /\ c \in CandidateIds
    /\ v <= next_voter
    /\ registered_with[v] # None
    /\ vote' = [vote EXCEPT ![v] = c]
    /\ UNCHANGED <<phase, next_voter, registered_with, registered, finalized,
                   registration_valid, tally_post, verification, bulletin>>

finalize_aggregator(a) ==
    /\ a \in Aggregators
    /\ finalized[a] = None
    /\ phase # "registration"
    /\ LET post == finalize_registration(a, registered[a])
           ok   == validate_finalized_registration(post, FALSE)
       IN  /\ finalized' = [finalized EXCEPT ![a] = post]
           /\ registration_valid' = [registration_valid EXCEPT ![a] = ok]
           /\ post_bulletin(<<RegistrationPost(post), RegistrationValidated(a, ok)>>)
    /\ UNCHANGED <<phase, next_voter, registered_with, vote, registered, tally_post,
                   verification>>

\* An earlier verification of a is kept.
prove_aggregator(a) ==
    /\ a \in Aggregators
    /\ finalized[a] # None
    /\ CanBuildTally(finalized[a], registered[a], VotesHeldBy(a))
    /\ LET post == build_and_prove_tally(finalized[a], registered[a], VotesHeldBy(a))
       IN  /\ tally_post' = [tally_post EXCEPT ![a] = post]
           /\ post_bulletin(<<TallyPosted(post)>>)
    /\ UNCHANGED <<phase, next_voter, registered_with, vote, registered, finalized,
                   registration_valid, verification>>

verify_aggregator(a) ==
    /\ a \in Aggregators
    /\ finalized[a] # None
    /\ tally_post[a] # None
    /\ LET result == AggregatorVerification(a, verify_aggregator_tally(finalized[a], tally_post[a]))
       IN  /\ verification' = [verification EXCEPT ![a] = result]
           /\ post_bulletin(<<VerificationResult(result)>>)
    /\ UNCHANGED <<phase, next_voter, registered_with, vote, registered, finalized,
                   registration_valid, tally_post>>

\* Re-validates every registration, verifies every tally there is, publishes the sum.
verify_all ==
    LET reg_ok(a)     == finalized[a] # None /\ validate_finalized_registration(finalized[a], FALSE)
        tallied       == ElementsAt(AggregatorList,
                             {i \in DOMAIN AggregatorList : /\ finalized[AggregatorList[i]] # None
                                                            /\ tally_post[AggregatorList[i]] # None})
        result(a)     == AggregatorVerification(a,
                             verify_aggregator_tally(finalized[a], tally_post[a]) /\ reg_ok(a))
        verifications == [i \in DOMAIN tallied |-> result(tallied[i])]
        tally_posts   == [i \in DOMAIN tallied |-> tally_post[tallied[i]]]
        duplicates    == check_no_duplicate_voters(Collect(finalized))
    IN  /\ verification' = [a \in Aggregators |->
                               IF finalized[a] # None /\ tally_post[a] # None
                               THEN result(a) ELSE verification[a]]
        /\ post_bulletin(
               [i \in DOMAIN verifications |-> VerificationResult(verifications[i])]
               \o <<GlobalTally(global_tally(tally_posts, verifications), duplicates)>>)
        /\ UNCHANGED <<phase, next_voter, registered_with, vote, registered, finalized,
                       registration_valid, tally_post>>

\* Summary, list, board, proof, receipt and public artifact only read.
ReadRequest == UNCHANGED vars

Next ==
    \/ \E p \in PhaseNames : set_phase(p)
    \/ \E count \in BatchSizes : demo_create_voters(count)
    \/ \E v \in Voters, a \in Aggregators \cup {Stranger} : register_voter(v, a)
    \/ \E v \in Voters, c \in CandidateIds \cup {Stranger} : cast_vote(v, c)
    \/ \E a \in Aggregators \cup {Stranger} :
          \/ finalize_aggregator(a)
          \/ prove_aggregator(a)
          \/ verify_aggregator(a)
    \/ verify_all
    \/ ReadRequest

Spec == Init /\ [][Next]_vars

-----------------------------------------------------------------------------
(* Types. *)

RegisteredVoters ==
    [voter_id : Voters, sigma : Voters \X Aggregators, skv : {skv(v) : v \in Voters}]

VoterTypes ==
    /\ phase \in Phases
    /\ next_voter \in 0..MaxVoters
    /\ registered_with \in [Voters -> Aggregators \cup {None}]
    /\ vote \in [Voters -> CandidateIds \cup {None}]
    /\ registered \in [Aggregators -> Seq(RegisteredVoters)]

RegistrationPostTypes ==
    /\ DOMAIN finalized = Aggregators
    /\ \A a \in Aggregators : finalized[a] # None =>
          /\ finalized[a].aggregator_id = a
          /\ finalized[a].domain_size \in DomainSizes
          /\ finalized[a].real_registered_count + finalized[a].pad_count
                = finalized[a].domain_size
          /\ finalized[a].pad_count \in Nat
    /\ registration_valid \in [Aggregators -> BOOLEAN \cup {None}]

TallyTypes ==
    /\ DOMAIN tally_post = Aggregators
    /\ \A a \in Aggregators : tally_post[a] # None => tally_post[a].aggregator_id = a
    /\ verification \in
          [Aggregators -> [aggregator_id : Aggregators, valid : BOOLEAN] \cup {None}]
    /\ \A a \in Aggregators : verification[a] # None => verification[a].aggregator_id = a

\* Every field holds a value of its Rust type; a post belongs to the aggregator it is
\* stored under, its domain size is a power of two with a slot for every voter record.
TypeOK == VoterTypes /\ RegistrationPostTypes /\ TallyTypes

-----------------------------------------------------------------------------
(* Safety. *)

\* Each voter delegates to at most one aggregator: the private lists of the aggregators
\* and the registered_with fields of the voters say the same, and no list or pair of
\* lists holds a voter twice, whatever the order of registrations, phase changes and
\* finalizations (register_voter writes both).
DelegationConsistent ==
    /\ \A a \in Aggregators : \A i \in DOMAIN registered[a] :
          /\ registered_with[registered[a][i].voter_id] = a
          /\ registered[a][i].voter_id <= next_voter
          /\ \A j \in DOMAIN registered[a] :
                registered[a][i].voter_id = registered[a][j].voter_id => i = j
    /\ \A v \in Voters : registered_with[v] # None =>
          \E i \in DOMAIN registered[registered_with[v]] :
             registered[registered_with[v]][i].voter_id = v

\* A registration post stays the post of its aggregator's list, although any phase may
\* follow any other and registration can be opened again after the post was made.
RegistrationFrozen ==
    \A a \in Aggregators : finalized[a] # None =>
        finalized[a] = finalize_registration(a, registered[a])

\* The honest flow never fails: at any time a finalized aggregator has a registration
\* found valid and can prove a tally of the ballots it holds that the validator accepts,
\* be its list empty, larger than the label range, or without a single ballot.
EveryTallyProvable ==
    \A a \in Aggregators : finalized[a] # None =>
        /\ registration_valid[a]
        /\ CanBuildTally(finalized[a], registered[a], VotesHeldBy(a))
        /\ verify_aggregator_tally(finalized[a],
               build_and_prove_tally(finalized[a], registered[a], VotesHeldBy(a)))

Delegates(a) == {v \in Voters : registered_with[v] = a}

Ballots(S) == {v \in S : vote[v] # None}

\* A tally on display accounts for each delegate of its aggregator exactly once, and
\* counts no more ballots than those delegates have cast (padding never counts).
TallyAccountsForDelegates ==
    \A a \in Aggregators : tally_post[a] # None =>
        /\ SumFunction(tally_post[a].candidate_counts) + tally_post[a].no_vote_count
              = Cardinality(Delegates(a))
        /\ SumFunction(tally_post[a].candidate_counts) <= Cardinality(Ballots(Delegates(a)))

\* The published global tally never counts more ballots than there are voters with one.
NoBallotCountedTwice ==
    SumFunction(published_global_tally) <= Cardinality(Ballots(Voters))

\* A ballot that has been counted is never lost: a later tally of the same aggregator
\* counts at least as many (ballots may change but not be withdrawn, lists are frozen).
NoBallotLost ==
    [][\A a \in Aggregators : tally_post[a] # None =>
          /\ tally_post'[a] # None
          /\ SumFunction(tally_post'[a].candidate_counts)
                >= SumFunction(tally_post[a].candidate_counts)]_vars

-----------------------------------------------------------------------------
(* The election implements BallotBox. *)

Roll(post) == {post.voters[i].voter_id : i \in DOMAIN post.voters}

CountPerCandidate(post) ==
    [c \in CandidateIds |-> post.candidate_counts[candidate_position(c)]]

Box == INSTANCE BallotBox WITH
    delegate <- registered_with,
    ballot   <- vote,
    roll     <- [a \in Aggregators |-> IF finalized[a] = None THEN None ELSE Roll(finalized[a])],
    counts   <- [a \in Aggregators |->
                    IF tally_post[a] = None THEN None ELSE CountPerCandidate(tally_post[a])],
    accepted <- {a \in Aggregators : verification[a] # None /\ verification[a].valid}

\* Through lists, local indices, partitions, padding and proofs, the handlers do what the
\* ballot box promises: one delegation per voter, fixed rolls, exact counts, and no
\* honest tally turned down.
ImplementsBallotBox == Box!Spec

-----------------------------------------------------------------------------
(* The bulletin board. *)

Events(kind) == {i \in DOMAIN bulletin : bulletin[i].kind = kind}

EventsOf(kind, a) == {i \in Events(kind) : bulletin[i].aggregator_id = a}

LatestOf(S) == CHOOSE i \in S : \A j \in S : j <= i

\* The board alone tells the public state of the election: the phase, every list in its
\* order, every registration post and whether it was found valid, the tally and the
\* verification result on display.
BoardTellsState ==
    /\ LET changes == Events("phase_changed")
       IN  phase = IF changes = {} THEN "setup" ELSE bulletin[LatestOf(changes)].phase
    /\ \A a \in Aggregators :
          /\ LET joined == ElementsAt(bulletin, EventsOf("voter_registered", a))
             IN  [i \in DOMAIN joined |-> joined[i].voter_id]
                   = [i \in DOMAIN registered[a] |-> registered[a][i].voter_id]
          /\ {bulletin[i].post : i \in EventsOf("registration_post", a)}
                = IF finalized[a] = None THEN {} ELSE {finalized[a]}
          /\ {bulletin[i].valid : i \in EventsOf("registration_validated", a)}
                = IF registration_valid[a] = None THEN {} ELSE {registration_valid[a]}
          /\ LET posts == EventsOf("tally_post", a)
             IN  IF posts = {} THEN tally_post[a] = None
                               ELSE tally_post[a] = bulletin[LatestOf(posts)].post
          /\ LET results == EventsOf("verification_result", a)
             IN  IF results = {} THEN verification[a] = None
                 ELSE verification[a] # None
                      /\ verification[a].valid = bulletin[LatestOf(results)].valid

\* The events of an aggregator that come before position n, of one kind.
Before(n, kind, a) == {i \in EventsOf(kind, a) : i < n}

\* Anyone can check a published global tally from the board alone: it is the sum, over
\* the aggregators whose latest verification result is positive, of the latest tally
\* each had posted, that result came after the tally, and no voter was found twice.
GlobalTallyAuditable ==
    \A n \in Events("global_tally") :
        LET counted(a) ==
                /\ Before(n, "tally_post", a) # {}
                /\ Before(n, "verification_result", a) # {}
                /\ bulletin[LatestOf(Before(n, "verification_result", a))].valid
                /\ LatestOf(Before(n, "tally_post", a))
                      < LatestOf(Before(n, "verification_result", a))
            count(a, j) ==
                IF counted(a)
                THEN bulletin[LatestOf(Before(n, "tally_post", a))].post.candidate_counts[j]
                ELSE 0
        IN  /\ bulletin[n].tally =
                  [j \in DOMAIN Candidates |-> SumFunction([a \in Aggregators |-> count(a, j)])]
            /\ bulletin[n].duplicate_voters = {}

\* The counts displayed as verified are the counts that were verified: those of the last
\* tally on the board before the verification result.
VerifiedMeansTheseCounts ==
    \A a \in Aggregators : proof_status(a) = "verified" =>
        LET n == LatestOf(EventsOf("verification_result", a))
        IN  tally_post[a].candidate_counts
              = bulletin[LatestOf(Before(n, "tally_post", a))].post.candidate_counts
=============================================================================
