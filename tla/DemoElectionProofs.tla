-------------------------- MODULE DemoElectionProofs --------------------------
(***************************************************************************)
(* Proofs about DemoElection, for every number of voters, every list of    *)
(* aggregators and candidates and every sequence of requests.              *)
(*                                                                         *)
(* There are three inductive invariants, each resting on the one before:   *)
(*   - IndInv: the types, the agreement of the two records of each         *)
(*     delegation, and that registration posts follow from lists that no   *)
(*     longer change.  No two of them suffice: a post has a domain size    *)
(*     only because its list holds no voter twice, and hence at most       *)
(*     MaxVoters voters;                                                   *)
(*   - TallyInv: each list holds what its voters signed, each post was     *)
(*     found valid, the tally on display passes the validator and counts   *)
(*     ballots of its delegates, and no verification was negative;         *)
(*   - BoardInv: the bulletin board is a list, and tells the state.  With  *)
(*     it, GlobalTallyAuditable is inductive.                              *)
(***************************************************************************)
EXTENDS DemoElection, CoreProofs

-----------------------------------------------------------------------------
(* Domain sizes. *)

\* required_domain_size finds a size with a slot for each of up to MaxVoters voters, and
\* with room for num_partitions nonzero label indices.
LEMMA DomainSizeFits ==
    ASSUME NEW n \in Nat, n <= MaxVoters
    PROVE  /\ required_domain_size(n) \in DomainSizes
           /\ required_domain_size(n) >= n
           /\ required_domain_size(n) >= num_partitions + 1
<1>1. num_partitions \in Nat
  BY CandidatesAssumption DEF num_partitions
<1>2. PICK d \in DomainSizes : d >= MaxVoters /\ d >= num_partitions + 1
  BY DomainSizesAssumption
<1>3. d \in Nat /\ MaxVoters \in Nat
  BY DomainSizesAssumption, BoundsAssumption
<1>4. d >= n
  BY <1>2, <1>3
<1>. QED  BY <1>1, <1>2, <1>4, DomainSizesAssumption, DomainSizeIs

-----------------------------------------------------------------------------
(* The inductive invariant. *)

IndInv == TypeOK /\ DelegationConsistent /\ RegistrationFrozen

LEMMA ListTypes ==
    ASSUME VoterTypes, NEW a \in Aggregators, NEW i \in DOMAIN registered[a]
    PROVE  /\ registered[a][i].voter_id \in Voters
           /\ registered[a][i].voter_id \in Nat
<1>1. registered[a] \in Seq(RegisteredVoters)
  BY DEF VoterTypes
<1>2. registered[a][i] \in RegisteredVoters
  BY <1>1
<1>3. registered[a][i].voter_id \in Voters
  BY <1>2 DEF RegisteredVoters
<1> QED
  BY <1>3, BoundsAssumption DEF Voters

\* An aggregator's list is a list of distinct voters.
LEMMA ListsFit ==
    ASSUME IndInv, NEW a \in Aggregators
    PROVE  Len(registered[a]) \in Nat /\ Len(registered[a]) <= MaxVoters
<1> DEFINE n == Len(registered[a])
           f == [i \in 1..n |-> registered[a][i].voter_id]
<1>1. registered[a] \in Seq(RegisteredVoters)
  BY DEF IndInv, TypeOK, VoterTypes
<1>2. n \in Nat /\ DOMAIN registered[a] = 1..n
  BY <1>1
<1>3. \A i \in 1..n : registered[a][i].voter_id \in Voters
  BY <1>2, ListTypes DEF IndInv, TypeOK
<1>4. \A i, j \in 1..n : registered[a][i].voter_id = registered[a][j].voter_id => i = j
  BY <1>2 DEF IndInv, DelegationConsistent
<1>5. f \in Injection(1..n, Voters)
  BY <1>3, <1>4 DEF Injection, IsInjective
<1>6. IsFiniteSet(Voters) /\ Cardinality(Voters) = MaxVoters
  BY BoundsAssumption, FS_Interval DEF Voters
<1>7. Cardinality(1..n) <= MaxVoters
  BY <1>5, <1>6, FS_Injection
<1>8. Cardinality(1..n) = n
  <2> HIDE DEF n
  <2>1. n \in Int /\ 1 \in Int
    BY <1>2
  <2>2. Cardinality(1..n) = IF 1 > n THEN 0 ELSE n - 1 + 1
    BY <2>1, FS_Interval
  <2> QED
    BY <1>2, <2>2
<1> QED
  BY <1>2, <1>7, <1>8

LEMMA InitIndInv == Init => IndInv
<1> SUFFICES ASSUME Init
             PROVE  IndInv
  OBVIOUS
<1>1. VoterTypes
  BY BoundsAssumption DEF Init, VoterTypes, Phases
<1>2. RegistrationPostTypes /\ TallyTypes
  BY DEF Init, RegistrationPostTypes, TallyTypes
<1>3. DelegationConsistent
  BY DEF Init, DelegationConsistent
<1>4. RegistrationFrozen
  BY DEF Init, RegistrationFrozen
<1> QED
  BY <1>1, <1>2, <1>3, <1>4 DEF IndInv, TypeOK

-----------------------------------------------------------------------------
(* Voters: creation, registration, ballots. *)

LEMMA SetPhaseStep ==
    ASSUME IndInv, NEW p, set_phase(p)
    PROVE  IndInv'
<1> USE DEF IndInv, TypeOK
<1>1. VoterTypes'
  BY DEF set_phase, VoterTypes
<1>2. RegistrationPostTypes' /\ TallyTypes'
  BY DEF set_phase, RegistrationPostTypes, TallyTypes
<1>3. DelegationConsistent'
  BY DEF set_phase, DelegationConsistent
<1>4. RegistrationFrozen'
  BY DEF set_phase, RegistrationFrozen
<1> QED
  BY <1>1, <1>2, <1>3, <1>4

LEMMA CreateVotersStep ==
    ASSUME IndInv, NEW count, demo_create_voters(count)
    PROVE  IndInv'
<1> USE DEF IndInv, TypeOK
<1>1. VoterTypes'
  BY BoundsAssumption DEF demo_create_voters, VoterTypes
<1>2. RegistrationPostTypes' /\ TallyTypes'
  BY DEF demo_create_voters, RegistrationPostTypes, TallyTypes
<1>3. DelegationConsistent'
  <2>1. next_voter \in Nat /\ next_voter' \in Nat /\ next_voter <= next_voter'
    BY BoundsAssumption DEF demo_create_voters, VoterTypes
  <2>2. \A a \in Aggregators : \A i \in DOMAIN registered[a] :
           registered[a][i].voter_id \in Nat
    BY ListTypes
  <2> QED
    BY <2>1, <2>2 DEF demo_create_voters, DelegationConsistent
<1>4. RegistrationFrozen'
  BY DEF demo_create_voters, RegistrationFrozen
<1> QED
  BY <1>1, <1>2, <1>3, <1>4

LEMMA RegisterVoterStep ==
    ASSUME IndInv, NEW v \in Voters, NEW a, register_voter(v, a)
    PROVE  IndInv'
<1> USE DEF IndInv, TypeOK
<1> DEFINE new == RegisteredVoter(v, sign_delegation(v, a), skv(v))
<1>1. /\ a \in Aggregators
      /\ v <= next_voter
      /\ registered_with[v] = None
      /\ finalized[a] = None
      /\ registered' = [registered EXCEPT ![a] = Append(@, new)]
      /\ registered_with' = [registered_with EXCEPT ![v] = a]
      /\ UNCHANGED <<phase, next_voter, vote, finalized, registration_valid,
                     tally_post, verification>>
  BY DEF register_voter, MayRegister
<1>2. new \in RegisteredVoters /\ new.voter_id = v
  BY <1>1 DEF RegisteredVoter, RegisteredVoters, sign_delegation
<1> HIDE DEF new
<1>3. \A b \in Aggregators : registered[b] \in Seq(RegisteredVoters)
  BY DEF VoterTypes
<1>4. VoterTypes'
  BY <1>1, <1>2, <1>3 DEF VoterTypes
<1>5. RegistrationPostTypes' /\ TallyTypes'
  BY <1>1 DEF RegistrationPostTypes, TallyTypes
<1>6. RegistrationFrozen'
  BY <1>1 DEF RegistrationFrozen, VoterTypes
<1>7. DelegationConsistent'
  <2> DEFINE n == Len(registered[a])
  <2>1. /\ registered'[a] = Append(registered[a], new)
        /\ \A b \in Aggregators \ {a} : registered'[b] = registered[b]
        /\ registered_with'[v] = a
        /\ \A w \in Voters \ {v} : registered_with'[w] = registered_with[w]
    BY <1>1 DEF VoterTypes
  <2>2. /\ n \in Nat
        /\ DOMAIN registered[a] = 1..n
        /\ DOMAIN registered'[a] = 1..(n + 1)
        /\ registered'[a][n + 1] = new
        /\ \A i \in 1..n : registered'[a][i] = registered[a][i]
    BY <1>2, <1>3, <1>1, <2>1
  <2>3. \A b \in Aggregators : \A i \in DOMAIN registered[b] :
           registered[b][i].voter_id \in Voters \ {v}
    <3> SUFFICES ASSUME NEW b \in Aggregators, NEW i \in DOMAIN registered[b]
                 PROVE  registered[b][i].voter_id \in Voters \ {v}
      OBVIOUS
    <3>1. registered[b][i].voter_id \in Voters
      BY ListTypes
    <3>2. registered_with[registered[b][i].voter_id] = b
      BY DEF DelegationConsistent
    <3> QED
      BY <1>1, <3>1, <3>2, IdsAssumption
  <2>4. ASSUME NEW b \in Aggregators, NEW i \in DOMAIN registered'[b]
        PROVE  /\ registered_with'[registered'[b][i].voter_id] = b
               /\ registered'[b][i].voter_id <= next_voter'
               /\ \A j \in DOMAIN registered'[b] :
                     registered'[b][i].voter_id = registered'[b][j].voter_id => i = j
    <3>1. CASE b # a
      BY <3>1, <1>1, <2>1, <2>3 DEF DelegationConsistent
    <3>2. CASE b = a /\ i = n + 1
      BY <3>2, <1>1, <1>2, <2>1, <2>2, <2>3
    <3>3. CASE b = a /\ i \in 1..n
      BY <3>3, <1>1, <1>2, <2>1, <2>2, <2>3 DEF DelegationConsistent
    <3> QED
      BY <3>1, <3>2, <3>3, <2>2
  <2>5. ASSUME NEW w \in Voters, registered_with'[w] # None
        PROVE  \E i \in DOMAIN registered'[registered_with'[w]] :
                  registered'[registered_with'[w]][i].voter_id = w
    <3>1. CASE w = v
      BY <3>1, <1>2, <2>1, <2>2
    <3>2. CASE w # v
      <4>1. registered_with'[w] = registered_with[w] /\ registered_with[w] \in Aggregators
        BY <3>2, <2>1, <2>5 DEF VoterTypes
      <4>2. PICK i \in DOMAIN registered[registered_with[w]] :
               registered[registered_with[w]][i].voter_id = w
        BY <4>1, <2>5 DEF DelegationConsistent
      <4> DEFINE b == registered_with[w]
      <4>3. i \in DOMAIN registered'[b] /\ registered'[b][i] = registered[b][i]
        <5>1. CASE b = a
          BY <1>1, <2>2, <4>2, <5>1
        <5>2. CASE b # a
          BY <2>1, <4>1, <5>2, <4>2
        <5> QED
          BY <5>1, <5>2
      <4> QED
        BY <4>1, <4>2, <4>3
    <3> QED
      BY <3>1, <3>2
  <2> QED
    BY <2>4, <2>5 DEF DelegationConsistent
<1> QED
  BY <1>4, <1>5, <1>6, <1>7

LEMMA CastVoteStep ==
    ASSUME IndInv, NEW v \in Voters, NEW c, cast_vote(v, c)
    PROVE  IndInv'
<1> USE DEF IndInv, TypeOK
<1>1. VoterTypes'
  BY DEF cast_vote, VoterTypes
<1>2. RegistrationPostTypes' /\ TallyTypes'
  BY DEF cast_vote, RegistrationPostTypes, TallyTypes
<1>3. DelegationConsistent'
  BY DEF cast_vote, DelegationConsistent
<1>4. RegistrationFrozen'
  BY DEF cast_vote, RegistrationFrozen
<1> QED
  BY <1>1, <1>2, <1>3, <1>4

-----------------------------------------------------------------------------
(* Aggregators: registration posts, tallies, verification. *)

LEMMA FinalizeStep ==
    ASSUME IndInv, NEW a, finalize_aggregator(a)
    PROVE  IndInv'
<1> USE DEF IndInv, TypeOK
<1> DEFINE post == finalize_registration(a, registered[a])
           ok   == validate_finalized_registration(post, FALSE)
<1>1. /\ a \in Aggregators
      /\ finalized' = [finalized EXCEPT ![a] = post]
      /\ registration_valid' = [registration_valid EXCEPT ![a] = ok]
      /\ UNCHANGED <<phase, next_voter, registered_with, vote, registered, tally_post,
                     verification>>
  BY DEF finalize_aggregator
<1>2. VoterTypes' /\ TallyTypes'
  BY <1>1 DEF VoterTypes, TallyTypes
<1>3. DelegationConsistent'
  BY <1>1 DEF DelegationConsistent
<1>4. RegistrationFrozen'
  BY <1>1 DEF RegistrationFrozen, RegistrationPostTypes
<1>5. RegistrationPostTypes'
  <2> DEFINE count == Len(registered[a])
             size  == required_domain_size(count)
  <2>1. /\ post.aggregator_id = a
        /\ post.domain_size = size
        /\ post.real_registered_count = count
        /\ post.pad_count = size - count
    BY DEF finalize_registration
  <2>2. count \in Nat /\ count <= MaxVoters
    BY <1>1, ListsFit
  <2>3. size \in DomainSizes /\ size >= count /\ size \in Nat
    BY <2>2, DomainSizeFits, DomainSizesAssumption
  <2>4. ok \in BOOLEAN
    BY DEF validate_finalized_registration
  <2> HIDE DEF post, ok, count, size
  <2>5. post.real_registered_count + post.pad_count = post.domain_size /\ post.pad_count \in Nat
    BY <2>1, <2>2, <2>3
  <2> QED
    BY <1>1, <2>1, <2>3, <2>4, <2>5 DEF RegistrationPostTypes
<1> QED
  BY <1>2, <1>3, <1>4, <1>5

LEMMA ProveStep ==
    ASSUME IndInv, NEW a, prove_aggregator(a)
    PROVE  IndInv'
<1> USE DEF IndInv, TypeOK
<1> DEFINE post == build_and_prove_tally(finalized[a], registered[a], VotesHeldBy(a))
<1>1. /\ a \in Aggregators
      /\ finalized[a] # None
      /\ tally_post' = [tally_post EXCEPT ![a] = post]
      /\ UNCHANGED <<phase, next_voter, registered_with, vote, registered, finalized,
                     registration_valid, verification>>
  BY DEF prove_aggregator
<1>2. VoterTypes' /\ RegistrationPostTypes' /\ DelegationConsistent' /\ RegistrationFrozen'
  BY <1>1 DEF VoterTypes, RegistrationPostTypes, DelegationConsistent, RegistrationFrozen
<1>3. post.aggregator_id = a
  <2>1. post.aggregator_id = finalized[a].aggregator_id
    BY DEF build_and_prove_tally
  <2> QED
    BY <1>1, <2>1 DEF RegistrationPostTypes
<1>4. TallyTypes'
  <2> HIDE DEF post
  <2> QED
    BY <1>1, <1>3 DEF TallyTypes
<1> QED
  BY <1>2, <1>4

\* Both verification handlers replace entries by records of this form.
LEMMA VerificationStep ==
    ASSUME IndInv,
           \A a \in Aggregators :
              \/ verification'[a] = verification[a]
              \/ \E ok \in BOOLEAN : verification'[a] = AggregatorVerification(a, ok),
           DOMAIN verification' = Aggregators,
           verification' = [a \in Aggregators |-> verification'[a]],
           UNCHANGED <<phase, next_voter, registered_with, vote, registered, finalized,
                       registration_valid, tally_post>>
    PROVE  IndInv'
<1> USE DEF IndInv, TypeOK
<1>1. VoterTypes' /\ RegistrationPostTypes' /\ DelegationConsistent' /\ RegistrationFrozen'
  BY DEF VoterTypes, RegistrationPostTypes, DelegationConsistent, RegistrationFrozen
<1>2. \A a \in Aggregators : \A ok \in BOOLEAN :
         /\ AggregatorVerification(a, ok) \in [aggregator_id : Aggregators, valid : BOOLEAN]
         /\ AggregatorVerification(a, ok).aggregator_id = a
  BY DEF AggregatorVerification
<1>3. TallyTypes'
  BY <1>2 DEF TallyTypes
<1> QED
  BY <1>1, <1>3

LEMMA VerifyStep ==
    ASSUME IndInv, NEW a, verify_aggregator(a)
    PROVE  IndInv'
<1> DEFINE ok == verify_aggregator_tally(finalized[a], tally_post[a])
<1>1. /\ verification' = [verification EXCEPT ![a] = AggregatorVerification(a, ok)]
      /\ UNCHANGED <<phase, next_voter, registered_with, vote, registered, finalized,
                     registration_valid, tally_post>>
  BY DEF verify_aggregator
<1>2. ok \in BOOLEAN
  BY DEF verify_aggregator_tally
<1> HIDE DEF ok
<1>3. verification \in [Aggregators -> [aggregator_id : Aggregators, valid : BOOLEAN] \cup {None}]
  BY DEF IndInv, TypeOK, TallyTypes
<1> QED
  BY <1>1, <1>2, <1>3, VerificationStep

LEMMA VerifyAllStep ==
    ASSUME IndInv, verify_all
    PROVE  IndInv'
<1> DEFINE ok(a) == /\ verify_aggregator_tally(finalized[a], tally_post[a])
                    /\ finalized[a] # None
                    /\ validate_finalized_registration(finalized[a], FALSE)
<1>1. /\ verification' = [a \in Aggregators |->
                             IF finalized[a] # None /\ tally_post[a] # None
                             THEN AggregatorVerification(a, ok(a)) ELSE verification[a]]
      /\ UNCHANGED <<phase, next_voter, registered_with, vote, registered, finalized,
                     registration_valid, tally_post>>
  BY DEF verify_all
<1>2. \A a : ok(a) \in BOOLEAN
  OBVIOUS
<1> HIDE DEF ok
<1> QED
  BY <1>1, <1>2, VerificationStep

-----------------------------------------------------------------------------
(* The theorems. *)

LEMMA NextIndInv == IndInv /\ [Next]_vars => IndInv'
<1> SUFFICES ASSUME IndInv, [Next]_vars
             PROVE  IndInv'
  OBVIOUS
<1>1. ASSUME NEW p \in PhaseNames, set_phase(p)
      PROVE  IndInv'
  BY <1>1, SetPhaseStep
<1>2. ASSUME NEW count \in BatchSizes, demo_create_voters(count)
      PROVE  IndInv'
  BY <1>2, CreateVotersStep
<1>3. ASSUME NEW v \in Voters, NEW a \in Aggregators \cup {Stranger}, register_voter(v, a)
      PROVE  IndInv'
  BY <1>3, RegisterVoterStep
<1>4. ASSUME NEW v \in Voters, NEW c \in CandidateIds \cup {Stranger}, cast_vote(v, c)
      PROVE  IndInv'
  BY <1>4, CastVoteStep
<1>5. ASSUME NEW a \in Aggregators \cup {Stranger}, finalize_aggregator(a)
      PROVE  IndInv'
  BY <1>5, FinalizeStep
<1>6. ASSUME NEW a \in Aggregators \cup {Stranger}, prove_aggregator(a)
      PROVE  IndInv'
  BY <1>6, ProveStep
<1>7. ASSUME NEW a \in Aggregators \cup {Stranger}, verify_aggregator(a)
      PROVE  IndInv'
  BY <1>7, VerifyStep
<1>8. CASE verify_all
  BY <1>8, VerifyAllStep
<1>9. CASE UNCHANGED vars
  BY <1>9 DEF vars, IndInv, TypeOK, VoterTypes, RegistrationPostTypes, TallyTypes,
              DelegationConsistent, RegistrationFrozen
<1> QED
  BY <1>1, <1>2, <1>3, <1>4, <1>5, <1>6, <1>7, <1>8, <1>9 DEF Next, ReadRequest

\* The inductive invariant holds in every reachable state.
THEOREM Invariance == Spec => []IndInv
  BY InitIndInv, NextIndInv, PTL DEF Spec

\* In every election, whatever is requested in whatever order, every field keeps its type
\* and every registration post has a domain with a slot for each voter on its list.
THEOREM TypeCorrect == Spec => []TypeOK
<1>1. IndInv => TypeOK
  BY DEF IndInv
<1> QED
  BY <1>1, Invariance, PTL

\* In every election a voter is on at most one aggregator's list, at most once, and
\* exactly on the list of the aggregator it is recorded to have delegated to.
THEOREM OneDelegationPerVoter == Spec => []DelegationConsistent
<1>1. IndInv => DelegationConsistent
  BY DEF IndInv
<1> QED
  BY <1>1, Invariance, PTL

\* In every election a registration post remains the post of its aggregator's list,
\* through phases set backwards and registrations opened again.
THEOREM PostsStayTrue == Spec => []RegistrationFrozen
<1>1. IndInv => RegistrationFrozen
  BY DEF IndInv
<1> QED
  BY <1>1, Invariance, PTL

-----------------------------------------------------------------------------
(* Tallies.  What is on display is right, by induction together with what  *)
(* the lists, the posts and the verifications are.                         *)

HonestLists == \A a \in Aggregators : Accepted(a, registered[a])

PostsValid ==
    \A a \in Aggregators : registration_valid[a] = IF finalized[a] = None THEN None ELSE TRUE

\* The counts are those of some ballots, one each, of voters in S.
CountsBallotsOf(S, counts) ==
    \E B \in SUBSET S : \E choice \in [B -> DOMAIN Candidates] :
        \A j \in DOMAIN Candidates : counts[j] = Cardinality(PartOf(B, choice, j))

TrueTally(a, post) ==
    LET counts == post.candidate_counts IN
    /\ verify_aggregator_tally(finalized[a], post)
    /\ DOMAIN counts = DOMAIN Candidates
    /\ CountsBallotsOf(Ballots(Delegates(a)), counts)
    /\ \A j \in DOMAIN Candidates : counts[j] \in Nat
    /\ post.no_vote_count \in Nat
    /\ SumFunction(counts) \in Nat
    /\ SumFunction(counts) + post.no_vote_count = Cardinality(Delegates(a))
    /\ SumFunction(counts) <= Cardinality(Ballots(Delegates(a)))

TalliesTrue ==
    \A a \in Aggregators : tally_post[a] # None =>
        finalized[a] # None /\ TrueTally(a, tally_post[a])

VerificationsTrue ==
    \A a \in Aggregators : verification[a] # None =>
        verification[a].valid = TRUE /\ tally_post[a] # None

TallyInv == HonestLists /\ PostsValid /\ TalliesTrue /\ VerificationsTrue

\* The list of an aggregator fits a domain.
LEMMA HonestList ==
    ASSUME IndInv, TallyInv, NEW a \in Aggregators
    PROVE  /\ registered[a] \in Seq(RegisteredVoters)
           /\ Accepted(a, registered[a])
           /\ Fits(registered[a])
<1>1. registered[a] \in Seq(RegisteredVoters)
  BY DEF IndInv, TypeOK, VoterTypes
<1>2. Accepted(a, registered[a])
  BY DEF TallyInv, HonestLists
<1>3. Len(registered[a]) \in Nat /\ Len(registered[a]) <= MaxVoters
  BY ListsFit
<1> DEFINE n == required_domain_size(Len(registered[a]))
<1>4. n \in DomainSizes /\ n >= Len(registered[a]) /\ n >= num_partitions + 1
  BY <1>3, DomainSizeFits
<1>5. n \in Nat
  BY <1>4, DomainSizesAssumption
<1> HIDE DEF n
<1>6. Fits(registered[a])
  BY <1>4, <1>5 DEF Fits, n
<1>. QED  BY <1>1, <1>2, <1>6

\* Every list, and with it every post, is one that NoneAssumption is about.
LEMMA NotNone ==
    ASSUME IndInv, TallyInv, NEW a \in Aggregators
    PROVE  LET post == finalize_registration(a, registered[a]) IN
           /\ post # None
           /\ \A S \in SUBSET Voters : \A votes \in [S -> CandidateIds] :
                 build_and_prove_tally(post, registered[a], votes) # None
<1> DEFINE k == Len(registered[a])
           vs == [i \in 1..k |-> registered[a][i].voter_id]
           list == [i \in 1..k |-> RegisteredVoter(vs[i], sign_delegation(vs[i], a), skv(vs[i]))]
<1>1. registered[a] \in Seq(RegisteredVoters) /\ Accepted(a, registered[a])
  BY HonestList
<1>2. k \in Nat /\ k <= MaxVoters
  BY ListsFit
<1>3. k \in 0..MaxVoters
  BY <1>2, BoundsAssumption
<1>4. DOMAIN registered[a] = 1..k /\ registered[a] = [i \in 1..k |-> registered[a][i]]
  BY <1>1
<1>5. vs \in [1..k -> Voters]
  <2>1. \A i \in 1..k : registered[a][i].voter_id \in Voters
    BY <1>4, ListTypes DEF IndInv, TypeOK
  <2> HIDE DEF k
  <2>. QED  BY <2>1
<1>6. list = registered[a]
  <2>1. \A i \in 1..k : vs[i] = registered[a][i].voter_id
    OBVIOUS
  <2>2. \A i \in 1..k :
           registered[a][i] = RegisteredVoter(vs[i], sign_delegation(vs[i], a), skv(vs[i]))
    BY <1>1, <1>4, <2>1 DEF Accepted
  <2> HIDE DEF k, vs
  <2>. QED  BY <1>4, <2>2
<1>7. /\ None # finalize_registration(a, list)
      /\ \A S \in SUBSET Voters : \A votes \in [S -> CandidateIds] :
            None # build_and_prove_tally(finalize_registration(a, list), list, votes)
  <2> HIDE DEF k, vs
  <2>. QED  BY <1>3, <1>5, NoneAssumption
<1>. QED  BY <1>6, <1>7

\* Its voters are the ones that delegated to it, and the ballots it holds are theirs.
LEMMA BallotsHeld ==
    ASSUME IndInv, NEW a \in Aggregators
    PROVE  /\ VotersIn(registered[a], DOMAIN registered[a]) = Delegates(a)
           /\ Cast(VotesHeldBy(a))
           /\ DOMAIN VotesHeldBy(a) = Ballots(Delegates(a))
           /\ \A v \in Ballots(Delegates(a)) : VotesHeldBy(a)[v] = vote[v]
           /\ \A v \in Voters : vote[v] # None => vote[v] \in CandidateIds
           /\ WithBallot(registered[a], VotesHeldBy(a)) = Ballots(Delegates(a))
           /\ Cardinality(Delegates(a)) = Len(registered[a])
           /\ IsFiniteSet(Delegates(a)) /\ IsFiniteSet(Ballots(Delegates(a)))
<1> USE DEF IndInv, TypeOK
<1>1. /\ next_voter \in 0..MaxVoters
      /\ registered_with \in [Voters -> Aggregators \cup {None}]
      /\ vote \in [Voters -> CandidateIds \cup {None}]
      /\ registered[a] \in Seq(RegisteredVoters)
  BY DEF VoterTypes
<1>2. \A i \in DOMAIN registered[a] : registered[a][i].voter_id \in Voters
  BY ListTypes
<1>3. /\ \A i \in DOMAIN registered[a] :
            /\ registered_with[registered[a][i].voter_id] = a
            /\ registered[a][i].voter_id <= next_voter
            /\ \A j \in DOMAIN registered[a] :
                  registered[a][i].voter_id = registered[a][j].voter_id => i = j
      /\ \A v \in Voters : registered_with[v] = a =>
            \E i \in DOMAIN registered[a] : registered[a][i].voter_id = v
  BY IdsAssumption DEF DelegationConsistent
<1>4. VotersIn(registered[a], DOMAIN registered[a]) = Delegates(a)
  BY <1>2, <1>3 DEF VotersIn, Delegates
<1>5. \A v : v \in 1..next_voter /\ registered_with[v] = a /\ vote[v] # None
                <=> v \in Ballots(Delegates(a))
  <2>1. \A v \in 1..next_voter : v \in Voters
    BY <1>1, BoundsAssumption DEF Voters
  <2>2. \A v \in Delegates(a) : v \in 1..next_voter
    BY <1>3, BoundsAssumption DEF Delegates, Voters
  <2>. QED  BY <2>1, <2>2 DEF Ballots, Delegates
<1>6. /\ DOMAIN VotesHeldBy(a) = Ballots(Delegates(a))
      /\ \A v \in Ballots(Delegates(a)) : VotesHeldBy(a)[v] = vote[v]
  <2> DEFINE holders == {w \in 1..next_voter : registered_with[w] = a /\ vote[w] # None}
  <2>1. holders = Ballots(Delegates(a))
    BY <1>5
  <2>2. VotesHeldBy(a) = [v \in holders |-> vote[v]]
    BY DEF VotesHeldBy
  <2> HIDE DEF holders
  <2>. QED  BY <2>1, <2>2
<1>7. \A v \in Voters : vote[v] # None => vote[v] \in CandidateIds
  BY <1>1
<1>8. Cast(VotesHeldBy(a))
  <2>1. \A v \in Ballots(Delegates(a)) : v \in Voters /\ vote[v] # None
    BY DEF Ballots, Delegates
  <2>. QED  BY <1>6, <1>7, <2>1 DEF Cast, CandidateIds
<1>9. WithBallot(registered[a], VotesHeldBy(a)) = Ballots(Delegates(a))
  BY <1>4, <1>6 DEF WithBallot, Ballots
<1>10. IsFiniteSet(Delegates(a)) /\ IsFiniteSet(Ballots(Delegates(a)))
  <2>1. IsFiniteSet(Voters)
    BY BoundsAssumption, FS_Interval DEF Voters
  <2>2. Delegates(a) \in SUBSET Voters /\ Ballots(Delegates(a)) \in SUBSET Delegates(a)
    BY DEF Delegates, Ballots
  <2>. QED  BY <2>1, <2>2, FS_Subset
<1>11. Cardinality(Delegates(a)) = Len(registered[a])
  <2> DEFINE k == Len(registered[a])
  <2>1. k \in Nat /\ DOMAIN registered[a] = 1..k
    BY <1>1
  <2> HIDE DEF k
  <2>2. IsFiniteSet(1..k) /\ Cardinality(1..k) = k
    <3>1. 1 \in Int /\ k \in Int
      BY <2>1
    <3>2. IsFiniteSet(1..k) /\ Cardinality(1..k) = IF 1 > k THEN 0 ELSE k - 1 + 1
      BY <3>1, FS_Interval
    <3>. QED  BY <2>1, <3>2
  <2>3. \A i, j \in 1..k : registered[a][i].voter_id = registered[a][j].voter_id => i = j
    BY <1>3, <2>1
  <2>4. Cardinality(VotersIn(registered[a], 1..k)) = k
    BY <2>2, <2>3, PlacesAndVoters
  <2>. QED  BY <1>4, <2>1, <2>4 DEF k
<1>. QED  BY <1>4, <1>6, <1>7, <1>8, <1>9, <1>10, <1>11

LEMMA PositionsDiffer ==
    ASSUME NEW c \in CandidateIds, NEW d \in CandidateIds
    PROVE  /\ candidate_position(c) \in DOMAIN Candidates
           /\ candidate_position(c) = candidate_position(d) => c = d
<1>1. \A e \in CandidateIds : /\ candidate_position(e) \in DOMAIN Candidates
                              /\ Candidates[candidate_position(e)] = e
  BY PositionIs DEF CandidateIds
<1>. QED  BY <1>1

\* What an aggregator can publish now: its tally is exact and is accepted.
ExactTally(a, post) ==
    LET counts == post.candidate_counts IN
    /\ TrueTally(a, post)
    /\ SumFunction(counts) = Cardinality(Ballots(Delegates(a)))
    /\ \A j \in DOMAIN Candidates :
          counts[j] = Cardinality({v \in Ballots(Delegates(a)) : candidate_position(vote[v]) = j})

LEMMA TallyNow ==
    ASSUME IndInv, TallyInv, NEW a \in Aggregators, finalized[a] # None
    PROVE  /\ CanBuildTally(finalized[a], registered[a], VotesHeldBy(a))
           /\ ExactTally(a, build_and_prove_tally(finalized[a], registered[a], VotesHeldBy(a)))
<1> DEFINE list == registered[a]
           votes == VotesHeldBy(a)
           k == Len(list)
           n == required_domain_size(k)
           post == finalize_registration(a, list)
           tally == build_and_prove_tally(post, list, votes)
           sizes == TallySizes(post, votes)
           counts == tally.candidate_counts
           m == Len(Candidates)
<1>1. post = finalized[a]
  BY DEF IndInv, RegistrationFrozen
<1>2. /\ list \in Seq(RegisteredVoters) /\ Accepted(a, list) /\ Fits(list)
      /\ Candidates \in Seq(CandidateIds)
  BY HonestList, CandidatesAssumption
<1>3. /\ Cast(votes)
      /\ \A v \in Ballots(Delegates(a)) : votes[v] = vote[v]
      /\ WithBallot(list, votes) = Ballots(Delegates(a))
      /\ Cardinality(Delegates(a)) = k
      /\ IsFiniteSet(Ballots(Delegates(a)))
  BY BallotsHeld
<1>4. /\ m \in Nat /\ DOMAIN Candidates = 1..m
      /\ NO_VOTE = m + 1 /\ num_partitions = m + 2
  BY CandidatesAssumption, Partitions
<1> HIDE DEF list, votes
<1>5. CanBuildTally(post, list, votes) /\ verify_aggregator_tally(post, tally)
  BY <1>2, <1>3, HonestTally
<1>6. Counts(sizes, list, votes, k, n)
  BY <1>2, <1>3, TallyCounts
<1>7. counts = SubSeq(sizes, 1, m) /\ tally.no_vote_count = sizes[NO_VOTE]
  BY DEF build_and_prove_tally
<1>8. k \in Nat
  BY <1>2
<1> HIDE DEF k, n, post, tally, sizes, counts, m
<1>9. /\ DOMAIN sizes = 1..num_partitions /\ Len(sizes) = num_partitions
      /\ \A j \in 1..num_partitions : sizes[j] \in Nat
      /\ \A j \in DOMAIN Candidates : sizes[j] = Cardinality(For(list, votes, j))
      /\ SumFunction(counts) = Cardinality(WithBallot(list, votes))
      /\ SumFunction(counts) + sizes[NO_VOTE] = k
  BY <1>6, <1>7 DEF Counts, m
<1>10. sizes \in Seq(Nat)
  <2> DEFINE N == num_partitions
  <2>1. N \in Nat /\ DOMAIN sizes = 1..N /\ \A j \in 1..N : sizes[j] \in Nat
    BY <1>4, <1>9
  <2>2. sizes = [j \in 1..N |-> sizes[j]]
    BY <1>9 DEF sizes, TallySizes
  <2> HIDE DEF N
  <2>3. sizes \in [1..N -> Nat]
    BY <2>1, <2>2
  <2>. QED  BY <2>1, <2>3
<1>11. DOMAIN counts = DOMAIN Candidates /\ \A j \in DOMAIN Candidates : counts[j] = sizes[j]
  BY <1>4, <1>7, <1>9, <1>10
<1>12. \A j \in DOMAIN Candidates : j \in 1..num_partitions
  BY <1>4
<1>13. NO_VOTE \in 1..num_partitions
  BY <1>4
<1>14. ASSUME NEW j
       PROVE  For(list, votes, j)
                 = {v \in Ballots(Delegates(a)) : candidate_position(vote[v]) = j}
  BY <1>3 DEF For
<1>15. Cardinality(Ballots(Delegates(a))) \in Nat
  BY <1>3, FS_CardinalityType
<1>16. \A j \in DOMAIN Candidates :
          counts[j] = Cardinality({v \in Ballots(Delegates(a)) : candidate_position(vote[v]) = j})
  BY <1>9, <1>11, <1>14
<1>17. TrueTally(a, tally)
  <2>1. verify_aggregator_tally(finalized[a], tally)
    BY <1>1, <1>5
  <2>2. /\ DOMAIN counts = DOMAIN Candidates
        /\ \A j \in DOMAIN Candidates : counts[j] \in Nat
    BY <1>9, <1>11, <1>12
  <2>3. /\ tally.no_vote_count \in Nat
        /\ SumFunction(counts) \in Nat
        /\ SumFunction(counts) + tally.no_vote_count = Cardinality(Delegates(a))
        /\ SumFunction(counts) <= Cardinality(Ballots(Delegates(a)))
    BY <1>3, <1>7, <1>9, <1>13, <1>15
  <2>4. CountsBallotsOf(Ballots(Delegates(a)), counts)
    <3> DEFINE B == Ballots(Delegates(a))
               choice == [v \in B |-> candidate_position(vote[v])]
    <3>1. choice \in [B -> DOMAIN Candidates]
      <4>1. \A v \in B : vote[v] \in CandidateIds
        BY BallotsHeld DEF Ballots, Delegates
      <4>. QED  BY <4>1, PositionsDiffer
    <3>2. \A j : PartOf(B, choice, j) = {v \in B : candidate_position(vote[v]) = j}
      BY DEF PartOf
    <3> HIDE DEF B, choice
    <3>3. \A j \in DOMAIN Candidates : counts[j] = Cardinality(PartOf(B, choice, j))
      BY <1>16, <3>2 DEF B
    <3>. QED  BY <3>1, <3>3 DEF CountsBallotsOf, B
  <2>. QED  BY <2>1, <2>2, <2>3, <2>4 DEF TrueTally, counts
<1>18. SumFunction(counts) = Cardinality(Ballots(Delegates(a)))
  BY <1>3, <1>9
<1>19. ExactTally(a, tally)
  BY <1>16, <1>17, <1>18 DEF ExactTally, counts
<1>. QED  BY <1>1, <1>5, <1>19 DEF tally, list, votes

\* The steps that change no list, no post and no tally.
LEMMA QuietStep ==
    ASSUME IndInv, TallyInv,
           UNCHANGED <<registered_with, vote, registered, finalized, registration_valid,
                       tally_post, verification>>
    PROVE  TallyInv'
BY DEF TallyInv, HonestLists, PostsValid, TalliesTrue, TrueTally, VerificationsTrue, Delegates,
       Ballots

LEMMA RegisterTallies ==
    ASSUME IndInv, IndInv', TallyInv, NEW v \in Voters, NEW a, register_voter(v, a)
    PROVE  TallyInv'
<1> DEFINE new == RegisteredVoter(v, sign_delegation(v, a), skv(v))
<1>1. /\ a \in Aggregators
      /\ registered_with[v] = None
      /\ finalized[a] = None
      /\ registered' = [registered EXCEPT ![a] = Append(@, new)]
      /\ registered_with' = [registered_with EXCEPT ![v] = a]
      /\ UNCHANGED <<vote, finalized, registration_valid, tally_post, verification>>
  BY DEF register_voter, MayRegister
<1>2. new = RegisteredVoter(new.voter_id, sign_delegation(new.voter_id, a), skv(new.voter_id))
  BY DEF RegisteredVoter
<1> HIDE DEF new
<1>3. HonestLists'
  <2>1. \A b \in Aggregators : registered[b] \in Seq(RegisteredVoters) /\ Accepted(b, registered[b])
    BY HonestList
  <2>2. \A b \in Aggregators : \A i, j \in DOMAIN registered'[b] :
           registered'[b][i].voter_id = registered'[b][j].voter_id => i = j
    BY DEF IndInv, DelegationConsistent
  <2>3. ASSUME NEW b \in Aggregators, NEW i \in DOMAIN registered'[b]
        PROVE  LET w == registered'[b][i].voter_id IN
               registered'[b][i] = RegisteredVoter(w, sign_delegation(w, b), skv(w))
    <3>1. CASE b # a
      <4>1. registered'[b] = registered[b]
        BY <1>1, <3>1
      <4>. QED  BY <2>1, <4>1 DEF Accepted
    <3>2. CASE b = a
      <4> DEFINE k == Len(registered[a])
      <4>1. registered' [a] = Append(registered[a], new)
        BY <1>1 DEF IndInv, TypeOK, VoterTypes
      <4>2. /\ k \in Nat /\ DOMAIN registered[a] = 1..k /\ DOMAIN registered'[a] = 1..(k + 1)
            /\ registered'[a][k + 1] = new
            /\ \A l \in 1..k : registered'[a][l] = registered[a][l]
        BY <1>1, <2>1, <4>1
      <4>3. CASE i \in 1..k
        BY <1>1, <2>1, <3>2, <4>2, <4>3 DEF Accepted
      <4>4. CASE i = k + 1
        BY <1>2, <3>2, <4>2, <4>4
      <4>. QED  BY <3>2, <4>2, <4>3, <4>4
    <3>. QED  BY <3>1, <3>2
  <2>. QED  BY <2>2, <2>3 DEF HonestLists, Accepted
<1>4. PostsValid'
  BY <1>1 DEF TallyInv, PostsValid
<1>5. VerificationsTrue'
  BY <1>1 DEF TallyInv, VerificationsTrue
<1>6. TalliesTrue'
  <2> SUFFICES ASSUME NEW b \in Aggregators, tally_post[b] # None
               PROVE  finalized[b] # None /\ TrueTally(b, tally_post[b])'
    BY <1>1 DEF TalliesTrue
  <2>1. finalized[b] # None /\ TrueTally(b, tally_post[b])
    BY DEF TallyInv, TalliesTrue
  <2>2. Delegates(b)' = Delegates(b)
    <3>1. b # a /\ registered_with \in [Voters -> Aggregators \cup {None}]
      BY <1>1, <2>1 DEF IndInv, TypeOK, VoterTypes
    <3>2. \A w \in Voters : registered_with'[w] = b <=> registered_with[w] = b
      BY <1>1, <3>1, IdsAssumption
    <3>. QED  BY <3>2 DEF Delegates
  <2>3. Ballots(Delegates(b))' = Ballots(Delegates(b))
    BY <1>1, <2>2 DEF Ballots
  <2>4. IsFiniteSet(Ballots(Delegates(b)))
    BY BallotsHeld
  <2>5. tally_post'[b] = tally_post[b] /\ finalized'[b] = finalized[b]
    BY <1>1
  <2>. QED  BY <2>1, <2>2, <2>3, <2>4, <2>5 DEF TrueTally
<1>. QED  BY <1>3, <1>4, <1>5, <1>6 DEF TallyInv

LEMMA CastTallies ==
    ASSUME IndInv, IndInv', TallyInv, NEW v \in Voters, NEW c, cast_vote(v, c)
    PROVE  /\ TallyInv'
           /\ \A a : Ballots(Delegates(a)) \subseteq Ballots(Delegates(a))'
<1>1. /\ c \in CandidateIds
      /\ vote' = [vote EXCEPT ![v] = c]
      /\ UNCHANGED <<registered_with, registered, finalized, registration_valid, tally_post,
                     verification>>
  BY DEF cast_vote
<1>2. vote \in [Voters -> CandidateIds \cup {None}]
  BY DEF IndInv, TypeOK, VoterTypes
<1>3. \A w \in Voters : vote[w] # None => vote'[w] # None
  BY <1>1, <1>2, IdsAssumption
<1>4. \A a : Delegates(a)' = Delegates(a)
  BY <1>1 DEF Delegates
<1>5. \A a : Ballots(Delegates(a)) \subseteq Ballots(Delegates(a))'
  BY <1>3, <1>4 DEF Ballots, Delegates
<1>6. HonestLists' /\ PostsValid' /\ VerificationsTrue'
  BY <1>1 DEF TallyInv, HonestLists, PostsValid, VerificationsTrue
<1>7. TalliesTrue'
  <2> SUFFICES ASSUME NEW b \in Aggregators, tally_post[b] # None
               PROVE  finalized[b] # None /\ TrueTally(b, tally_post[b])'
    BY <1>1 DEF TalliesTrue
  <2>1. finalized[b] # None /\ TrueTally(b, tally_post[b])
    BY DEF TallyInv, TalliesTrue
  <2>2. /\ Cardinality(Ballots(Delegates(b))) <= Cardinality(Ballots(Delegates(b))')
        /\ Cardinality(Ballots(Delegates(b))) \in Nat
        /\ Cardinality(Ballots(Delegates(b))') \in Nat
    <3>1. IsFiniteSet(Ballots(Delegates(b))')
      <4>1. IsFiniteSet(Voters)
        BY BoundsAssumption, FS_Interval DEF Voters
      <4>2. Ballots(Delegates(b))' \in SUBSET Voters
        BY DEF Ballots, Delegates
      <4>. QED  BY <4>1, <4>2, FS_Subset
    <3>2. Ballots(Delegates(b)) \in SUBSET Ballots(Delegates(b))'
      BY <1>5
    <3>. QED  BY <3>1, <3>2, FS_Subset, FS_CardinalityType
  <2>3. tally_post'[b] = tally_post[b] /\ finalized'[b] = finalized[b] /\ Delegates(b)' = Delegates(b)
    BY <1>1, <1>4
  <2>4. ASSUME NEW counts, CountsBallotsOf(Ballots(Delegates(b)), counts)
        PROVE  CountsBallotsOf(Ballots(Delegates(b))', counts)
    BY <1>5, <2>4 DEF CountsBallotsOf
  <2>. QED  BY <2>1, <2>2, <2>3, <2>4 DEF TrueTally
<1>. QED  BY <1>5, <1>6, <1>7 DEF TallyInv

\* The registration post an aggregator makes of its list is found valid.
LEMMA FinalizeTallies ==
    ASSUME IndInv, TallyInv, NEW a, finalize_aggregator(a)
    PROVE  TallyInv'
<1> DEFINE post == finalize_registration(a, registered[a])
           ok   == validate_finalized_registration(post, FALSE)
<1>1. /\ a \in Aggregators
      /\ finalized[a] = None
      /\ finalized' = [finalized EXCEPT ![a] = post]
      /\ registration_valid' = [registration_valid EXCEPT ![a] = ok]
      /\ UNCHANGED <<registered_with, vote, registered, tally_post, verification>>
  BY DEF finalize_aggregator
<1>2. ok = TRUE
  <2>1. /\ registered[a] \in Seq(RegisteredVoters) /\ Accepted(a, registered[a])
        /\ Fits(registered[a])
    BY <1>1, HonestList
  <2>2. ok
    BY <1>1, <2>1, PostIsValid
  <2>3. ok \in BOOLEAN
    BY DEF validate_finalized_registration
  <2>. QED  BY <2>2, <2>3
<1>3. post # None
  BY <1>1, NotNone
<1> HIDE DEF post, ok
<1>4. HonestLists' /\ VerificationsTrue'
  BY <1>1 DEF TallyInv, HonestLists, VerificationsTrue
<1>5. PostsValid'
  BY <1>1, <1>2, <1>3 DEF TallyInv, PostsValid, IndInv, TypeOK, RegistrationPostTypes
<1>6. TalliesTrue'
  <2> SUFFICES ASSUME NEW b \in Aggregators, tally_post[b] # None
               PROVE  finalized'[b] # None /\ TrueTally(b, tally_post[b])'
    BY <1>1 DEF TalliesTrue
  <2>1. finalized[b] # None /\ TrueTally(b, tally_post[b])
    BY DEF TallyInv, TalliesTrue
  <2>2. /\ finalized'[b] = finalized[b] /\ tally_post'[b] = tally_post[b]
        /\ Delegates(b)' = Delegates(b)
        /\ Ballots(Delegates(b))' = Ballots(Delegates(b))
    BY <1>1, <2>1 DEF Delegates, Ballots
  <2>. QED  BY <2>1, <2>2 DEF TrueTally
<1>. QED  BY <1>4, <1>5, <1>6 DEF TallyInv

LEMMA ProveTallies ==
    ASSUME IndInv, TallyInv, NEW a, prove_aggregator(a)
    PROVE  /\ TallyInv'
           /\ a \in Aggregators /\ finalized[a] # None
           /\ \E post : /\ tally_post' = [tally_post EXCEPT ![a] = post]
                        /\ post # None
                        /\ ExactTally(a, post)
<1> DEFINE post == build_and_prove_tally(finalized[a], registered[a], VotesHeldBy(a))
<1>1. /\ a \in Aggregators
      /\ finalized[a] # None
      /\ tally_post' = [tally_post EXCEPT ![a] = post]
      /\ UNCHANGED <<registered_with, vote, registered, finalized, registration_valid,
                     verification>>
  BY DEF prove_aggregator
<1>2. ExactTally(a, post)
  BY <1>1, TallyNow
<1>3. post # None
  <2> DEFINE votes == VotesHeldBy(a)
             S == Ballots(Delegates(a))
  <2>1. finalized[a] = finalize_registration(a, registered[a])
    BY <1>1 DEF IndInv, RegistrationFrozen
  <2>2. /\ DOMAIN votes = S /\ \A v \in S : votes[v] = vote[v]
        /\ \A v \in Voters : vote[v] # None => vote[v] \in CandidateIds
    BY <1>1, BallotsHeld
  <2>3. S \in SUBSET Voters /\ \A v \in S : vote[v] # None
    BY DEF Ballots, Delegates
  <2>4. votes = [v \in DOMAIN votes |-> votes[v]]
    BY DEF VotesHeldBy
  <2> HIDE DEF votes, S
  <2>5. votes \in [S -> CandidateIds]
    BY <2>2, <2>3, <2>4
  <2>6. build_and_prove_tally(finalize_registration(a, registered[a]), registered[a], votes) # None
    BY <1>1, <2>3, <2>5, NotNone
  <2>. QED  BY <2>1, <2>6 DEF votes
<1> HIDE DEF post
<1>4. HonestLists' /\ PostsValid'
  BY <1>1 DEF TallyInv, HonestLists, PostsValid
<1>5. DOMAIN tally_post = Aggregators
  BY DEF IndInv, TypeOK, TallyTypes
<1>6. VerificationsTrue'
  BY <1>1, <1>3, <1>5 DEF TallyInv, VerificationsTrue
<1>7. TalliesTrue'
  <2> SUFFICES ASSUME NEW b \in Aggregators, tally_post'[b] # None
               PROVE  finalized[b] # None /\ TrueTally(b, tally_post[b])'
    BY <1>1 DEF TalliesTrue
  <2>1. CASE b = a
    <3>1. tally_post'[b] = post
      BY <1>1, <1>5, <2>1
    <3>. QED  BY <1>1, <1>2, <2>1, <3>1 DEF ExactTally, TrueTally, Delegates, Ballots
  <2>2. CASE b # a
    <3>1. tally_post'[b] = tally_post[b]
      BY <1>1, <1>5, <2>2
    <3>. QED  BY <1>1, <3>1 DEF TallyInv, TalliesTrue, TrueTally, Delegates, Ballots
  <2>. QED  BY <2>1, <2>2
<1>8. TallyInv'
  BY <1>4, <1>6, <1>7 DEF TallyInv
<1>. QED  BY <1>1, <1>2, <1>3, <1>8

\* Every verification gives the same answer: the tally and the registration are valid.
LEMMA VerifyTallies ==
    ASSUME IndInv, TallyInv, NEW a, verify_aggregator(a)
    PROVE  TallyInv' /\ a \in Aggregators /\ tally_post[a] # None
           /\ verification' = [verification EXCEPT ![a] = AggregatorVerification(a, TRUE)]
<1> DEFINE ok == verify_aggregator_tally(finalized[a], tally_post[a])
<1>1. /\ a \in Aggregators
      /\ tally_post[a] # None
      /\ verification' = [verification EXCEPT ![a] = AggregatorVerification(a, ok)]
      /\ UNCHANGED <<registered_with, vote, registered, finalized, registration_valid, tally_post>>
  BY DEF verify_aggregator
<1>2. ok = TRUE
  <2>1. ok
    BY <1>1 DEF TallyInv, TalliesTrue, TrueTally
  <2>2. ok \in BOOLEAN
    BY DEF verify_aggregator_tally
  <2>. QED  BY <2>1, <2>2
<1> HIDE DEF ok
<1>3. HonestLists' /\ PostsValid' /\ TalliesTrue'
  BY <1>1 DEF TallyInv, HonestLists, PostsValid, TalliesTrue, TrueTally, Delegates, Ballots
<1>4. VerificationsTrue'
  <2>1. AggregatorVerification(a, TRUE).valid = TRUE
    BY DEF AggregatorVerification
  <2>. QED  BY <1>1, <1>2, <2>1 DEF TallyInv, VerificationsTrue, IndInv, TypeOK, TallyTypes
<1>. QED  BY <1>1, <1>2, <1>3, <1>4 DEF TallyInv

LEMMA VerifyAllTallies ==
    ASSUME IndInv, TallyInv, verify_all
    PROVE  /\ TallyInv'
           /\ verification' = [a \in Aggregators |->
                                  IF tally_post[a] # None THEN AggregatorVerification(a, TRUE)
                                                          ELSE verification[a]]
<1> DEFINE ok(a) == /\ verify_aggregator_tally(finalized[a], tally_post[a])
                    /\ finalized[a] # None
                    /\ validate_finalized_registration(finalized[a], FALSE)
<1>1. /\ verification' = [a \in Aggregators |->
                             IF finalized[a] # None /\ tally_post[a] # None
                             THEN AggregatorVerification(a, ok(a)) ELSE verification[a]]
      /\ UNCHANGED <<registered_with, vote, registered, finalized, registration_valid, tally_post>>
  BY DEF verify_all
<1>2. ASSUME NEW a \in Aggregators, tally_post[a] # None
      PROVE  finalized[a] # None /\ ok(a) = TRUE
  <2>1. finalized[a] # None /\ verify_aggregator_tally(finalized[a], tally_post[a])
    BY <1>2 DEF TallyInv, TalliesTrue, TrueTally
  <2>2. finalized[a] = finalize_registration(a, registered[a])
    BY <2>1 DEF IndInv, RegistrationFrozen
  <2>3. /\ registered[a] \in Seq(RegisteredVoters) /\ Accepted(a, registered[a])
        /\ Fits(registered[a])
    BY HonestList
  <2>4. validate_finalized_registration(finalized[a], FALSE)
    BY <2>2, <2>3, PostIsValid
  <2>. QED  BY <2>1, <2>4
<1> HIDE DEF ok
<1>3. verification' = [a \in Aggregators |->
                          IF tally_post[a] # None THEN AggregatorVerification(a, TRUE)
                                                  ELSE verification[a]]
  BY <1>1, <1>2
<1>4. HonestLists' /\ PostsValid' /\ TalliesTrue'
  BY <1>1 DEF TallyInv, HonestLists, PostsValid, TalliesTrue, TrueTally, Delegates, Ballots
<1>5. VerificationsTrue'
  <2>1. \A a : AggregatorVerification(a, TRUE).valid = TRUE
    BY DEF AggregatorVerification
  <2>. QED  BY <1>1, <1>3, <2>1 DEF TallyInv, VerificationsTrue
<1>. QED  BY <1>3, <1>4, <1>5 DEF TallyInv

LEMMA InitTallyInv == Init => TallyInv
<1> SUFFICES ASSUME Init PROVE TallyInv
  OBVIOUS
<1>1. HonestLists
  BY DEF Init, HonestLists, Accepted
<1>. QED  BY <1>1 DEF Init, TallyInv, PostsValid, TalliesTrue, VerificationsTrue

LEMMA NextTallyInv == IndInv /\ TallyInv /\ [Next]_vars => TallyInv'
<1> SUFFICES ASSUME IndInv, TallyInv, [Next]_vars
             PROVE  TallyInv'
  OBVIOUS
<1>1. IndInv'
  BY NextIndInv
<1>2. ASSUME NEW p \in PhaseNames, set_phase(p)
      PROVE  TallyInv'
  BY <1>2, QuietStep DEF set_phase
<1>3. ASSUME NEW count \in BatchSizes, demo_create_voters(count)
      PROVE  TallyInv'
  BY <1>3, QuietStep DEF demo_create_voters
<1>4. ASSUME NEW v \in Voters, NEW a \in Aggregators \cup {Stranger}, register_voter(v, a)
      PROVE  TallyInv'
  BY <1>1, <1>4, RegisterTallies
<1>5. ASSUME NEW v \in Voters, NEW c \in CandidateIds \cup {Stranger}, cast_vote(v, c)
      PROVE  TallyInv'
  BY <1>1, <1>5, CastTallies
<1>6. ASSUME NEW a \in Aggregators \cup {Stranger}, finalize_aggregator(a)
      PROVE  TallyInv'
  BY <1>6, FinalizeTallies
<1>7. ASSUME NEW a \in Aggregators \cup {Stranger}, prove_aggregator(a)
      PROVE  TallyInv'
  BY <1>7, ProveTallies
<1>8. ASSUME NEW a \in Aggregators \cup {Stranger}, verify_aggregator(a)
      PROVE  TallyInv'
  BY <1>8, VerifyTallies
<1>9. CASE verify_all
  BY <1>9, VerifyAllTallies
<1>10. CASE UNCHANGED vars
  BY <1>10, QuietStep DEF vars
<1>. QED  BY <1>2, <1>3, <1>4, <1>5, <1>6, <1>7, <1>8, <1>9, <1>10 DEF Next, ReadRequest

\* What is on display is right in every reachable state.
THEOREM TallyInvariance == Spec => [](IndInv /\ TallyInv)
<1>1. Init => IndInv /\ TallyInv
  BY InitIndInv, InitTallyInv
<1>2. (IndInv /\ TallyInv) /\ [Next]_vars => (IndInv /\ TallyInv)'
  BY NextIndInv, NextTallyInv
<1>. QED  BY <1>1, <1>2, PTL DEF Spec

\* In every election, of whatever size and after whatever requests, a finalized aggregator
\* has a registration found valid and can prove a tally that the validator accepts.
THEOREM HonestFlowNeverFails == Spec => []EveryTallyProvable
<1>1. IndInv /\ TallyInv => EveryTallyProvable
  BY TallyNow DEF TallyInv, PostsValid, EveryTallyProvable, ExactTally, TrueTally
<1>. QED  BY <1>1, TallyInvariance, PTL

\* In every election a tally on display accounts for each delegate exactly once and counts
\* no more ballots than the delegates have cast.
THEOREM TalliesAccount == Spec => []TallyAccountsForDelegates
<1>1. IndInv /\ TallyInv => TallyAccountsForDelegates
  BY DEF TallyInv, TalliesTrue, TrueTally, TallyAccountsForDelegates
<1>. QED  BY <1>1, TallyInvariance, PTL

\* In every election a later tally of an aggregator counts at least as many ballots.
THEOREM CountedBallotsStay == Spec => NoBallotLost
<1> DEFINE Keeps == \A a \in Aggregators : tally_post[a] # None =>
              /\ tally_post'[a] # None
              /\ SumFunction(tally_post'[a].candidate_counts)
                    >= SumFunction(tally_post[a].candidate_counts)
<1>1. ASSUME IndInv, TallyInv, [Next]_vars
      PROVE  Keeps
  <2>1. \A a \in Aggregators : tally_post[a] # None =>
           /\ SumFunction(tally_post[a].candidate_counts) \in Nat
           /\ SumFunction(tally_post[a].candidate_counts) <= Cardinality(Ballots(Delegates(a)))
    BY <1>1 DEF TallyInv, TalliesTrue, TrueTally
  <2>2. CASE UNCHANGED tally_post
    BY <2>1, <2>2
  <2>3. ASSUME NEW a, prove_aggregator(a)
        PROVE  Keeps
    <3>1. PICK post : /\ tally_post' = [tally_post EXCEPT ![a] = post]
                      /\ post # None
                      /\ ExactTally(a, post)
      BY <1>1, <2>3, ProveTallies
    <3>2. /\ SumFunction(post.candidate_counts) = Cardinality(Ballots(Delegates(a)))
          /\ SumFunction(post.candidate_counts) \in Nat
      BY <3>1 DEF ExactTally, TrueTally
    <3>3. DOMAIN tally_post = Aggregators
      BY <1>1 DEF IndInv, TypeOK, TallyTypes
    <3>4. \A b \in Aggregators : tally_post'[b] = IF b = a THEN post ELSE tally_post[b]
      BY <3>1, <3>3
    <3>. QED  BY <2>1, <3>1, <3>2, <3>4
  <2>. QED
    BY <1>1, <2>2, <2>3 DEF Next, ReadRequest, vars, set_phase, demo_create_voters,
       register_voter, cast_vote, finalize_aggregator, verify_aggregator, verify_all
<1>2. IndInv /\ TallyInv /\ [Next]_vars => [Keeps]_vars
  BY <1>1
<1>. QED  BY <1>2, TallyInvariance, PTL DEF Spec, NoBallotLost

-----------------------------------------------------------------------------
(* The election implements BallotBox: the roll, the counts and the accepted *)
(* aggregators of a state, and what each step does to them.                 *)

RollOf    == [a \in Aggregators |-> IF finalized[a] = None THEN None ELSE Roll(finalized[a])]
CountsOf  == [a \in Aggregators |->
                 IF tally_post[a] = None THEN None ELSE CountPerCandidate(tally_post[a])]
AcceptedOf == {a \in Aggregators : verification[a] # None /\ verification[a].valid}

\* What the abstract values of an honest aggregator are.
LEMMA RollIs ==
    ASSUME IndInv, TallyInv, NEW a \in Aggregators
    PROVE  Roll(finalize_registration(a, registered[a])) = Delegates(a)
<1> DEFINE list == registered[a]
           k == Len(list)
           n == required_domain_size(k)
           post == finalize_registration(a, list)
<1>1. list \in Seq(RegisteredVoters) /\ Fits(list)
  BY HonestList
<1>2. MadeOf(post, a, list, k, n)
  BY <1>1, PostParts
<1>3. VotersIn(list, DOMAIN list) = Delegates(a)
  BY BallotsHeld
<1> HIDE DEF list, k, n, post
<1>4. DOMAIN list = DOMAIN post.voters
      /\ \A i \in DOMAIN list : post.voters[i].voter_id = list[i].voter_id
  BY <1>2 DEF MadeOf
<1>5. Roll(post) = Delegates(a)
  BY <1>3, <1>4 DEF Roll, VotersIn
<1>. QED  BY <1>5 DEF post, list

LEMMA CountsAre ==
    ASSUME IndInv, NEW a \in Aggregators, NEW post, ExactTally(a, post)
    PROVE  CountPerCandidate(post) = [c \in CandidateIds |-> Cardinality({v \in Delegates(a) : vote[v] = c})]
<1> SUFFICES ASSUME NEW c \in CandidateIds
             PROVE  post.candidate_counts[candidate_position(c)]
                       = Cardinality({v \in Delegates(a) : vote[v] = c})
  BY DEF CountPerCandidate
<1>1. candidate_position(c) \in DOMAIN Candidates
  BY PositionsDiffer
<1>2. \A v \in Voters : vote[v] # None => vote[v] \in CandidateIds
  BY BallotsHeld
<1>3. \A v \in Ballots(Delegates(a)) :
         candidate_position(vote[v]) = candidate_position(c) <=> vote[v] = c
  <2>1. \A v \in Ballots(Delegates(a)) : vote[v] \in CandidateIds
    BY <1>2 DEF Ballots, Delegates
  <2>. QED  BY <2>1, PositionsDiffer
<1>4. {v \in Ballots(Delegates(a)) : candidate_position(vote[v]) = candidate_position(c)}
         = {v \in Delegates(a) : vote[v] = c}
  <2>1. c # None
    BY IdsAssumption
  <2>2. \A v : v \in Ballots(Delegates(a)) <=> v \in Delegates(a) /\ vote[v] # None
    BY DEF Ballots
  <2>. QED  BY <1>3, <2>1, <2>2
<1>. QED  BY <1>1, <1>4 DEF ExactTally

\* The abstract variables change only with the concrete ones they are made from.
LEMMA BoxQuiet ==
    ASSUME UNCHANGED <<registered_with, vote, finalized, tally_post, verification>>
    PROVE  UNCHANGED Box!ballotVars
BY DEF Box!ballotVars, Roll, CountPerCandidate

LEMMA BoxDelegate ==
    ASSUME IndInv, NEW v \in Voters, NEW a, register_voter(v, a)
    PROVE  a \in Aggregators /\ Box!Delegate(v, a)
<1>1. /\ a \in Aggregators
      /\ registered_with[v] = None
      /\ finalized[a] = None
      /\ registered_with' = [registered_with EXCEPT ![v] = a]
      /\ UNCHANGED <<vote, finalized, tally_post, verification>>
  BY DEF register_voter, MayRegister
<1>2. UNCHANGED <<vote, RollOf, CountsOf, AcceptedOf>> /\ RollOf[a] = None
  BY <1>1 DEF RollOf, CountsOf, AcceptedOf, Roll, CountPerCandidate
<1>. QED  BY <1>1, <1>2 DEF Box!Delegate, RollOf, CountsOf, AcceptedOf

LEMMA BoxCast ==
    ASSUME IndInv, NEW v \in Voters, NEW c, cast_vote(v, c)
    PROVE  c \in CandidateIds /\ Box!Cast(v, c)
<1>1. /\ c \in CandidateIds
      /\ registered_with[v] # None
      /\ vote' = [vote EXCEPT ![v] = c]
      /\ UNCHANGED <<registered_with, finalized, tally_post, verification>>
  BY DEF cast_vote
<1>2. UNCHANGED <<registered_with, RollOf, CountsOf, AcceptedOf>>
  BY <1>1 DEF RollOf, CountsOf, AcceptedOf, Roll, CountPerCandidate
<1>. QED  BY <1>1, <1>2 DEF Box!Cast, RollOf, CountsOf, AcceptedOf

LEMMA BoxFixRoll ==
    ASSUME IndInv, TallyInv, NEW a, finalize_aggregator(a)
    PROVE  a \in Aggregators /\ Box!FixRoll(a)
<1> DEFINE post == finalize_registration(a, registered[a])
<1>1. /\ a \in Aggregators
      /\ finalized[a] = None
      /\ finalized' = [finalized EXCEPT ![a] = post]
      /\ UNCHANGED <<registered_with, vote, tally_post, verification>>
  BY DEF finalize_aggregator
<1>2. post # None /\ Roll(post) = {v \in Voters : registered_with[v] = a}
  BY <1>1, NotNone, RollIs DEF Delegates
<1>3. DOMAIN finalized = Aggregators
  BY DEF IndInv, TypeOK, RegistrationPostTypes
<1> HIDE DEF post
<1>4. \A b \in Aggregators : finalized'[b] = IF b = a THEN post ELSE finalized[b]
  BY <1>1, <1>3
<1>5. RollOf[a] = None
  BY <1>1 DEF RollOf
<1>6. RollOf' = [RollOf EXCEPT ![a] = {v \in Voters : registered_with[v] = a}]
  <2>1. RollOf' = [b \in Aggregators |-> IF finalized'[b] = None THEN None ELSE Roll(finalized'[b])]
    BY DEF RollOf, Roll
  <2>2. ASSUME NEW b \in Aggregators
        PROVE  (IF finalized'[b] = None THEN None ELSE Roll(finalized'[b]))
                  = IF b = a THEN {v \in Voters : registered_with[v] = a} ELSE RollOf[b]
    BY <1>2, <1>4, <2>2 DEF RollOf
  <2> DEFINE new == {v \in Voters : registered_with[v] = a}
  <2>3. RollOf' = [b \in Aggregators |-> IF b = a THEN new ELSE RollOf[b]]
    BY <2>1, <2>2
  <2>4. DOMAIN RollOf = Aggregators
    BY DEF RollOf
  <2>5. [RollOf EXCEPT ![a] = new] = [b \in Aggregators |-> IF b = a THEN new ELSE RollOf[b]]
    <3> HIDE DEF new
    <3>. QED  BY <2>4
  <2>. QED  BY <2>3, <2>5
<1>7. UNCHANGED <<registered_with, vote, CountsOf, AcceptedOf>>
  BY <1>1 DEF CountsOf, AcceptedOf, CountPerCandidate
<1>. QED  BY <1>1, <1>5, <1>6, <1>7 DEF Box!FixRoll, RollOf, CountsOf, AcceptedOf

\* Cardinality, as BallotBox has it from its own use of FiniteSets.
LEMMA SameCardinality == \A S : Box!Cardinality(S) = Cardinality(S)
BY DEF Box!Cardinality, Cardinality

LEMMA BoxPublish ==
    ASSUME IndInv, TallyInv, NEW a, prove_aggregator(a)
    PROVE  a \in Aggregators /\ Box!Publish(a)
<1> DEFINE new == [c \in CandidateIds |-> Cardinality({v \in RollOf[a] : vote[v] = c})]
<1>1. /\ UNCHANGED <<registered_with, vote, finalized, verification>>
      /\ a \in Aggregators /\ finalized[a] # None
  BY DEF prove_aggregator
<1>2. PICK post : /\ tally_post' = [tally_post EXCEPT ![a] = post]
                  /\ post # None
                  /\ ExactTally(a, post)
  BY ProveTallies
<1>3. RollOf[a] = Delegates(a)
  <2>1. finalized[a] = finalize_registration(a, registered[a])
    BY <1>1 DEF IndInv, RegistrationFrozen
  <2>2. Roll(finalized[a]) = Delegates(a)
    BY <1>1, <2>1, RollIs
  <2>. QED  BY <1>1, <2>2 DEF RollOf
<1>4. RollOf[a] # None
  <2>1. Delegates(a) \in SUBSET Voters
    BY DEF Delegates
  <2>. QED  BY <1>3, <2>1, NoneAssumption
<1>5. CountPerCandidate(post) = new
  <2>1. CountPerCandidate(post)
           = [c \in CandidateIds |-> Cardinality({v \in Delegates(a) : vote[v] = c})]
    BY <1>1, <1>2, CountsAre
  <2>. QED  BY <1>3, <2>1
<1>6. DOMAIN tally_post = Aggregators
  BY DEF IndInv, TypeOK, TallyTypes
<1>7. \A b \in Aggregators : tally_post'[b] = IF b = a THEN post ELSE tally_post[b]
  BY <1>2, <1>6
<1> HIDE DEF new
<1>8. CountsOf' = [CountsOf EXCEPT ![a] = new]
  <2>1. CountsOf' = [b \in Aggregators |->
                        IF tally_post'[b] = None THEN None ELSE CountPerCandidate(tally_post'[b])]
    BY DEF CountsOf, CountPerCandidate
  <2>2. ASSUME NEW b \in Aggregators
        PROVE  (IF tally_post'[b] = None THEN None ELSE CountPerCandidate(tally_post'[b]))
                  = IF b = a THEN new ELSE CountsOf[b]
    BY <1>2, <1>5, <1>7, <2>2 DEF CountsOf
  <2>3. CountsOf' = [b \in Aggregators |-> IF b = a THEN new ELSE CountsOf[b]]
    BY <2>1, <2>2
  <2>4. DOMAIN CountsOf = Aggregators
    BY DEF CountsOf
  <2>5. [CountsOf EXCEPT ![a] = new] = [b \in Aggregators |-> IF b = a THEN new ELSE CountsOf[b]]
    BY <2>4
  <2>. QED  BY <2>3, <2>5
<1>9. UNCHANGED <<registered_with, vote, RollOf, AcceptedOf>>
  BY <1>1 DEF RollOf, AcceptedOf, Roll
<1>10. CountsOf' = [CountsOf EXCEPT ![a] =
                       [c \in CandidateIds |-> Box!Cardinality({v \in RollOf[a] : vote[v] = c})]]
  BY <1>8, SameCardinality DEF new
<1>11. Box!Publish(a)
  BY <1>4, <1>9, <1>10, Zenon DEF Box!Publish, RollOf, CountsOf, AcceptedOf
<1>. QED  BY <1>1, <1>11

\* A verification adds its aggregators to the accepted ones and takes none away.
LEMMA BoxAccept ==
    ASSUME IndInv, TallyInv, NEW S \in SUBSET Aggregators,
           \A a \in S : tally_post[a] # None,
           verification' = [a \in Aggregators |->
               IF a \in S THEN AggregatorVerification(a, TRUE) ELSE verification[a]],
           UNCHANGED <<registered_with, vote, finalized, tally_post>>
    PROVE  \E T \in SUBSET Aggregators : Box!Accept(T)
<1>1. \A a \in S : CountsOf[a] # None
  <2>1. ASSUME NEW a \in S
        PROVE  CountPerCandidate(tally_post[a]) \in [CandidateIds -> Nat]
    <3>1. TrueTally(a, tally_post[a])
      BY DEF TallyInv, TalliesTrue
    <3>2. \A c \in CandidateIds : tally_post[a].candidate_counts[candidate_position(c)] \in Nat
      BY <3>1, PositionsDiffer DEF TrueTally
    <3>. QED  BY <3>2 DEF CountPerCandidate
  <2>. QED  BY <2>1, NoneAssumption DEF CountsOf
<1>2. \A a \in Aggregators : /\ AggregatorVerification(a, TRUE).valid = TRUE
                             /\ AggregatorVerification(a, TRUE) # None
  <2> DEFINE Results == [aggregator_id : Aggregators, valid : BOOLEAN]
  <2>1. \A a \in Aggregators : AggregatorVerification(a, TRUE) \in Results
    BY DEF AggregatorVerification
  <2>2. \A a \in Aggregators : AggregatorVerification(a, TRUE).valid = TRUE
    BY DEF AggregatorVerification
  <2>3. None \notin Results
    BY NoneAssumption
  <2> HIDE DEF Results
  <2>. QED  BY <2>1, <2>2, <2>3
<1>3. AcceptedOf' = AcceptedOf \cup S
  BY <1>2 DEF AcceptedOf
<1>4. UNCHANGED <<registered_with, vote, RollOf, CountsOf>>
  BY DEF RollOf, CountsOf, Roll, CountPerCandidate
<1>5. Box!Accept(S)
  BY <1>1, <1>3, <1>4 DEF Box!Accept, RollOf, CountsOf, AcceptedOf
<1>. QED  BY <1>5

LEMMA BoxVerify ==
    ASSUME IndInv, TallyInv, NEW a, verify_aggregator(a)
    PROVE  \E T \in SUBSET Aggregators : Box!Accept(T)
<1>1. /\ a \in Aggregators /\ tally_post[a] # None
      /\ verification' = [verification EXCEPT ![a] = AggregatorVerification(a, TRUE)]
  BY VerifyTallies
<1>2. UNCHANGED <<registered_with, vote, finalized, tally_post>>
  BY DEF verify_aggregator
<1>3. DOMAIN verification = Aggregators
      /\ verification = [b \in Aggregators |-> verification[b]]
  BY DEF IndInv, TypeOK, TallyTypes
<1>4. verification' = [b \in Aggregators |->
                          IF b \in {a} THEN AggregatorVerification(b, TRUE) ELSE verification[b]]
  BY <1>1, <1>3
<1>. QED  BY <1>1, <1>2, <1>4, BoxAccept

LEMMA BoxVerifyAll ==
    ASSUME IndInv, TallyInv, verify_all
    PROVE  \E T \in SUBSET Aggregators : Box!Accept(T)
<1> DEFINE S == {a \in Aggregators : tally_post[a] # None}
<1>1. verification' = [a \in Aggregators |->
                          IF a \in S THEN AggregatorVerification(a, TRUE) ELSE verification[a]]
  BY VerifyAllTallies
<1>2. UNCHANGED <<registered_with, vote, finalized, tally_post>>
  BY DEF verify_all
<1>3. S \in SUBSET Aggregators /\ \A a \in S : tally_post[a] # None
  OBVIOUS
<1> HIDE DEF S
<1>. QED  BY <1>1, <1>2, <1>3, BoxAccept

LEMMA InitBox == Init => Box!Init
BY DEF Init, Box!Init

LEMMA NextBox == IndInv /\ TallyInv /\ [Next]_vars => [Box!Next]_(Box!ballotVars)
<1> SUFFICES ASSUME IndInv, TallyInv, [Next]_vars
             PROVE  Box!Next \/ UNCHANGED Box!ballotVars
  OBVIOUS
<1>1. ASSUME NEW p \in PhaseNames, set_phase(p)
      PROVE  UNCHANGED Box!ballotVars
  BY <1>1, BoxQuiet DEF set_phase
<1>2. ASSUME NEW count \in BatchSizes, demo_create_voters(count)
      PROVE  UNCHANGED Box!ballotVars
  BY <1>2, BoxQuiet DEF demo_create_voters
<1>3. ASSUME NEW v \in Voters, NEW a \in Aggregators \cup {Stranger}, register_voter(v, a)
      PROVE  Box!Next
  BY <1>3, BoxDelegate DEF Box!Next
<1>4. ASSUME NEW v \in Voters, NEW c \in CandidateIds \cup {Stranger}, cast_vote(v, c)
      PROVE  Box!Next
  BY <1>4, BoxCast DEF Box!Next
<1>5. ASSUME NEW a \in Aggregators \cup {Stranger}, finalize_aggregator(a)
      PROVE  Box!Next
  BY <1>5, BoxFixRoll DEF Box!Next
<1>6. ASSUME NEW a \in Aggregators \cup {Stranger}, prove_aggregator(a)
      PROVE  Box!Next
  BY <1>6, BoxPublish DEF Box!Next
<1>7. ASSUME NEW a \in Aggregators \cup {Stranger}, verify_aggregator(a)
      PROVE  Box!Next
  BY <1>7, BoxVerify DEF Box!Next
<1>8. CASE verify_all
  BY <1>8, BoxVerifyAll DEF Box!Next
<1>9. CASE UNCHANGED vars
  BY <1>9, BoxQuiet DEF vars
<1>. QED  BY <1>1, <1>2, <1>3, <1>4, <1>5, <1>6, <1>7, <1>8, <1>9 DEF Next, ReadRequest

\* Every election, of whatever size and after whatever requests, is one of BallotBox.
THEOREM ElectionImplementsBallotBox == Spec => ImplementsBallotBox
<1>1. IndInv /\ TallyInv /\ [Next]_vars => [Box!Next]_(Box!ballotVars)
  BY NextBox
<1>. QED  BY <1>1, InitBox, TallyInvariance, PTL DEF Spec, Box!Spec, ImplementsBallotBox

-----------------------------------------------------------------------------
(* The global tally.  An id given twice in the request that creates an     *)
(* election is counted twice, so the ids are distinct here.                *)

DistinctAggregators ==
    \A i, j \in DOMAIN AggregatorList : AggregatorList[i] = AggregatorList[j] => i = j

\* What Collect lists.
LEMMA CollectIs ==
    ASSUME NEW f
    PROVE  LET places == {i \in DOMAIN AggregatorList : f[AggregatorList[i]] # None}
               N      == Cardinality(places)
           IN  /\ N \in Nat
               /\ DOMAIN Collect(f) = 1..N
               /\ \A n \in 1..N : /\ Nth(places, n) \in places
                                  /\ Collect(f)[n] = f[AggregatorList[Nth(places, n)]]
               /\ \A i \in places : \E n \in 1..N : Nth(places, n) = i
               /\ \A l, n \in 1..N : l # n => Nth(places, l) # Nth(places, n)
<1> DEFINE places == {i \in DOMAIN AggregatorList : f[AggregatorList[i]] # None}
           s == [i \in DOMAIN AggregatorList |-> f[AggregatorList[i]]]
           N == Cardinality(places)
<1>1. places \in SUBSET Nat /\ IsFiniteSet(places)
  <2> DEFINE l == Len(AggregatorList)
  <2>1. l \in Nat /\ DOMAIN AggregatorList = 1..l
    BY AggregatorsAssumption
  <2> HIDE DEF l
  <2>2. IsFiniteSet(1..l)
    <3>1. 1 \in Int /\ l \in Int
      BY <2>1
    <3>. QED  BY <3>1, FS_Interval
  <2>3. places \in SUBSET (1..l)
    BY <2>1
  <2>. QED  BY <2>1, <2>2, <2>3, FS_Subset
<1>2. Collect(f) = ElementsAt(s, places)
  BY DEF Collect
<1>3. \A i \in places : s[i] = f[AggregatorList[i]]
  OBVIOUS
<1> HIDE DEF places, s
<1>4. /\ N \in Nat
      /\ DOMAIN Collect(f) = 1..N
      /\ \A n \in 1..N : Nth(places, n) \in places /\ Collect(f)[n] = s[Nth(places, n)]
      /\ \A i \in places : \E n \in 1..N : Nth(places, n) = i
      /\ \A l, n \in 1..N : l # n => Nth(places, l) # Nth(places, n)
  BY <1>1, <1>2, ElementsAtIs
<1>5. \A n \in 1..N : Collect(f)[n] = f[AggregatorList[Nth(places, n)]]
  BY <1>3, <1>4
<1>. QED  BY <1>4, <1>5 DEF places

LEMMA GlobalTallyBounded ==
    ASSUME DistinctAggregators, IndInv, TallyInv
    PROVE  NoBallotCountedTwice
<1> DEFINE places == {i \in DOMAIN AggregatorList : tally_post[AggregatorList[i]] # None}
           N == Cardinality(places)
           posts == Collect(tally_post)
           verifications == Collect(verification)
           verified == {verifications[k].aggregator_id :
                           k \in {i \in DOMAIN verifications : verifications[i].valid}}
           total == published_global_tally
           agg(n) == AggregatorList[Nth(places, n)]
           Good == {n \in 1..N : posts[n].aggregator_id \in verified}
           own == [v \in Voters |-> CHOOSE n \in 1..N : agg(n) = registered_with[v]]
           good(n, bc) == /\ bc[1] \in SUBSET Ballots(Delegates(agg(n)))
                          /\ bc[2] \in [bc[1] -> DOMAIN Candidates]
                          /\ \A j \in DOMAIN Candidates :
                                posts[n].candidate_counts[j] = Cardinality(PartOf(bc[1], bc[2], j))
           B == [n \in 1..N |-> (CHOOSE bc : good(n, bc))[1]]
           choice == [n \in 1..N |-> (CHOOSE bc : good(n, bc))[2]]
           c == [n \in 1..N |-> posts[n].candidate_counts]
<1>1. /\ N \in Nat /\ DOMAIN posts = 1..N
      /\ \A n \in 1..N : Nth(places, n) \in places /\ posts[n] = tally_post[agg(n)]
      /\ \A l, n \in 1..N : l # n => Nth(places, l) # Nth(places, n)
  BY CollectIs
<1>2. /\ \A n \in 1..N : agg(n) \in Aggregators /\ tally_post[agg(n)] # None
      /\ \A l, n \in 1..N : agg(l) = agg(n) => l = n
  <2>1. \A n \in 1..N : Nth(places, n) \in DOMAIN AggregatorList
    BY <1>1
  <2>. QED  BY <1>1, <2>1, ZenonT(60) DEF DistinctAggregators, Aggregators
<1>3. total = [j \in DOMAIN Candidates |->
                  SumFunction([n \in 1..N |->
                      IF n \in Good THEN c[n][j] ELSE 0])]
  <2>1. total = [j \in DOMAIN Candidates |->
                    SumFunction([n \in DOMAIN posts |->
                        IF posts[n].aggregator_id \in verified
                        THEN posts[n].candidate_counts[j] ELSE 0])]
    BY DEF published_global_tally, global_tally
  <2> HIDE DEF posts, verified, N, total
  <2>2. ASSUME NEW j
        PROVE  [n \in DOMAIN posts |-> IF posts[n].aggregator_id \in verified
                                       THEN posts[n].candidate_counts[j] ELSE 0]
                  = [n \in 1..N |-> IF n \in Good THEN c[n][j] ELSE 0]
    BY <1>1
  <2>. QED  BY <2>1, <2>2
<1>4. ASSUME NEW n \in 1..N
      PROVE  good(n, <<B[n], choice[n]>>)
  <2>1. CountsBallotsOf(Ballots(Delegates(agg(n))), posts[n].candidate_counts)
    BY <1>1, <1>2 DEF TallyInv, TalliesTrue, TrueTally
  <2> HIDE DEF posts, agg, N
  <2>2. PICK b \in SUBSET Ballots(Delegates(agg(n))) : \E ch \in [b -> DOMAIN Candidates] :
           \A j \in DOMAIN Candidates :
              posts[n].candidate_counts[j] = Cardinality(PartOf(b, ch, j))
    BY <2>1 DEF CountsBallotsOf
  <2>3. PICK ch \in [b -> DOMAIN Candidates] : \A j \in DOMAIN Candidates :
           posts[n].candidate_counts[j] = Cardinality(PartOf(b, ch, j))
    BY <2>2
  <2>4. good(n, <<b, ch>>)
    BY <2>2, <2>3
  <2> HIDE DEF good
  <2> DEFINE bc == CHOOSE bc : good(n, bc)
  <2>5. good(n, bc)
    BY <2>4
  <2>6. B[n] = bc[1] /\ choice[n] = bc[2]
    OBVIOUS
  <2> HIDE DEF bc, B, choice
  <2>. QED  BY <2>5, <2>6 DEF good
<1> HIDE DEF places, posts, verifications, verified, total, B, choice, N
<1>5. ASSUME NEW n \in Good
      PROVE  /\ B[n] \subseteq Ballots(Voters)
             /\ \A v \in B[n] : own[v] = n /\ choice[n][v] \in DOMAIN Candidates
             /\ \A j \in DOMAIN Candidates : c[n][j] = Cardinality(PartOf(B[n], choice[n], j))
  <2>1. /\ B[n] \in SUBSET Ballots(Delegates(agg(n)))
        /\ choice[n] \in [B[n] -> DOMAIN Candidates]
        /\ \A j \in DOMAIN Candidates :
              posts[n].candidate_counts[j] = Cardinality(PartOf(B[n], choice[n], j))
    BY <1>4
  <2>2. ASSUME NEW v \in B[n]
        PROVE  v \in Voters /\ v \in Ballots(Voters) /\ registered_with[v] = agg(n)
    BY <2>1 DEF Ballots, Delegates
  <2>3. ASSUME NEW v \in B[n]
        PROVE  own[v] = n
    BY <1>2, <2>2
  <2>. QED  BY <2>1, <2>2, <2>3
<1> HIDE DEF Good, own, c, good, agg
<1>6. IsFiniteSet(Ballots(Voters))
  <2>1. IsFiniteSet(Voters)
    BY BoundsAssumption, FS_Interval DEF Voters
  <2>2. Ballots(Voters) \in SUBSET Voters
    BY DEF Ballots
  <2>. QED  BY <2>1, <2>2, FS_Subset
<1>7. IsFiniteSet(DOMAIN Candidates)
  <2> DEFINE m == Len(Candidates)
  <2>1. m \in Nat /\ DOMAIN Candidates = 1..m
    BY CandidatesAssumption
  <2> HIDE DEF m
  <2>2. 1 \in Int /\ m \in Int
    BY <2>1
  <2>. QED  BY <2>1, <2>2, FS_Interval
<1>8. Good \in SUBSET (1..N)
  BY DEF Good
<1>9. /\ DOMAIN total = DOMAIN Candidates
      /\ \A j \in DOMAIN Candidates :
            total[j] = SumFunction([n \in 1..N |-> IF n \in Good THEN c[n][j] ELSE 0])
  BY <1>3
<1>10. SumFunction(total) <= Cardinality(Ballots(Voters))
  <2> DEFINE S == Ballots(Voters)
             J == DOMAIN Candidates
  <2>1. Tallied(S, J, Good, own, B, choice, c)
    BY <1>5 DEF Tallied
  <2>2. /\ IsFiniteSet(S) /\ IsFiniteSet(J) /\ DOMAIN total = J /\ N \in Nat
        /\ Adding(total, N, J, Good, c)
    BY <1>1, <1>6, <1>7, <1>9 DEF Adding
  <2> HIDE DEF S, J
  <2>3. SumFunction(total) <= Cardinality(S)
    BY <1>8, <2>1, <2>2, SumOfTallies
  <2>. QED  BY <2>3 DEF S
<1>. QED  BY <1>10 DEF NoBallotCountedTwice, total

\* In every election whose aggregator ids are distinct, the published global tally counts
\* no more ballots than there are voters with one.
THEOREM BallotsCountedOnce ==
    ASSUME DistinctAggregators
    PROVE  Spec => []NoBallotCountedTwice
<1>1. IndInv /\ TallyInv => NoBallotCountedTwice
  BY GlobalTallyBounded
<1>. QED  BY <1>1, TallyInvariance, PTL

-----------------------------------------------------------------------------
(* The bulletin board, event by event *)

IsList(s) == Len(s) \in Nat /\ s = [i \in 1..Len(s) |-> s[i]]

\* The board got these events, after all that were there.
Added(events) ==
    /\ Len(events) \in Nat
    /\ Len(bulletin') = Len(bulletin) + Len(events)
    /\ DOMAIN bulletin = 1..Len(bulletin)
    /\ DOMAIN bulletin' = 1..Len(bulletin')
    /\ \A i \in 1..Len(bulletin) : bulletin'[i] = bulletin[i]
    /\ \A i \in 1..Len(events) : bulletin'[Len(bulletin) + i] = events[i]

\* Where the events of a kind, and those of an aggregator, among them are.
NewOf(events, kind) ==
    {Len(bulletin) + i : i \in {k \in 1..Len(events) : events[k].kind = kind}}

NewOfId(events, kind, a) ==
    {Len(bulletin) + i : i \in {k \in 1..Len(events) :
        events[k].kind = kind /\ events[k].aggregator_id = a}}

\* The length of a function on 1..n is n.
LEMMA LengthIs ==
    ASSUME NEW n \in Nat, NEW s, s = [i \in 1..n |-> s[i]]
    PROVE  Len(s) = n
<1> DEFINE S == {s[i] : i \in 1..n}
<1>1. s \in [1..n -> S]
  <2>1. \A i \in 1..n : s[i] \in S
    OBVIOUS
  <2> HIDE DEF S
  <2>. QED  BY <2>1
<1> HIDE DEF S
<1>. QED  BY <1>1

\* post_bulletin adds the events behind those there are.
LEMMA Posting ==
    ASSUME IsList(bulletin), NEW events, IsList(events), post_bulletin(events)
    PROVE  IsList(bulletin)' /\ Added(events)
<1> DEFINE k == Len(bulletin)
           m == Len(events)
           t == bulletin \o events
<1>1. k \in Nat /\ m \in Nat /\ bulletin = [i \in 1..k |-> bulletin[i]]
      /\ events = [i \in 1..m |-> events[i]]
  BY DEF IsList
<1>2. bulletin' = t
  BY DEF post_bulletin
<1>3. t = [i \in 1..(k + m) |-> IF i <= k THEN bulletin[i] ELSE events[i - k]]
  <2> HIDE DEF k, m
  <2>. QED  BY <1>1, Concatenated
<1> HIDE DEF t
<1>4. t = [i \in 1..(k + m) |-> t[i]] /\ k + m \in Nat /\ DOMAIN t = 1..(k + m)
  <2> HIDE DEF k, m
  <2>. QED  BY <1>1, <1>3
<1>5. Len(t) = k + m
  <2> HIDE DEF k, m
  <2>. QED  BY <1>4, LengthIs
<1>6. \A i \in 1..k : t[i] = bulletin[i]
  <2> HIDE DEF k, m
  <2>. QED  BY <1>1, <1>3
<1>7. \A i \in 1..m : t[k + i] = events[i]
  <2> HIDE DEF k, m
  <2>1. ASSUME NEW i \in 1..m
        PROVE  t[k + i] = events[i]
    <3>1. k + i \in 1..(k + m) /\ ~(k + i <= k) /\ (k + i) - k = i
      BY <1>1
    <3>. QED  BY <1>3, <3>1
  <2>. QED  BY <2>1
<1>8. IsList(t)
  BY <1>4, <1>5 DEF IsList
<1>9. DOMAIN bulletin = 1..k
  BY <1>1
<1>. QED  BY <1>1, <1>2, <1>4, <1>5, <1>6, <1>7, <1>8, <1>9 DEF IsList, Added

\* The events of a kind are those of before and the new ones.
LEMMA EventsAdded ==
    ASSUME IsList(bulletin), NEW events, Added(events), NEW kind
    PROVE  /\ Events(kind)' = Events(kind) \cup NewOf(events, kind)
           /\ Events(kind) \subseteq 1..Len(bulletin)
           /\ \A a : /\ EventsOf(kind, a)' = EventsOf(kind, a) \cup NewOfId(events, kind, a)
                     /\ EventsOf(kind, a) \subseteq 1..Len(bulletin)
<1> DEFINE k == Len(bulletin)
           m == Len(events)
<1>1. /\ k \in Nat /\ m \in Nat /\ DOMAIN bulletin = 1..k /\ DOMAIN bulletin' = 1..(k + m)
      /\ \A i \in 1..k : bulletin'[i] = bulletin[i]
      /\ \A i \in 1..m : bulletin'[k + i] = events[i]
  BY DEF IsList, Added
<1> HIDE DEF k, m
<1>2. ASSUME NEW i \in 1..(k + m)
      PROVE  i \in 1..k \/ \E j \in 1..m : i = k + j
  <2>1. i \in 1..k \/ (i - k \in 1..m /\ i = k + (i - k))
    BY <1>1
  <2>. QED  BY <2>1
<1>3. /\ \A i \in 1..k : i \in 1..(k + m)
      /\ \A j \in 1..m : k + j \in 1..(k + m) /\ k + j \notin 1..k
  BY <1>1
<1>4. /\ Events(kind)' = {i \in 1..(k + m) : bulletin'[i].kind = kind}
      /\ Events(kind) = {i \in 1..k : bulletin[i].kind = kind}
      /\ NewOf(events, kind) = {k + i : i \in {j \in 1..m : events[j].kind = kind}}
  BY <1>1 DEF Events, NewOf, k, m
<1>5. Events(kind)' = Events(kind) \cup NewOf(events, kind)
  <2>1. ASSUME NEW i \in 1..(k + m)
        PROVE  bulletin'[i].kind = kind <=>
                  i \in Events(kind) \/ i \in NewOf(events, kind)
    <3>1. CASE i \in 1..k
      <4>1. i \notin NewOf(events, kind)
        BY <1>3, <1>4, <3>1
      <4>. QED  BY <1>1, <1>4, <3>1, <4>1
    <3>2. ASSUME NEW j \in 1..m, i = k + j
          PROVE  bulletin'[i].kind = kind <=>
                    i \in Events(kind) \/ i \in NewOf(events, kind)
      <4>1. i \notin 1..k /\ bulletin'[i] = events[j]
        BY <1>1, <1>3, <3>2
      <4>2. \A l \in 1..m : i = k + l => l = j
        BY <1>1, <3>2
      <4>. QED  BY <1>4, <3>2, <4>1, <4>2
    <3>. QED  BY <1>2, <3>1, <3>2
  <2>2. Events(kind) \cup NewOf(events, kind) \subseteq 1..(k + m)
    BY <1>3, <1>4
  <2>. QED  BY <1>4, <2>1, <2>2
<1>6. ASSUME NEW a
      PROVE  EventsOf(kind, a)' = EventsOf(kind, a) \cup NewOfId(events, kind, a)
  <2>1. /\ EventsOf(kind, a)' =
              {i \in 1..(k + m) : bulletin'[i].kind = kind /\ bulletin'[i].aggregator_id = a}
        /\ EventsOf(kind, a) =
              {i \in 1..k : bulletin[i].kind = kind /\ bulletin[i].aggregator_id = a}
        /\ NewOfId(events, kind, a) = {k + i : i \in {j \in 1..m :
              events[j].kind = kind /\ events[j].aggregator_id = a}}
    BY <1>4 DEF EventsOf, NewOfId, k, m
  <2>2. ASSUME NEW i \in 1..(k + m)
        PROVE  bulletin'[i].kind = kind /\ bulletin'[i].aggregator_id = a <=>
                  i \in EventsOf(kind, a) \/ i \in NewOfId(events, kind, a)
    <3>1. CASE i \in 1..k
      <4>1. i \notin NewOfId(events, kind, a)
        BY <1>3, <2>1, <3>1
      <4>. QED  BY <1>1, <2>1, <3>1, <4>1
    <3>2. ASSUME NEW j \in 1..m, i = k + j
          PROVE  bulletin'[i].kind = kind /\ bulletin'[i].aggregator_id = a <=>
                    i \in EventsOf(kind, a) \/ i \in NewOfId(events, kind, a)
      <4>1. i \notin 1..k /\ bulletin'[i] = events[j]
        BY <1>1, <1>3, <3>2
      <4>2. \A l \in 1..m : i = k + l => l = j
        BY <1>1, <3>2
      <4>. QED  BY <2>1, <3>2, <4>1, <4>2
    <3>. QED  BY <1>2, <3>1, <3>2
  <2>3. EventsOf(kind, a) \cup NewOfId(events, kind, a) \subseteq 1..(k + m)
    BY <1>3, <2>1
  <2>. QED  BY <2>1, <2>2, <2>3
<1>. QED  BY <1>4, <1>5, <1>6 DEF EventsOf, k

\* What is new when one event is posted.
LEMMA OneEvent ==
    ASSUME NEW e
    PROVE  /\ IsList(<<e>>) /\ Len(<<e>>) = 1 /\ <<e>>[1] = e
           /\ \A kind : NewOf(<<e>>, kind) = IF e.kind = kind THEN {Len(bulletin) + 1} ELSE {}
           /\ \A kind, a : NewOfId(<<e>>, kind, a) =
                 IF e.kind = kind /\ e.aggregator_id = a THEN {Len(bulletin) + 1} ELSE {}
<1>1. IsList(<<e>>) /\ Len(<<e>>) = 1 /\ <<e>>[1] = e
  BY DEF IsList
<1>2. 1..1 = {1}
  OBVIOUS
<1>. QED  BY <1>1, <1>2 DEF NewOf, NewOfId

\* What is new when two events of different kinds are posted.
LEMMA TwoEvents ==
    ASSUME NEW d, NEW e, d.kind # e.kind
    PROVE  /\ IsList(<<d, e>>) /\ Len(<<d, e>>) = 2 /\ <<d, e>>[1] = d /\ <<d, e>>[2] = e
           /\ \A kind : NewOf(<<d, e>>, kind) =
                 IF d.kind = kind THEN {Len(bulletin) + 1}
                 ELSE IF e.kind = kind THEN {Len(bulletin) + 2} ELSE {}
           /\ \A kind, a : NewOfId(<<d, e>>, kind, a) =
                 IF d.kind = kind /\ d.aggregator_id = a THEN {Len(bulletin) + 1}
                 ELSE IF e.kind = kind /\ e.aggregator_id = a THEN {Len(bulletin) + 2} ELSE {}
<1>1. IsList(<<d, e>>) /\ Len(<<d, e>>) = 2 /\ <<d, e>>[1] = d /\ <<d, e>>[2] = e
  BY DEF IsList
<1>2. 1..2 = {1, 2}
  OBVIOUS
<1> DEFINE s == <<d, e>>
<1>3. Len(s) = 2 /\ s[1] = d /\ s[2] = e
  BY <1>1
<1> HIDE DEF s
<1>4. ASSUME NEW kind
      PROVE  NewOf(s, kind) = IF d.kind = kind THEN {Len(bulletin) + 1}
                              ELSE IF e.kind = kind THEN {Len(bulletin) + 2} ELSE {}
  <2>1. {k \in 1..Len(s) : s[k].kind = kind}
          = IF d.kind = kind THEN {1} ELSE IF e.kind = kind THEN {2} ELSE {}
    BY <1>2, <1>3
  <2>. QED  BY <2>1 DEF NewOf
<1>5. ASSUME NEW kind, NEW a
      PROVE  NewOfId(s, kind, a) =
                 IF d.kind = kind /\ d.aggregator_id = a THEN {Len(bulletin) + 1}
                 ELSE IF e.kind = kind /\ e.aggregator_id = a THEN {Len(bulletin) + 2} ELSE {}
  <2>1. {k \in 1..Len(s) : s[k].kind = kind /\ s[k].aggregator_id = a}
          = IF d.kind = kind /\ d.aggregator_id = a THEN {1}
            ELSE IF e.kind = kind /\ e.aggregator_id = a THEN {2} ELSE {}
    BY <1>2, <1>3
  <2>. QED  BY <2>1 DEF NewOfId
<1>. QED  BY <1>1, <1>4, <1>5 DEF s

-----------------------------------------------------------------------------
(* The latest event *)

\* A nonempty set of positions has a latest.
LEMMA LatestIs ==
    ASSUME NEW n \in Nat, NEW S \in SUBSET (1..n), S # {}
    PROVE  LatestOf(S) \in S /\ \A j \in S : j <= LatestOf(S)
<1> DEFINE D == {n - i : i \in S}
<1>1. D \in SUBSET Nat /\ D # {}
  <2>1. \A i \in S : n - i \in Nat
    OBVIOUS
  <2>. QED  BY <2>1
<1>2. PICK p \in D : \A q \in D : p <= q
  <2> HIDE DEF D
  <2>. QED  BY <1>1, LeastElement
<1>3. PICK l \in S : p = n - l
  BY <1>2
<1>4. \A j \in S : j <= l
  <2>1. ASSUME NEW j \in S
        PROVE  j <= l
    <3>1. n - l <= n - j
      BY <1>2, <1>3
    <3>. QED  BY <3>1
  <2>. QED  BY <2>1
<1>. QED  BY <1>4 DEF LatestOf

\* What comes after all others is the latest.
LEMMA LatestAfter ==
    ASSUME NEW n \in Nat, NEW m \in Nat, NEW S \in SUBSET (1..n),
           NEW T \in SUBSET ((n + 1)..(n + m)), T # {}
    PROVE  LatestOf(S \cup T) \in T /\ \A j \in S : j < LatestOf(S \cup T)
<1>1. S \cup T \in SUBSET (1..(n + m)) /\ S \cup T # {} /\ n + m \in Nat
  OBVIOUS
<1> DEFINE l == LatestOf(S \cup T)
<1>2. l \in S \cup T /\ \A j \in S \cup T : j <= l
  <2> DEFINE U == S \cup T
             N == n + m
  <2>1. U \in SUBSET (1..N) /\ U # {} /\ N \in Nat
    BY <1>1
  <2> HIDE DEF U, N
  <2>2. LatestOf(U) \in U /\ \A j \in U : j <= LatestOf(U)
    BY <2>1, LatestIs
  <2>. QED  BY <2>2 DEF U
<1> HIDE DEF l
<1>3. PICK t \in T : TRUE
  OBVIOUS
<1>4. l \in Int /\ l > n
  <2>1. t \in (n + 1)..(n + m) /\ t <= l /\ l \in 1..(n + m)
    BY <1>1, <1>2, <1>3
  <2>. QED  BY <2>1
<1>5. \A j \in S : j \in Int /\ j <= n
  OBVIOUS
<1>6. l \in T
  BY <1>2, <1>4, <1>5
<1>7. \A j \in S : j < l
  BY <1>4, <1>5
<1>. QED  BY <1>6, <1>7 DEF l

-----------------------------------------------------------------------------
(* What the board tells, part by part *)

PhaseTold ==
    LET changes == Events("phase_changed")
    IN  phase = IF changes = {} THEN "setup" ELSE bulletin[LatestOf(changes)].phase

ListTold(a) ==
    LET joined == ElementsAt(bulletin, EventsOf("voter_registered", a))
    IN  [i \in DOMAIN joined |-> joined[i].voter_id]
          = [i \in DOMAIN registered[a] |-> registered[a][i].voter_id]

PostTold(a) ==
    {bulletin[i].post : i \in EventsOf("registration_post", a)}
        = IF finalized[a] = None THEN {} ELSE {finalized[a]}

ValidTold(a) ==
    {bulletin[i].valid : i \in EventsOf("registration_validated", a)}
        = IF registration_valid[a] = None THEN {} ELSE {registration_valid[a]}

TallyTold(a) ==
    LET posts == EventsOf("tally_post", a)
    IN  IF posts = {} THEN tally_post[a] = None
                      ELSE tally_post[a] = bulletin[LatestOf(posts)].post

ResultTold(a) ==
    LET results == EventsOf("verification_result", a)
    IN  IF results = {} THEN verification[a] = None
        ELSE verification[a] # None /\ verification[a].valid = bulletin[LatestOf(results)].valid

Told(a) == ListTold(a) /\ PostTold(a) /\ ValidTold(a) /\ TallyTold(a) /\ ResultTold(a)

\* BoardTellsState, in parts.
LEMMA ToldParts == BoardTellsState <=> PhaseTold /\ \A a \in Aggregators : Told(a)
  BY DEF BoardTellsState, Told, PhaseTold, ListTold, PostTold, ValidTold, TallyTold, ResultTold

\* Without a new event about a, its events stay what and where they are.
LEMMA NoNews ==
    ASSUME IsList(bulletin), NEW events, Added(events), NEW kind, NEW a,
           NewOfId(events, kind, a) = {}
    PROVE  /\ EventsOf(kind, a)' = EventsOf(kind, a)
           /\ EventsOf(kind, a) \in SUBSET (1..Len(bulletin))
           /\ \A i \in EventsOf(kind, a) : bulletin'[i] = bulletin[i]
<1>1. /\ EventsOf(kind, a)' = EventsOf(kind, a) \cup NewOfId(events, kind, a)
      /\ EventsOf(kind, a) \subseteq 1..Len(bulletin)
  BY EventsAdded, Zenon
<1>. QED  BY <1>1 DEF Added

\* The list of a stays told while nobody joins it.
LEMMA ListQuiet ==
    ASSUME IsList(bulletin), NEW events, Added(events), NEW a,
           NewOfId(events, "voter_registered", a) = {}, registered'[a] = registered[a], ListTold(a)
    PROVE  ListTold(a)'
<1> DEFINE I == EventsOf("voter_registered", a)
           c == Cardinality(I)
<1>1. I' = I /\ I \in SUBSET (1..Len(bulletin)) /\ \A i \in I : bulletin'[i] = bulletin[i]
  BY NoNews
<1>2. I \in SUBSET Nat /\ IsFiniteSet(I)
  <2> DEFINE k == Len(bulletin)
  <2>1. k \in Nat
    BY DEF IsList
  <2>2. IsFiniteSet(1..k)
    <3> HIDE DEF k
    <3>1. 1 \in Int /\ k \in Int
      BY <2>1
    <3>. QED  BY <3>1, FS_Interval
  <2>. QED  BY <1>1, <2>1, <2>2, FS_Subset
<1> HIDE DEF I
<1>3. \A n \in 1..c : Nth(I, n) \in I
  BY <1>2, NthIs
<1>4. ElementsAt(bulletin', I) = ElementsAt(bulletin, I)
  <2>1. \A n \in 1..c : bulletin'[Nth(I, n)] = bulletin[Nth(I, n)]
    BY <1>1, <1>3
  <2>. QED  BY <2>1 DEF ElementsAt
<1>5. ElementsAt(bulletin, I)' = ElementsAt(bulletin', I')
  BY DEF ElementsAt, Nth
<1>. QED  BY <1>1, <1>4, <1>5 DEF ListTold, I

\* What no event is about, and no field has changed of, is told as before.
LEMMA QuietFor ==
    ASSUME IsList(bulletin), NEW events, Added(events), NEW a, Told(a)
    PROVE  /\ NewOfId(events, "voter_registered", a) = {} /\ registered'[a] = registered[a]
                => ListTold(a)'
           /\ NewOfId(events, "registration_post", a) = {} /\ finalized'[a] = finalized[a]
                => PostTold(a)'
           /\ NewOfId(events, "registration_validated", a) = {}
                /\ registration_valid'[a] = registration_valid[a] => ValidTold(a)'
           /\ NewOfId(events, "tally_post", a) = {} /\ tally_post'[a] = tally_post[a]
                => TallyTold(a)'
           /\ NewOfId(events, "verification_result", a) = {} /\ verification'[a] = verification[a]
                => ResultTold(a)'
<1>1. ListTold(a) /\ PostTold(a) /\ ValidTold(a) /\ TallyTold(a) /\ ResultTold(a)
  BY DEF Told
<1>2. Len(bulletin) \in Nat
  BY DEF IsList
<1>3. ASSUME NewOfId(events, "voter_registered", a) = {}, registered'[a] = registered[a]
      PROVE  ListTold(a)'
  BY <1>1, <1>3, ListQuiet
<1>4. ASSUME NewOfId(events, "registration_post", a) = {}, finalized'[a] = finalized[a]
      PROVE  PostTold(a)'
  <2> DEFINE I == EventsOf("registration_post", a)
  <2>1. I' = I /\ \A i \in I : bulletin'[i] = bulletin[i]
    BY <1>4, NoNews
  <2> HIDE DEF I
  <2>2. {bulletin[i].post : i \in I}' = {bulletin[i].post : i \in I}
    BY <2>1
  <2>. QED  BY <1>1, <1>4, <2>2 DEF PostTold, I
<1>5. ASSUME NewOfId(events, "registration_validated", a) = {},
             registration_valid'[a] = registration_valid[a]
      PROVE  ValidTold(a)'
  <2> DEFINE I == EventsOf("registration_validated", a)
  <2>1. I' = I /\ \A i \in I : bulletin'[i] = bulletin[i]
    BY <1>5, NoNews
  <2> HIDE DEF I
  <2>2. {bulletin[i].valid : i \in I}' = {bulletin[i].valid : i \in I}
    BY <2>1
  <2>. QED  BY <1>1, <1>5, <2>2 DEF ValidTold, I
<1>6. ASSUME NewOfId(events, "tally_post", a) = {}, tally_post'[a] = tally_post[a]
      PROVE  TallyTold(a)'
  <2> DEFINE I == EventsOf("tally_post", a)
  <2>1. I' = I /\ I \in SUBSET (1..Len(bulletin)) /\ \A i \in I : bulletin'[i] = bulletin[i]
    BY <1>6, NoNews
  <2> HIDE DEF I
  <2>2. I # {} => LatestOf(I) \in I
    BY <1>2, <2>1, LatestIs
  <2>3. LatestOf(I)' = LatestOf(I)
    BY <2>1 DEF LatestOf
  <2>. QED  BY <1>1, <1>6, <2>1, <2>2, <2>3 DEF TallyTold, I
<1>7. ASSUME NewOfId(events, "verification_result", a) = {}, verification'[a] = verification[a]
      PROVE  ResultTold(a)'
  <2> DEFINE I == EventsOf("verification_result", a)
  <2>1. I' = I /\ I \in SUBSET (1..Len(bulletin)) /\ \A i \in I : bulletin'[i] = bulletin[i]
    BY <1>7, NoNews
  <2> HIDE DEF I
  <2>2. I # {} => LatestOf(I) \in I
    BY <1>2, <2>1, LatestIs
  <2>3. LatestOf(I)' = LatestOf(I)
    BY <2>1 DEF LatestOf
  <2>. QED  BY <1>1, <1>7, <2>1, <2>2, <2>3 DEF ResultTold, I
<1>. QED  BY <1>3, <1>4, <1>5, <1>6, <1>7

\* The phase stays told while no event changes it.
LEMMA PhaseQuiet ==
    ASSUME IsList(bulletin), NEW events, Added(events), PhaseTold, phase' = phase,
           NewOf(events, "phase_changed") = {}
    PROVE  PhaseTold'
<1> DEFINE I == Events("phase_changed")
<1>1. I' = I \cup {} /\ I \in SUBSET (1..Len(bulletin))
  BY EventsAdded
<1>2. \A i \in I : bulletin'[i] = bulletin[i]
  BY <1>1 DEF Added
<1> HIDE DEF I
<1>3. I # {} => LatestOf(I) \in I
  BY <1>1, LatestIs DEF IsList
<1>4. I' = I /\ LatestOf(I)' = LatestOf(I)
  BY <1>1 DEF LatestOf
<1>. QED  BY <1>2, <1>3, <1>4 DEF PhaseTold, I

-----------------------------------------------------------------------------
(* Every step keeps what the board tells: a handler posts what it changes. *)

BoardInv == IsList(bulletin) /\ BoardTellsState

\* A step that posts nothing and changes nothing the board tells.
LEMMA BoardUnchanged ==
    ASSUME BoardInv,
           UNCHANGED <<phase, registered, finalized, registration_valid, tally_post,
                       verification, bulletin>>
    PROVE  BoardInv'
<1>1. IsList(bulletin)'
  BY DEF BoardInv, IsList
<1>2. \A kind : Events(kind)' = Events(kind)
  BY DEF Events
<1>3. \A kind, a : EventsOf(kind, a)' = EventsOf(kind, a)
  BY <1>2 DEF EventsOf
<1>4. PhaseTold'
  BY <1>2, ToldParts DEF BoardInv, PhaseTold, LatestOf
<1>5. ASSUME NEW a \in Aggregators
      PROVE  Told(a)'
  <2>1. Told(a)
    BY ToldParts DEF BoardInv
  <2>2. ListTold(a)'
    <3> DEFINE I == EventsOf("voter_registered", a)
    <3>1. I' = I /\ bulletin' = bulletin
      BY <1>3
    <3> HIDE DEF I
    <3>2. ElementsAt(bulletin, I)' = ElementsAt(bulletin', I')
      BY DEF ElementsAt, Nth
    <3>3. ElementsAt(bulletin, I)' = ElementsAt(bulletin, I)
      BY <3>1, <3>2
    <3>. QED  BY <2>1, <3>3 DEF Told, ListTold, I
  <2>3. PostTold(a)' /\ ValidTold(a)'
    BY <1>3, <2>1 DEF Told, PostTold, ValidTold
  <2>4. TallyTold(a)' /\ ResultTold(a)'
    BY <1>3, <2>1 DEF Told, TallyTold, ResultTold, LatestOf
  <2>. QED  BY <2>2, <2>3, <2>4 DEF Told
<1>6. BoardTellsState'
  BY <1>4, <1>5 DEF BoardTellsState, Told, PhaseTold, ListTold, PostTold, ValidTold, TallyTold,
                    ResultTold
<1>. QED  BY <1>1, <1>6 DEF BoardInv

\* The invariant of the next state, from its parts.
LEMMA ToldPartsNext ==
    ASSUME IsList(bulletin)', PhaseTold', \A a \in Aggregators : Told(a)'
    PROVE  BoardInv'
  BY DEF BoardInv, BoardTellsState, Told, PhaseTold, ListTold, PostTold, ValidTold, TallyTold,
         ResultTold

\* The event that is posted is the latest of its kind.
LEMMA OneIsLatest ==
    ASSUME IsList(bulletin), NEW e, Added(<<e>>)
    PROVE  /\ bulletin'[Len(bulletin) + 1] = e
           /\ Events(e.kind)' # {} /\ LatestOf(Events(e.kind))' = Len(bulletin) + 1
           /\ LET mine == EventsOf(e.kind, e.aggregator_id)
              IN  mine' # {} /\ LatestOf(mine)' = Len(bulletin) + 1
<1> DEFINE k == Len(bulletin)
           T == {k + 1}
           S == Events(e.kind)
           mine == EventsOf(e.kind, e.aggregator_id)
<1>1. k \in Nat /\ bulletin'[k + 1] = e
  BY OneEvent DEF IsList, Added
<1>2. S' = S \cup T /\ S \in SUBSET (1..k)
  BY OneEvent, EventsAdded
<1>3. mine' = mine \cup T /\ mine \in SUBSET (1..k)
  <2>1. NewOfId(<<e>>, e.kind, e.aggregator_id) = T
    BY OneEvent
  <2>2. /\ mine' = mine \cup NewOfId(<<e>>, e.kind, e.aggregator_id)
        /\ mine \subseteq 1..k
    BY EventsAdded
  <2>. QED  BY <2>1, <2>2
<1>4. T \in SUBSET ((k + 1)..(k + 1)) /\ T # {} /\ 1 \in Nat
  BY <1>1
<1>5. LatestOf(S)' = LatestOf(S') /\ LatestOf(mine)' = LatestOf(mine')
  BY DEF LatestOf
<1> HIDE DEF k, T, S, mine
<1>6. LatestOf(S') \in T /\ LatestOf(mine') \in T
  BY <1>1, <1>2, <1>3, <1>4, LatestAfter
<1>7. S' # {} /\ mine' # {}
  BY <1>2, <1>3, <1>4
<1>. QED  BY <1>1, <1>5, <1>6, <1>7 DEF k, T, S, mine

\* set_phase posts the phase it sets.
LEMMA SetPhaseTold ==
    ASSUME BoardInv, NEW p, set_phase(p)
    PROVE  BoardInv'
<1> DEFINE e == PhaseChanged(p)
<1>1. e.kind = "phase_changed" /\ e.phase = p
  BY DEF PhaseChanged
<1>2. /\ post_bulletin(<<e>>) /\ phase' = p
      /\ UNCHANGED <<registered, finalized, registration_valid, tally_post, verification>>
  BY DEF set_phase
<1> HIDE DEF e
<1>3. IsList(bulletin)' /\ Added(<<e>>)
  BY <1>2, OneEvent, Posting DEF BoardInv
<1>4. PhaseTold'
  BY <1>1, <1>2, <1>3, OneIsLatest DEF PhaseTold, BoardInv
<1>5. ASSUME NEW a \in Aggregators
      PROVE  Told(a)'
  <2>1. \A kind : kind # "phase_changed" => NewOfId(<<e>>, kind, a) = {}
    BY <1>1, OneEvent
  <2>2. Told(a)
    BY ToldParts DEF BoardInv
  <2>. QED  BY <1>2, <1>3, <2>1, <2>2, QuietFor DEF BoardInv, Told
<1>. QED  BY <1>3, <1>4, <1>5, ToldPartsNext

\* register_voter posts the voter it appends to the list: the two grow alike.
LEMMA RegisterVoterTold ==
    ASSUME IndInv, BoardInv, NEW v, NEW a, register_voter(v, a)
    PROVE  BoardInv'
<1> DEFINE e == VoterRegistered(v, a)
           sigma == sign_delegation(v, a)
           record == RegisteredVoter(v, sigma, skv(v))
           I == EventsOf("voter_registered", a)
           n == Len(bulletin) + 1
           c == Cardinality(I)
           joined == ElementsAt(bulletin, I)
           joinedNow == ElementsAt(bulletin', I \cup {n})
<1>1. e.kind = "voter_registered" /\ e.aggregator_id = a /\ e.voter_id = v
  BY DEF VoterRegistered
<1>2. /\ post_bulletin(<<e>>) /\ a \in Aggregators
      /\ registered' = [registered EXCEPT ![a] = Append(@, record)]
      /\ UNCHANGED <<phase, finalized, registration_valid, tally_post, verification>>
  BY DEF register_voter, MayRegister
<1>3. record.voter_id = v
  BY DEF RegisteredVoter
<1> HIDE DEF e, record
<1>4. IsList(bulletin)' /\ Added(<<e>>)
  BY <1>2, OneEvent, Posting DEF BoardInv
<1>5. PhaseTold'
  BY <1>1, <1>2, <1>4, OneEvent, PhaseQuiet, ToldParts DEF BoardInv
<1>6. ASSUME NEW b \in Aggregators
      PROVE  PostTold(b)' /\ ValidTold(b)' /\ TallyTold(b)' /\ ResultTold(b)'
  <2>1. \A kind : kind # "voter_registered" => NewOfId(<<e>>, kind, b) = {}
    BY <1>1, OneEvent
  <2>2. Told(b)
    BY ToldParts DEF BoardInv
  <2>. QED  BY <1>2, <1>4, <2>1, <2>2, QuietFor DEF BoardInv
<1>7. registered \in [Aggregators -> Seq(RegisteredVoters)]
  BY DEF IndInv, TypeOK, VoterTypes
<1>8. ASSUME NEW b \in Aggregators, b # a
      PROVE  ListTold(b)'
  <2>1. NewOfId(<<e>>, "voter_registered", b) = {}
    BY <1>1, <1>8, OneEvent
  <2>2. registered'[b] = registered[b]
    BY <1>2, <1>7, <1>8
  <2>3. Told(b)
    BY ToldParts DEF BoardInv
  <2>. QED  BY <1>4, <2>1, <2>2, <2>3, ListQuiet DEF BoardInv, Told
<1>9. ListTold(a)'
  <2>1. /\ I' = I \cup {n} /\ I \in SUBSET (1..Len(bulletin)) /\ bulletin'[n] = e
        /\ \A i \in 1..Len(bulletin) : bulletin'[i] = bulletin[i]
    <3>1. NewOfId(<<e>>, "voter_registered", a) = {n}
      BY <1>1, OneEvent
    <3>2. bulletin'[n] = e
      BY <1>4, OneIsLatest DEF BoardInv
    <3>3. I' = I \cup NewOfId(<<e>>, "voter_registered", a) /\ I \subseteq 1..Len(bulletin)
      BY <1>4, EventsAdded DEF BoardInv
    <3>. QED  BY <1>4, <3>1, <3>2, <3>3 DEF Added
  <2>2. I \in SUBSET Nat /\ IsFiniteSet(I) /\ n \in Nat /\ \A i \in I : i < n /\ bulletin'[i] = bulletin[i]
    <3> DEFINE k == Len(bulletin)
    <3>1. k \in Nat
      BY DEF IsList, BoardInv
    <3>2. IsFiniteSet(1..k)
      <4> HIDE DEF k
      <4>1. 1 \in Int /\ k \in Int
        BY <3>1
      <4>. QED  BY <4>1, FS_Interval
    <3>. QED  BY <2>1, <3>1, <3>2, FS_Subset
  <2>3. LET joinedHere == ElementsAt(bulletin, EventsOf("voter_registered", a))
        IN  [i \in DOMAIN joinedHere |-> joinedHere[i].voter_id]
               = [i \in DOMAIN registered[a] |-> registered[a][i].voter_id]
    BY <1>2, ToldParts DEF BoardInv, Told, ListTold
  <2> HIDE DEF I, n
  <2>4. joinedNow = ElementsAt(bulletin, I)'
    <3>1. ElementsAt(bulletin, I)' = ElementsAt(bulletin', I')
      BY DEF ElementsAt, Nth
    <3>. QED  BY <2>1, <3>1
  <2>5. /\ c \in Nat /\ DOMAIN joined = 1..c /\ DOMAIN joinedNow = 1..(c + 1)
        /\ \A k \in 1..c : joinedNow[k] = joined[k]
        /\ joinedNow[c + 1] = bulletin'[n]
    <3> DEFINE s == bulletin
               t == bulletin'
    <3>1. /\ I \in SUBSET Nat /\ IsFiniteSet(I) /\ n \in Nat
          /\ \A i \in I : i < n /\ t[i] = s[i]
      BY <2>2
    <3> HIDE DEF s, t
    <3>2. OneLonger(ElementsAt(s, I), ElementsAt(t, I \cup {n}), Cardinality(I), t[n])
      BY <3>1, ElementsAtMore
    <3>. QED  BY <3>2 DEF s, t, OneLonger
  <2> HIDE DEF joined, joinedNow, c
  <2>6. [i \in DOMAIN joined |-> joined[i].voter_id]
            = [i \in DOMAIN registered[a] |-> registered[a][i].voter_id]
    BY <2>3 DEF joined, I
  <2>7. registered[a] \in Seq(RegisteredVoters) /\ DOMAIN registered[a] = 1..c
    BY <1>2, <1>7, <2>5, <2>6
  <2>8. Len(registered[a]) = c
    BY <2>5, <2>7
  <2>9. registered'[a] = Append(registered[a], record)
    BY <1>2, <1>7
  <2>10. /\ DOMAIN registered'[a] = 1..(c + 1)
         /\ \A i \in 1..c : registered'[a][i] = registered[a][i]
         /\ registered'[a][c + 1] = record
    BY <2>5, <2>7, <2>8, <2>9
  <2>11. \A i \in 1..c : joined[i].voter_id = registered[a][i].voter_id
    BY <2>5, <2>6, <2>7
  <2>12. ASSUME NEW i \in 1..(c + 1)
         PROVE  joinedNow[i].voter_id = registered'[a][i].voter_id
    <3>1. CASE i = c + 1
      BY <1>1, <1>3, <2>1, <2>5, <2>10, <3>1 DEF n
    <3>2. CASE i \in 1..c
      BY <2>5, <2>10, <2>11, <3>2
    <3>. QED  BY <2>5, <3>1, <3>2
  <2>13. [i \in DOMAIN joinedNow |-> joinedNow[i].voter_id]
            = [i \in DOMAIN registered'[a] |-> registered'[a][i].voter_id]
    BY <2>5, <2>10, <2>12
  <2>. QED  BY <2>4, <2>13 DEF ListTold, I
<1>10. \A b \in Aggregators : Told(b)'
  BY <1>6, <1>8, <1>9 DEF Told
<1>. QED  BY <1>4, <1>5, <1>10, ToldPartsNext

\* finalize_aggregator posts the registration, the only one there will be, and its check.
LEMMA FinalizeTold ==
    ASSUME IndInv, TallyInv, BoardInv, NEW a, finalize_aggregator(a)
    PROVE  BoardInv'
<1> DEFINE post == finalize_registration(a, registered[a])
           ok   == validate_finalized_registration(post, FALSE)
           d == RegistrationPost(post)
           e == RegistrationValidated(a, ok)
           k == Len(bulletin)
<1>1. /\ a \in Aggregators /\ finalized[a] = None
      /\ finalized' = [finalized EXCEPT ![a] = post]
      /\ registration_valid' = [registration_valid EXCEPT ![a] = ok]
      /\ post_bulletin(<<d, e>>)
      /\ UNCHANGED <<phase, registered, tally_post, verification>>
  BY DEF finalize_aggregator
<1>2. post.aggregator_id = a
  BY DEF finalize_registration
<1>3. /\ d.kind = "registration_post" /\ d.aggregator_id = a /\ d.post = post
      /\ e.kind = "registration_validated" /\ e.aggregator_id = a /\ e.valid = ok
  BY <1>2 DEF RegistrationPost, RegistrationValidated
<1>4. post # None
  BY <1>1, NotNone
<1>5. ok # None
  BY NoneAssumption DEF validate_finalized_registration
<1>6. /\ DOMAIN finalized = Aggregators /\ DOMAIN registration_valid = Aggregators
      /\ registration_valid[a] = None
  BY <1>1 DEF IndInv, TypeOK, RegistrationPostTypes, TallyInv, PostsValid
<1> HIDE DEF post, ok, d, e
<1>7. d.kind # e.kind
  BY <1>3
<1>8. IsList(bulletin)' /\ Added(<<d, e>>)
  <2>1. IsList(<<d, e>>)
    BY <1>7, TwoEvents
  <2>. QED  BY <1>1, <2>1, Posting DEF BoardInv
<1>9. PhaseTold'
  <2>1. NewOf(<<d, e>>, "phase_changed") = {}
    BY <1>3, <1>7, TwoEvents
  <2>. QED  BY <1>1, <1>8, <2>1, PhaseQuiet, ToldParts DEF BoardInv
<1>10. ASSUME NEW b \in Aggregators
       PROVE  ListTold(b)' /\ TallyTold(b)' /\ ResultTold(b)'
  <2>1. \A kind \in {"voter_registered", "tally_post", "verification_result"} :
           NewOfId(<<d, e>>, kind, b) = {}
    BY <1>3, <1>7, TwoEvents
  <2>2. Told(b)
    BY ToldParts DEF BoardInv
  <2>. QED  BY <1>1, <1>8, <2>1, <2>2, QuietFor DEF BoardInv
<1>11. ASSUME NEW b \in Aggregators, b # a
       PROVE  PostTold(b)' /\ ValidTold(b)'
  <2>1. \A kind : NewOfId(<<d, e>>, kind, b) = {}
    BY <1>3, <1>7, <1>11, TwoEvents
  <2>2. Told(b)
    BY ToldParts DEF BoardInv
  <2>3. finalized'[b] = finalized[b] /\ registration_valid'[b] = registration_valid[b]
    BY <1>1, <1>6, <1>11
  <2>. QED  BY <1>8, <2>1, <2>2, <2>3, QuietFor DEF BoardInv
<1>12. /\ k \in Nat /\ bulletin'[k + 1] = d /\ bulletin'[k + 2] = e
       /\ \A i \in 1..k : bulletin'[i] = bulletin[i]
  <2>1. /\ k \in Nat
        /\ \A i \in 1..k : bulletin'[i] = bulletin[i]
        /\ \A i \in 1..Len(<<d, e>>) : bulletin'[k + i] = <<d, e>>[i]
    BY <1>8 DEF BoardInv, IsList, Added
  <2>2. Len(<<d, e>>) = 2 /\ <<d, e>>[1] = d /\ <<d, e>>[2] = e
    BY <1>7, TwoEvents
  <2>3. 1 \in 1..2 /\ 2 \in 1..2
    OBVIOUS
  <2>. QED  BY <2>1, <2>2, <2>3
<1> HIDE DEF k
<1>13. PostTold(a)'
  <2> DEFINE I == EventsOf("registration_post", a)
  <2>1. NewOfId(<<d, e>>, "registration_post", a) = {k + 1}
    BY <1>3, <1>7, TwoEvents DEF k
  <2>2. I' = I \cup {k + 1} /\ I \subseteq 1..k
    <3>1. I' = I \cup NewOfId(<<d, e>>, "registration_post", a) /\ I \subseteq 1..Len(bulletin)
      BY <1>8, EventsAdded DEF BoardInv
    <3>. QED  BY <2>1, <3>1 DEF k
  <2>3. {bulletin[i].post : i \in I} = {}
    BY <1>1, ToldParts DEF BoardInv, Told, PostTold
  <2> HIDE DEF I
  <2>4. I = {}
    BY <2>3
  <2>5. {bulletin[i].post : i \in I}' = {post}
    BY <1>3, <1>12, <2>2, <2>4
  <2>6. finalized'[a] = post
    BY <1>1, <1>6
  <2>. QED  BY <1>4, <2>5, <2>6 DEF PostTold, I
<1>14. ValidTold(a)'
  <2> DEFINE I == EventsOf("registration_validated", a)
  <2>1. NewOfId(<<d, e>>, "registration_validated", a) = {k + 2}
    BY <1>3, <1>7, TwoEvents DEF k
  <2>2. I' = I \cup {k + 2} /\ I \subseteq 1..k
    <3>1. I' = I \cup NewOfId(<<d, e>>, "registration_validated", a) /\ I \subseteq 1..Len(bulletin)
      BY <1>8, EventsAdded DEF BoardInv
    <3>. QED  BY <2>1, <3>1 DEF k
  <2>3. {bulletin[i].valid : i \in I} = {}
    BY <1>1, <1>6, ToldParts DEF BoardInv, Told, ValidTold
  <2> HIDE DEF I
  <2>4. I = {}
    BY <2>3
  <2>5. {bulletin[i].valid : i \in I}' = {ok}
    BY <1>3, <1>12, <2>2, <2>4
  <2>6. registration_valid'[a] = ok
    BY <1>1, <1>6
  <2>. QED  BY <1>5, <2>5, <2>6 DEF ValidTold, I
<1>15. \A b \in Aggregators : Told(b)'
  BY <1>10, <1>11, <1>13, <1>14 DEF Told
<1>. QED  BY <1>8, <1>9, <1>15, ToldPartsNext

\* prove_aggregator posts the tally it puts on display.
LEMMA ProveTold ==
    ASSUME IndInv, BoardInv, NEW a, prove_aggregator(a)
    PROVE  BoardInv'
<1> DEFINE post == build_and_prove_tally(finalized[a], registered[a], VotesHeldBy(a))
           e == TallyPosted(post)
<1>1. /\ a \in Aggregators /\ finalized[a] # None
      /\ tally_post' = [tally_post EXCEPT ![a] = post]
      /\ post_bulletin(<<e>>)
      /\ UNCHANGED <<phase, registered, finalized, registration_valid, verification>>
  BY DEF prove_aggregator
<1>2. post.aggregator_id = a
  BY <1>1 DEF build_and_prove_tally, IndInv, TypeOK, RegistrationPostTypes
<1>3. e.kind = "tally_post" /\ e.aggregator_id = a /\ e.post = post
  BY <1>2 DEF TallyPosted
<1>4. DOMAIN tally_post = Aggregators
  BY DEF IndInv, TypeOK, TallyTypes
<1> HIDE DEF post, e
<1>5. IsList(bulletin)' /\ Added(<<e>>)
  BY <1>1, OneEvent, Posting DEF BoardInv
<1>6. PhaseTold'
  BY <1>1, <1>3, <1>5, OneEvent, PhaseQuiet, ToldParts DEF BoardInv
<1>7. ASSUME NEW b \in Aggregators
      PROVE  /\ ListTold(b)' /\ PostTold(b)' /\ ValidTold(b)' /\ ResultTold(b)'
             /\ b # a => TallyTold(b)'
  <2>1. /\ \A kind : kind # "tally_post" => NewOfId(<<e>>, kind, b) = {}
        /\ b # a => NewOfId(<<e>>, "tally_post", b) = {}
    BY <1>3, OneEvent
  <2>2. Told(b)
    BY ToldParts DEF BoardInv
  <2>3. b # a => tally_post'[b] = tally_post[b]
    BY <1>1, <1>4
  <2>. QED  BY <1>1, <1>5, <2>1, <2>2, <2>3, QuietFor DEF BoardInv
<1>8. TallyTold(a)'
  BY <1>1, <1>3, <1>4, <1>5, OneIsLatest DEF TallyTold, BoardInv
<1>9. \A b \in Aggregators : Told(b)'
  BY <1>7, <1>8 DEF Told
<1>. QED  BY <1>5, <1>6, <1>9, ToldPartsNext

\* verify_aggregator posts the result it stores.
LEMMA VerifyTold ==
    ASSUME IndInv, TallyInv, BoardInv, NEW a, verify_aggregator(a)
    PROVE  BoardInv'
<1> DEFINE result == AggregatorVerification(a, TRUE)
           e == VerificationResult(result)
<1>1. /\ a \in Aggregators
      /\ verification' = [verification EXCEPT ![a] = result]
  BY VerifyTallies
<1>2. /\ post_bulletin(<<e>>)
      /\ UNCHANGED <<phase, registered, finalized, registration_valid, tally_post>>
  <2> DEFINE r == AggregatorVerification(a, verify_aggregator_tally(finalized[a], tally_post[a]))
  <2>1. /\ verification' = [verification EXCEPT ![a] = r]
        /\ post_bulletin(<<VerificationResult(r)>>)
        /\ UNCHANGED <<phase, registered, finalized, registration_valid, tally_post>>
    BY DEF verify_aggregator
  <2>2. a \in DOMAIN verification
    BY <1>1 DEF IndInv, TypeOK, TallyTypes
  <2> HIDE DEF r, result
  <2>3. r = result
    BY <1>1, <2>1, <2>2
  <2>. QED  BY <2>1, <2>3
<1>3. /\ result # None /\ result.valid = TRUE
      /\ e.kind = "verification_result" /\ e.aggregator_id = a /\ e.valid = TRUE
  <2>1. result \in [aggregator_id : Aggregators, valid : BOOLEAN]
    BY <1>1 DEF AggregatorVerification
  <2>2. result.valid = TRUE /\ result.aggregator_id = a
    BY DEF AggregatorVerification
  <2> HIDE DEF result
  <2>3. result # None
    BY <2>1, NoneAssumption
  <2>. QED  BY <2>2, <2>3 DEF VerificationResult
<1>4. DOMAIN verification = Aggregators
  BY DEF IndInv, TypeOK, TallyTypes
<1> HIDE DEF result, e
<1>5. IsList(bulletin)' /\ Added(<<e>>)
  BY <1>2, OneEvent, Posting DEF BoardInv
<1>6. PhaseTold'
  BY <1>2, <1>3, <1>5, OneEvent, PhaseQuiet, ToldParts DEF BoardInv
<1>7. ASSUME NEW b \in Aggregators
      PROVE  /\ ListTold(b)' /\ PostTold(b)' /\ ValidTold(b)' /\ TallyTold(b)'
             /\ b # a => ResultTold(b)'
  <2>1. /\ \A kind : kind # "verification_result" => NewOfId(<<e>>, kind, b) = {}
        /\ b # a => NewOfId(<<e>>, "verification_result", b) = {}
    BY <1>3, OneEvent
  <2>2. Told(b)
    BY ToldParts DEF BoardInv
  <2>3. b # a => verification'[b] = verification[b]
    BY <1>1, <1>4
  <2>. QED  BY <1>2, <1>5, <2>1, <2>2, <2>3, QuietFor DEF BoardInv
<1>8. ResultTold(a)'
  BY <1>1, <1>3, <1>4, <1>5, OneIsLatest DEF ResultTold, BoardInv
<1>9. \A b \in Aggregators : Told(b)'
  BY <1>7, <1>8 DEF Told
<1>. QED  BY <1>5, <1>6, <1>9, ToldPartsNext

-----------------------------------------------------------------------------
(* verify_all *)

\* Where the ids of the aggregators with a tally are, and which they are.
TalliedPlaces == {i \in DOMAIN AggregatorList : /\ finalized[AggregatorList[i]] # None
                                                /\ tally_post[AggregatorList[i]] # None}

TalliedIds == ElementsAt(AggregatorList, TalliedPlaces)

TalliedSum ==
    [j \in DOMAIN Candidates |->
        SumFunction([n \in DOMAIN TalliedIds |-> tally_post[TalliedIds[n]].candidate_counts[j]])]

\* It lists all aggregators with a tally, and no others.
ListsTallied ==
    /\ Len(TalliedIds) \in Nat /\ DOMAIN TalliedIds = 1..Len(TalliedIds)
    /\ \A n \in DOMAIN TalliedIds :
          TalliedIds[n] \in Aggregators /\ tally_post[TalliedIds[n]] # None
    /\ \A a \in Aggregators : tally_post[a] # None => \E n \in DOMAIN TalliedIds : TalliedIds[n] = a

\* A positive result for each of them, then their sum.
Announces(events) ==
    LET N == Len(TalliedIds) IN
    /\ IsList(events) /\ Len(events) = N + 1
    /\ \A n \in 1..N : events[n] = VerificationResult(AggregatorVerification(TalliedIds[n], TRUE))
    /\ events[N + 1] = GlobalTally(TalliedSum, check_no_duplicate_voters(Collect(finalized)))

\* The list that verify_all goes through.
LEMMA TalliedListed ==
    ASSUME TallyInv
    PROVE  ListsTallied
<1> DEFINE I == TalliedPlaces
           c == Cardinality(I)
           L == TalliedIds
<1>1. I \in SUBSET Nat /\ IsFiniteSet(I) /\ I \subseteq DOMAIN AggregatorList
  <2> DEFINE l == Len(AggregatorList)
  <2>1. l \in Nat /\ DOMAIN AggregatorList = 1..l
    BY AggregatorsAssumption
  <2> HIDE DEF l
  <2>2. IsFiniteSet(1..l)
    <3>1. 1 \in Int /\ l \in Int
      BY <2>1
    <3>. QED  BY <3>1, FS_Interval
  <2>3. I \in SUBSET (1..l)
    BY <2>1 DEF TalliedPlaces
  <2> HIDE DEF I
  <2>4. IsFiniteSet(I)
    BY <2>2, <2>3, FS_Subset
  <2>5. 1..l \in SUBSET Nat
    BY <2>1
  <2>. QED  BY <2>1, <2>3, <2>4, <2>5
<1>2. /\ \A i \in I : AggregatorList[i] \in Aggregators /\ tally_post[AggregatorList[i]] # None
      /\ \A a \in Aggregators : tally_post[a] # None => \E i \in I : AggregatorList[i] = a
  <2>1. \A a \in Aggregators : tally_post[a] # None => finalized[a] # None
    BY DEF TallyInv, TalliesTrue
  <2>. QED  BY <2>1 DEF TalliedPlaces, Aggregators
<1> HIDE DEF I
<1>3. /\ c \in Nat /\ DOMAIN L = 1..c
      /\ \A n \in 1..c : Nth(I, n) \in I /\ L[n] = AggregatorList[Nth(I, n)]
      /\ \A i \in I : \E n \in 1..c : Nth(I, n) = i
  BY <1>1, ElementsAtIs DEF TalliedIds, I
<1>4. L = [n \in 1..c |-> L[n]]
  BY <1>3 DEF TalliedIds, ElementsAt
<1> HIDE DEF L, c
<1>5. Len(L) = c
  BY <1>3, <1>4, LengthIs
<1>6. \A n \in 1..c : L[n] \in Aggregators /\ tally_post[L[n]] # None
  BY <1>2, <1>3
<1>7. ASSUME NEW a \in Aggregators, tally_post[a] # None
      PROVE  \E n \in 1..c : L[n] = a
  <2>1. PICK i \in I : AggregatorList[i] = a
    BY <1>2, <1>7
  <2>2. PICK n \in 1..c : Nth(I, n) = i
    BY <1>3, <2>1
  <2>. QED  BY <1>3, <2>1, <2>2
<1>. QED  BY <1>3, <1>5, <1>6, <1>7 DEF ListsTallied, L

\* Every result of verify_all is positive, so that all tallies are in the sum.
LEMMA VerifyAllAnnounces ==
    ASSUME IndInv, TallyInv, verify_all
    PROVE  \E events : Announces(events) /\ post_bulletin(events)
<1> DEFINE reg_ok(a)     == finalized[a] # None /\ validate_finalized_registration(finalized[a], FALSE)
           result(a)     == AggregatorVerification(a,
                                verify_aggregator_tally(finalized[a], tally_post[a]) /\ reg_ok(a))
           L             == TalliedIds
           N             == Len(L)
           verifications == [i \in DOMAIN L |-> result(L[i])]
           tally_posts   == [i \in DOMAIN L |-> tally_post[L[i]]]
           duplicates    == check_no_duplicate_voters(Collect(finalized))
           results       == [i \in DOMAIN verifications |-> VerificationResult(verifications[i])]
           sum           == global_tally(tally_posts, verifications)
           last          == GlobalTally(sum, duplicates)
           events        == results \o <<last>>
<1>1. post_bulletin(events)
  BY DEF verify_all, TalliedIds, TalliedPlaces
<1>2. ListsTallied
  BY TalliedListed
<1>3. N \in Nat /\ DOMAIN L = 1..N /\ \A n \in 1..N : L[n] \in Aggregators /\ tally_post[L[n]] # None
  BY <1>2 DEF ListsTallied
<1>4. ASSUME NEW a \in Aggregators, tally_post[a] # None
      PROVE  result(a) = AggregatorVerification(a, TRUE)
  <2> DEFINE ok == verify_aggregator_tally(finalized[a], tally_post[a]) /\ reg_ok(a)
  <2>1. finalized[a] # None /\ verify_aggregator_tally(finalized[a], tally_post[a])
    BY <1>4 DEF TallyInv, TalliesTrue, TrueTally
  <2>2. finalized[a] = finalize_registration(a, registered[a])
    BY <2>1 DEF IndInv, RegistrationFrozen
  <2>3. /\ registered[a] \in Seq(RegisteredVoters) /\ Accepted(a, registered[a])
        /\ Fits(registered[a])
    BY HonestList
  <2>4. validate_finalized_registration(finalized[a], FALSE)
    BY <2>2, <2>3, PostIsValid
  <2>5. ok = TRUE
    BY <2>1, <2>4
  <2> HIDE DEF ok
  <2>6. AggregatorVerification(a, ok) = AggregatorVerification(a, TRUE)
    BY <2>5
  <2>. QED  BY <2>6 DEF ok
<1> HIDE DEF result
<1>5. \A n \in 1..N : verifications[n] = AggregatorVerification(L[n], TRUE)
  BY <1>3, <1>4
<1>6. \A n \in 1..N : results[n] = VerificationResult(AggregatorVerification(L[n], TRUE))
  BY <1>3, <1>5
<1>7. DOMAIN verifications = 1..N /\ DOMAIN results = 1..N /\ DOMAIN tally_posts = 1..N
  BY <1>3
<1>8. sum = TalliedSum
  <2> DEFINE verified == {verifications[k].aggregator_id :
                             k \in {i \in DOMAIN verifications : verifications[i].valid}}
  <2>1. \A n \in 1..N : verifications[n].valid = TRUE /\ verifications[n].aggregator_id = L[n]
    <3>1. \A a : /\ AggregatorVerification(a, TRUE).valid = TRUE
                 /\ AggregatorVerification(a, TRUE).aggregator_id = a
      BY DEF AggregatorVerification
    <3> HIDE DEF verifications
    <3>. QED  BY <1>5, <3>1
  <2>2. \A n \in 1..N : L[n] \in verified
    BY <1>7, <2>1
  <2>3. \A n \in 1..N : tally_posts[n] = tally_post[L[n]] /\ tally_posts[n].aggregator_id = L[n]
    BY <1>3 DEF IndInv, TypeOK, TallyTypes
  <2>4. sum = [j \in DOMAIN Candidates |->
                 SumFunction([i \in DOMAIN tally_posts |->
                     IF tally_posts[i].aggregator_id \in verified
                     THEN tally_posts[i].candidate_counts[j] ELSE 0])]
    BY DEF global_tally
  <2> HIDE DEF verified, tally_posts, verifications, sum, N, L
  <2>5. ASSUME NEW j
        PROVE  [i \in DOMAIN tally_posts |-> IF tally_posts[i].aggregator_id \in verified
                                             THEN tally_posts[i].candidate_counts[j] ELSE 0]
                 = [n \in DOMAIN L |-> tally_post[L[n]].candidate_counts[j]]
    BY <1>3, <1>7, <2>2, <2>3
  <2>. QED  BY <2>4, <2>5 DEF TalliedSum, L
<1> HIDE DEF results, last, N, L, verifications, sum, duplicates
<1>9. events = [n \in 1..(N + 1) |-> IF n <= N THEN results[n] ELSE <<last>>[n - N]]
  <2>1. results = [n \in 1..N |-> results[n]]
    BY <1>7 DEF results
  <2>2. <<last>> = [n \in 1..1 |-> <<last>>[n]]
    OBVIOUS
  <2>. QED  BY <1>3, <2>1, <2>2, Concatenated
<1> HIDE DEF events
<1>10. /\ events = [n \in 1..(N + 1) |-> events[n]] /\ N + 1 \in Nat
       /\ \A n \in 1..N : events[n] = results[n]
       /\ events[N + 1] = last
  <2>1. \A n \in 1..N : n <= N /\ n \in 1..(N + 1)
    BY <1>3
  <2>2. N + 1 \in 1..(N + 1) /\ ~(N + 1 <= N) /\ (N + 1) - N = 1
    BY <1>3
  <2>. QED  BY <1>3, <1>9, <2>1, <2>2
<1>11. Len(events) = N + 1
  BY <1>10, LengthIs
<1>12. Announces(events)
  BY <1>6, <1>8, <1>10, <1>11 DEF Announces, IsList, N, L, last, sum, duplicates
<1>. QED  BY <1>1, <1>12

\* The kinds of the events of verify_all.
LEMMA AnnouncedKinds ==
    ASSUME ListsTallied, NEW events, Announces(events)
    PROVE  LET N == Len(TalliedIds) IN
           /\ N \in Nat /\ Len(events) = N + 1
           /\ \A n \in 1..N : /\ events[n].kind = "verification_result"
                              /\ events[n].aggregator_id = TalliedIds[n]
                              /\ events[n].valid = TRUE
           /\ events[N + 1].kind = "global_tally"
           /\ \A n \in 1..(N + 1) : n \in 1..N \/ n = N + 1
<1> DEFINE N == Len(TalliedIds)
<1>1. N \in Nat
  BY DEF ListsTallied
<1>2. \A a : LET e == VerificationResult(AggregatorVerification(a, TRUE))
             IN  e.kind = "verification_result" /\ e.aggregator_id = a /\ e.valid = TRUE
  BY DEF VerificationResult, AggregatorVerification
<1>3. \A t, d : GlobalTally(t, d).kind = "global_tally"
  BY DEF GlobalTally
<1>4. /\ Len(events) = N + 1
      /\ \A n \in 1..N : events[n] = VerificationResult(AggregatorVerification(TalliedIds[n], TRUE))
      /\ events[N + 1] = GlobalTally(TalliedSum, check_no_duplicate_voters(Collect(finalized)))
  BY DEF Announces
<1> HIDE DEF N
<1>5. \A n \in 1..(N + 1) : n \in 1..N \/ n = N + 1
  BY <1>1
<1>6. ASSUME NEW n \in 1..N
      PROVE  /\ events[n].kind = "verification_result"
             /\ events[n].aggregator_id = TalliedIds[n]
             /\ events[n].valid = TRUE
  <2> DEFINE e == VerificationResult(AggregatorVerification(TalliedIds[n], TRUE))
  <2>1. e.kind = "verification_result" /\ e.aggregator_id = TalliedIds[n] /\ e.valid = TRUE
    BY <1>2
  <2>2. events[n] = e
    BY <1>4
  <2> HIDE DEF e
  <2>. QED  BY <2>1, <2>2
<1>. QED  BY <1>1, <1>3, <1>4, <1>5, <1>6 DEF N

\* Where the events of verify_all are on the board.
LEMMA AnnouncedNews ==
    ASSUME IsList(bulletin), ListsTallied, NEW events, Announces(events), Added(events)
    PROVE  LET N == Len(TalliedIds)
               k == Len(bulletin)
           IN  /\ \A kind : kind \notin {"verification_result", "global_tally"} =>
                     /\ NewOf(events, kind) = {}
                     /\ \A a : NewOfId(events, kind, a) = {}
               /\ \A a : NewOfId(events, "verification_result", a)
                            = {k + i : i \in {n \in 1..N : TalliedIds[n] = a}}
               /\ NewOf(events, "global_tally") = {k + N + 1}
               /\ k \in Nat /\ N \in Nat /\ Len(bulletin') = k + N + 1
               /\ \A n \in 1..N : bulletin'[k + n].valid = TRUE
               /\ bulletin'[k + N + 1] = events[N + 1]
<1> DEFINE N == Len(TalliedIds)
           k == Len(bulletin)
<1>1. /\ N \in Nat /\ Len(events) = N + 1
      /\ \A n \in 1..N : /\ events[n].kind = "verification_result"
                         /\ events[n].aggregator_id = TalliedIds[n]
                         /\ events[n].valid = TRUE
      /\ events[N + 1].kind = "global_tally"
      /\ \A n \in 1..(N + 1) : n \in 1..N \/ n = N + 1
  BY AnnouncedKinds
<1>2. /\ k \in Nat /\ Len(bulletin') = k + (N + 1)
      /\ \A i \in 1..(N + 1) : bulletin'[k + i] = events[i]
  BY <1>1 DEF IsList, Added
<1>3. /\ \A kind : NewOf(events, kind) = {k + i : i \in {n \in 1..(N + 1) : events[n].kind = kind}}
      /\ \A kind, a : NewOfId(events, kind, a) =
            {k + i : i \in {n \in 1..(N + 1) : events[n].kind = kind /\ events[n].aggregator_id = a}}
  BY <1>1 DEF NewOf, NewOfId
<1> HIDE DEF N, k
<1>4. ASSUME NEW kind, kind \notin {"verification_result", "global_tally"}
      PROVE  NewOf(events, kind) = {} /\ \A a : NewOfId(events, kind, a) = {}
  <2>1. \A n \in 1..(N + 1) : events[n].kind # kind
    BY <1>1, <1>4
  <2>. QED  BY <1>3, <2>1
<1>5. \A n \in 1..N : n \in 1..(N + 1)
  BY <1>1
<1>6. ASSUME NEW a
      PROVE  NewOfId(events, "verification_result", a) = {k + i : i \in {n \in 1..N : TalliedIds[n] = a}}
  <2>1. {n \in 1..(N + 1) : events[n].kind = "verification_result" /\ events[n].aggregator_id = a}
          = {n \in 1..N : TalliedIds[n] = a}
    BY <1>1, <1>5
  <2>. QED  BY <1>3, <2>1
<1>7. NewOf(events, "global_tally") = {k + N + 1}
  <2>1. {n \in 1..(N + 1) : events[n].kind = "global_tally"} = {N + 1}
    <3>1. N + 1 \in 1..(N + 1)
      BY <1>1
    <3>2. \A n \in 1..N : events[n].kind # "global_tally"
      BY <1>1
    <3>. QED  BY <1>1, <3>1, <3>2
  <2>2. k + (N + 1) = k + N + 1
    BY <1>1, <1>2
  <2>. QED  BY <1>3, <2>1, <2>2
<1>8. \A n \in 1..N : bulletin'[k + n].valid = TRUE
  BY <1>1, <1>2, <1>5
<1>9. bulletin'[k + N + 1] = events[N + 1] /\ Len(bulletin') = k + N + 1
  <2>1. N + 1 \in 1..(N + 1) /\ k + (N + 1) = k + N + 1
    BY <1>1, <1>2
  <2>. QED  BY <1>2, <2>1
<1>. QED  BY <1>1, <1>2, <1>4, <1>6, <1>7, <1>8, <1>9 DEF N, k

\* verify_all stores and posts a result for each aggregator with a tally, and no other.
LEMMA VerifyAllTold ==
    ASSUME IndInv, TallyInv, BoardInv, verify_all
    PROVE  BoardInv'
<1> DEFINE N == Len(TalliedIds)
           k == Len(bulletin)
<1>1. /\ verification' = [a \in Aggregators |->
                             IF tally_post[a] # None THEN AggregatorVerification(a, TRUE)
                                                     ELSE verification[a]]
      /\ UNCHANGED <<phase, registered, finalized, registration_valid, tally_post>>
  BY VerifyAllTallies DEF verify_all
<1>2. PICK events : Announces(events) /\ post_bulletin(events)
  BY VerifyAllAnnounces
<1>3. ListsTallied
  BY TalliedListed
<1>4. IsList(bulletin)' /\ Added(events)
  BY <1>2, Posting DEF Announces, BoardInv
<1>5. /\ \A kind : kind \notin {"verification_result", "global_tally"} =>
            /\ NewOf(events, kind) = {}
            /\ \A a : NewOfId(events, kind, a) = {}
      /\ \A a : NewOfId(events, "verification_result", a)
                   = {k + i : i \in {n \in 1..N : TalliedIds[n] = a}}
      /\ k \in Nat /\ N \in Nat
      /\ \A n \in 1..N : bulletin'[k + n].valid = TRUE
  BY <1>2, <1>3, <1>4, AnnouncedNews DEF BoardInv
<1>6. PhaseTold'
  <2>1. NewOf(events, "phase_changed") = {}
    BY <1>5
  <2>. QED  BY <1>1, <1>4, <2>1, PhaseQuiet, ToldParts DEF BoardInv
<1>7. ASSUME NEW a \in Aggregators
      PROVE  ListTold(a)' /\ PostTold(a)' /\ ValidTold(a)' /\ TallyTold(a)'
  <2>1. \A kind \in {"voter_registered", "registration_post", "registration_validated",
                      "tally_post"} : NewOfId(events, kind, a) = {}
    BY <1>5
  <2>2. Told(a)
    BY ToldParts DEF BoardInv
  <2>. QED  BY <1>1, <1>4, <2>1, <2>2, QuietFor DEF BoardInv
<1> HIDE DEF N, k
<1>8. ASSUME NEW a \in Aggregators, tally_post[a] = None
      PROVE  ResultTold(a)'
  <2>1. \A n \in 1..N : TalliedIds[n] # a
    BY <1>3, <1>8 DEF ListsTallied, N
  <2>2. NewOfId(events, "verification_result", a) = {}
    BY <1>5, <2>1
  <2>3. verification'[a] = verification[a] /\ Told(a)
    BY <1>1, <1>8, ToldParts DEF BoardInv
  <2>. QED  BY <1>4, <2>2, <2>3, QuietFor DEF BoardInv
<1>9. ASSUME NEW a \in Aggregators, tally_post[a] # None
      PROVE  ResultTold(a)'
  <2> DEFINE S == EventsOf("verification_result", a)
             T == {k + i : i \in {n \in 1..N : TalliedIds[n] = a}}
  <2>1. S' = S \cup T /\ S \in SUBSET (1..k)
    <3>1. S' = S \cup NewOfId(events, "verification_result", a) /\ S \subseteq 1..Len(bulletin)
      BY <1>4, EventsAdded DEF BoardInv
    <3>. QED  BY <1>5, <3>1 DEF k
  <2>2. T # {} /\ T \in SUBSET ((k + 1)..(k + N))
    <3>1. \E n \in 1..N : TalliedIds[n] = a
      BY <1>3, <1>9 DEF ListsTallied, N
    <3>2. \A n \in 1..N : k + n \in (k + 1)..(k + N)
      BY <1>5
    <3>. QED  BY <3>1, <3>2
  <2>3. \A i \in T : bulletin'[i].valid = TRUE
    BY <1>5
  <2> HIDE DEF S, T
  <2>4. LatestOf(S') \in T
    BY <1>5, <2>1, <2>2, LatestAfter
  <2>5. LatestOf(S)' = LatestOf(S') /\ S' # {}
    BY <2>1, <2>2 DEF LatestOf
  <2>6. bulletin'[LatestOf(S)'].valid = TRUE
    BY <2>3, <2>4, <2>5
  <2>7. verification'[a] # None /\ verification'[a].valid = TRUE
    <3> DEFINE result == AggregatorVerification(a, TRUE)
    <3>1. result \in [aggregator_id : Aggregators, valid : BOOLEAN] /\ result.valid = TRUE
      BY DEF AggregatorVerification
    <3>2. verification'[a] = result
      BY <1>1, <1>9
    <3> HIDE DEF result
    <3>. QED  BY <3>1, <3>2, NoneAssumption
  <2>. QED  BY <2>5, <2>6, <2>7 DEF ResultTold, S
<1>10. \A a \in Aggregators : Told(a)'
  BY <1>7, <1>8, <1>9 DEF Told
<1>. QED  BY <1>4, <1>6, <1>10, ToldPartsNext

\* The board of a new election tells that nothing has happened.
LEMMA InitBoardInv == Init => BoardInv
<1> SUFFICES ASSUME Init PROVE BoardInv
  OBVIOUS
<1>1. bulletin = <<ElectionCreated>> /\ ElectionCreated.kind = "election_created"
  BY DEF Init, ElectionCreated
<1>2. IsList(bulletin)
  BY <1>1, OneEvent
<1>3. \A kind : kind # "election_created" => Events(kind) = {}
  BY <1>1 DEF Events
<1>4. \A kind, a : kind # "election_created" => EventsOf(kind, a) = {}
  BY <1>3 DEF EventsOf
<1>5. PhaseTold
  BY <1>3 DEF Init, PhaseTold
<1>6. ASSUME NEW a \in Aggregators
      PROVE  Told(a)
  <2>1. PostTold(a) /\ ValidTold(a) /\ TallyTold(a) /\ ResultTold(a)
    BY <1>4 DEF Init, PostTold, ValidTold, TallyTold, ResultTold
  <2>2. ListTold(a)
    <3> DEFINE I == EventsOf("voter_registered", a)
    <3>1. I = {} /\ Cardinality({}) = 0
      BY <1>4, FS_EmptySet
    <3> HIDE DEF I
    <3>2. DOMAIN ElementsAt(bulletin, I) = {}
      BY <3>1 DEF ElementsAt
    <3>3. DOMAIN registered[a] = {}
      BY DEF Init
    <3>. QED  BY <3>2, <3>3 DEF ListTold, I
  <2>. QED  BY <2>1, <2>2 DEF Told
<1>. QED  BY <1>2, <1>5, <1>6, ToldParts DEF BoardInv

\* Every step of the election.
LEMMA NextBoardInv == IndInv /\ TallyInv /\ BoardInv /\ [Next]_vars => BoardInv'
<1> SUFFICES ASSUME IndInv, TallyInv, BoardInv, [Next]_vars
             PROVE  BoardInv'
  OBVIOUS
<1>1. ASSUME NEW p \in PhaseNames, set_phase(p)
      PROVE  BoardInv'
  BY <1>1, SetPhaseTold
<1>2. ASSUME NEW count \in BatchSizes, demo_create_voters(count)
      PROVE  BoardInv'
  BY <1>2, BoardUnchanged DEF demo_create_voters
<1>3. ASSUME NEW v \in Voters, NEW a \in Aggregators \cup {Stranger}, register_voter(v, a)
      PROVE  BoardInv'
  BY <1>3, RegisterVoterTold
<1>4. ASSUME NEW v \in Voters, NEW c \in CandidateIds \cup {Stranger}, cast_vote(v, c)
      PROVE  BoardInv'
  BY <1>4, BoardUnchanged DEF cast_vote
<1>5. ASSUME NEW a \in Aggregators \cup {Stranger}, finalize_aggregator(a)
      PROVE  BoardInv'
  BY <1>5, FinalizeTold
<1>6. ASSUME NEW a \in Aggregators \cup {Stranger}, prove_aggregator(a)
      PROVE  BoardInv'
  BY <1>6, ProveTold
<1>7. ASSUME NEW a \in Aggregators \cup {Stranger}, verify_aggregator(a)
      PROVE  BoardInv'
  BY <1>7, VerifyTold
<1>8. CASE verify_all
  BY <1>8, VerifyAllTold
<1>9. CASE UNCHANGED vars
  BY <1>9, BoardUnchanged DEF vars
<1>. QED  BY <1>1, <1>2, <1>3, <1>4, <1>5, <1>6, <1>7, <1>8, <1>9 DEF Next, ReadRequest

\* Whatever requests an election gets, the board alone tells its public state.
THEOREM BoardTells == Spec => []BoardTellsState
<1>1. Init => BoardInv
  BY InitBoardInv
<1>2. (IndInv /\ TallyInv) /\ BoardInv /\ [Next]_vars => BoardInv'
  BY NextBoardInv
<1>3. BoardInv => BoardTellsState
  BY DEF BoardInv
<1>. QED  BY <1>1, <1>2, <1>3, TallyInvariance, PTL DEF Spec

-----------------------------------------------------------------------------
(* The audit of a published global tally *)

Counted(n, a) ==
    /\ Before(n, "tally_post", a) # {}
    /\ Before(n, "verification_result", a) # {}
    /\ bulletin[LatestOf(Before(n, "verification_result", a))].valid
    /\ LatestOf(Before(n, "tally_post", a)) < LatestOf(Before(n, "verification_result", a))

CountOf(n, a, j) ==
    IF Counted(n, a)
    THEN bulletin[LatestOf(Before(n, "tally_post", a))].post.candidate_counts[j]
    ELSE 0

Audited(n) ==
    /\ bulletin[n].tally =
          [j \in DOMAIN Candidates |-> SumFunction([a \in Aggregators |-> CountOf(n, a, j)])]
    /\ bulletin[n].duplicate_voters = {}

\* GlobalTallyAuditable, event by event.
LEMMA AuditParts == GlobalTallyAuditable <=> \A n \in Events("global_tally") : Audited(n)
  BY DEF GlobalTallyAuditable, Audited, CountOf, Counted

\* The same of the next state.
LEMMA AuditPartsNext ==
    ASSUME \A n \in Events("global_tally")' : Audited(n)'
    PROVE  GlobalTallyAuditable'
  BY DEF GlobalTallyAuditable, Audited, CountOf, Counted

\* What was audited before is not disturbed by later events.
LEMMA AuditKept ==
    ASSUME IsList(bulletin), NEW events, Added(events), NEW n \in Events("global_tally"), Audited(n)
    PROVE  Audited(n)'
<1> DEFINE k == Len(bulletin)
<1>1. k \in Nat /\ n \in 1..k /\ \A i \in 1..k : bulletin'[i] = bulletin[i]
  BY EventsAdded DEF IsList, Added
<1>2. ASSUME NEW kind, NEW a
      PROVE  /\ Before(n, kind, a)' = Before(n, kind, a)
             /\ Before(n, kind, a) \in SUBSET (1..k)
  <2> DEFINE S == EventsOf(kind, a)
             T == NewOfId(events, kind, a)
  <2>1. S' = S \cup T /\ S \subseteq 1..k
    BY EventsAdded
  <2>2. \A i \in T : ~(i < n)
    BY <1>1 DEF NewOfId
  <2> HIDE DEF S, T
  <2>3. Before(n, kind, a)' = {i \in S' : i < n} /\ Before(n, kind, a) = {i \in S : i < n}
    BY DEF Before, S
  <2>. QED  BY <2>1, <2>2, <2>3
<1>3. ASSUME NEW a
      PROVE  (Counted(n, a)' <=> Counted(n, a)) /\ \A j : CountOf(n, a, j)' = CountOf(n, a, j)
  <2> DEFINE P == Before(n, "tally_post", a)
             R == Before(n, "verification_result", a)
  <2>1. P' = P /\ R' = R /\ P \in SUBSET (1..k) /\ R \in SUBSET (1..k)
    BY <1>2
  <2> HIDE DEF P, R, k
  <2>2. LatestOf(P)' = LatestOf(P) /\ LatestOf(R)' = LatestOf(R)
    BY <2>1 DEF LatestOf
  <2>3. /\ P # {} => LatestOf(P) \in 1..k
        /\ R # {} => LatestOf(R) \in 1..k
    BY <1>1, <2>1, LatestIs
  <2>4. /\ P # {} => bulletin'[LatestOf(P)'] = bulletin[LatestOf(P)]
        /\ R # {} => bulletin'[LatestOf(R)'] = bulletin[LatestOf(R)]
    BY <1>1, <2>2, <2>3
  <2>5. Counted(n, a)' <=> Counted(n, a)
    BY <2>1, <2>2, <2>4 DEF Counted, P, R
  <2>6. Counted(n, a) => P # {}
    BY DEF Counted, P
  <2>. QED  BY <2>2, <2>4, <2>5, <2>6 DEF CountOf, P
<1>4. \A j : [a \in Aggregators |-> CountOf(n, a, j)]' = [a \in Aggregators |-> CountOf(n, a, j)]
  BY <1>3
<1>. QED  BY <1>1, <1>4 DEF Audited

\* There are finitely many aggregators: they are listed.
LEMMA FiniteAggregators == IsFiniteSet(Aggregators)
<1> DEFINE l == Len(AggregatorList)
           f == [i \in 1..l |-> AggregatorList[i]]
<1>1. l \in Nat /\ DOMAIN AggregatorList = 1..l
  BY AggregatorsAssumption
<1>2. f \in Surjection(1..l, Aggregators)
  BY <1>1, ZenonT(30) DEF Surjection, Aggregators
<1> HIDE DEF l, f
<1>3. IsFiniteSet(1..l)
  <2>1. 1 \in Int /\ l \in Int
    BY <1>1
  <2>. QED  BY <2>1, FS_Interval
<1>. QED  BY <1>2, <1>3, FS_Surjection

\* No list is named twice among those with a tally.
LEMMA TalliedOnce ==
    ASSUME DistinctAggregators, ListsTallied
    PROVE  \A l, n \in DOMAIN TalliedIds : TalliedIds[l] = TalliedIds[n] => l = n
<1> DEFINE I == TalliedPlaces
           c == Cardinality(I)
<1>1. I \in SUBSET Nat /\ IsFiniteSet(I) /\ I \subseteq DOMAIN AggregatorList
  <2> DEFINE l == Len(AggregatorList)
  <2>1. l \in Nat /\ DOMAIN AggregatorList = 1..l
    BY AggregatorsAssumption
  <2> HIDE DEF l
  <2>2. IsFiniteSet(1..l)
    <3>1. 1 \in Int /\ l \in Int
      BY <2>1
    <3>. QED  BY <3>1, FS_Interval
  <2>3. I \in SUBSET (1..l)
    BY <2>1 DEF TalliedPlaces
  <2> HIDE DEF I
  <2>4. IsFiniteSet(I)
    BY <2>2, <2>3, FS_Subset
  <2>5. 1..l \in SUBSET Nat
    BY <2>1
  <2>. QED  BY <2>1, <2>3, <2>4, <2>5
<1> HIDE DEF I
<1>2. /\ DOMAIN TalliedIds = 1..c
      /\ \A n \in 1..c : Nth(I, n) \in I /\ TalliedIds[n] = AggregatorList[Nth(I, n)]
      /\ \A l, n \in 1..c : l # n => Nth(I, l) # Nth(I, n)
  BY <1>1, ElementsAtIs DEF TalliedIds, I
<1>. QED  BY <1>1, <1>2 DEF DistinctAggregators

\* Honest posts of distinct aggregators name no voter twice.
LEMMA NoDuplicates ==
    ASSUME DistinctAggregators, IndInv, TallyInv
    PROVE  check_no_duplicate_voters(Collect(finalized)) = {}
<1> DEFINE places == {i \in DOMAIN AggregatorList : finalized[AggregatorList[i]] # None}
           N == Cardinality(places)
           posts == Collect(finalized)
           agg(n) == AggregatorList[Nth(places, n)]
<1>1. /\ N \in Nat /\ DOMAIN posts = 1..N
      /\ \A n \in 1..N : Nth(places, n) \in places /\ posts[n] = finalized[agg(n)]
      /\ \A l, n \in 1..N : l # n => Nth(places, l) # Nth(places, n)
  BY CollectIs
<1>2. /\ \A n \in 1..N : agg(n) \in Aggregators /\ finalized[agg(n)] # None
      /\ \A l, n \in 1..N : agg(l) = agg(n) => l = n
  <2>1. \A n \in 1..N : Nth(places, n) \in DOMAIN AggregatorList
    BY <1>1
  <2>. QED  BY <1>1, <2>1, ZenonT(60) DEF DistinctAggregators, Aggregators
<1> HIDE DEF places, N, posts, agg
<1>3. ASSUME NEW n \in 1..N, NEW i \in DOMAIN posts[n].voters
      PROVE  /\ i \in DOMAIN registered[agg(n)]
             /\ posts[n].voters[i].voter_id = registered[agg(n)][i].voter_id
  <2> DEFINE a == agg(n)
             list == registered[a]
  <2>1. a \in Aggregators /\ finalized[a] # None /\ posts[n] = finalized[a]
    BY <1>1, <1>2
  <2>2. finalized[a] = finalize_registration(a, list)
    BY <2>1 DEF IndInv, RegistrationFrozen
  <2>3. list \in Seq(RegisteredVoters) /\ Fits(list)
    BY <2>1, HonestList
  <2> HIDE DEF list, a
  <2>4. MadeOf(posts[n], a, list, Len(list), required_domain_size(Len(list)))
    BY <2>1, <2>2, <2>3, PostParts
  <2>5. DOMAIN list = 1..Len(list)
    BY <2>3
  <2>. QED  BY <2>4, <2>5 DEF MadeOf, list, a
<1>4. ASSUME NEW p \in Records(posts), NEW q \in Records(posts), VoterAt(posts, p) = VoterAt(posts, q)
      PROVE  p = q
  <2>1. PICK l \in 1..N : \E i \in DOMAIN posts[l].voters : p = <<l, i>>
    BY <1>1 DEF Records
  <2>2. PICK n \in 1..N : \E m \in DOMAIN posts[n].voters : q = <<n, m>>
    BY <1>1 DEF Records
  <2>3. PICK i \in DOMAIN posts[l].voters : p = <<l, i>>
    BY <2>1
  <2>4. PICK m \in DOMAIN posts[n].voters : q = <<n, m>>
    BY <2>2
  <2>5. posts[l].voters[i].voter_id = posts[n].voters[m].voter_id
    BY <1>4, <2>3, <2>4 DEF VoterAt
  <2>6. /\ i \in DOMAIN registered[agg(l)] /\ m \in DOMAIN registered[agg(n)]
        /\ registered[agg(l)][i].voter_id = registered[agg(n)][m].voter_id
    BY <1>3, <2>3, <2>4, <2>5
  <2>7. agg(l) = agg(n)
    BY <1>2, <2>6 DEF IndInv, DelegationConsistent
  <2>8. l = n
    BY <1>2, <2>7
  <2>9. i = m
    BY <1>2, <2>6, <2>7 DEF IndInv, DelegationConsistent
  <2>. QED  BY <2>3, <2>4, <2>8, <2>9
<1>5. \A q \in Records(posts) : ~ \E p \in Records(posts) \ {q} : VoterAt(posts, p) = VoterAt(posts, q)
  BY <1>4
<1>6. check_no_duplicate_voters(posts) = {}
  BY <1>5 DEF check_no_duplicate_voters
<1>. QED  BY <1>6 DEF posts

\* When verify_all has announced its results, what the board gives for an aggregator is
\* what its tally on display gives.
LEMMA AnnouncedCount ==
    ASSUME TallyInv, BoardInv, NEW events, Announces(events), Added(events),
           NEW n, n = Len(bulletin) + Len(TalliedIds) + 1, NEW a \in Aggregators, NEW j
    PROVE  CountOf(n, a, j)' = IF tally_post[a] # None THEN tally_post[a].candidate_counts[j] ELSE 0
<1> DEFINE k == Len(bulletin)
           N == Len(TalliedIds)
           P == EventsOf("tally_post", a)
           R == EventsOf("verification_result", a)
           T == {k + i : i \in {m \in 1..N : TalliedIds[m] = a}}
<1>1. ListsTallied
  BY TalliedListed
<1>2. /\ k \in Nat /\ N \in Nat /\ n = k + N + 1
      /\ NewOfId(events, "tally_post", a) = {}
      /\ NewOfId(events, "verification_result", a) = T
      /\ \A m \in 1..N : bulletin'[k + m].valid = TRUE
  BY <1>1, AnnouncedNews DEF BoardInv
<1>3. P' = P \cup NewOfId(events, "tally_post", a) /\ P \subseteq 1..k
  BY EventsAdded DEF BoardInv
<1>4. R' = R \cup NewOfId(events, "verification_result", a) /\ R \subseteq 1..k
  BY EventsAdded DEF BoardInv
<1>5. T \in SUBSET ((k + 1)..(k + N)) /\ \A i \in T : bulletin'[i].valid = TRUE
  <2>1. \A m \in 1..N : k + m \in (k + 1)..(k + N)
    BY <1>2
  <2>. QED  BY <1>2, <2>1
<1>6. TallyTold(a) /\ ResultTold(a)
  BY ToldParts DEF BoardInv, Told
<1>7. T # {} <=> tally_post[a] # None
  BY <1>1 DEF ListsTallied
<1>8. \A i \in 1..k : bulletin'[i] = bulletin[i]
  BY DEF Added
<1>9. /\ Before(n, "tally_post", a)' = {i \in P' : i < n}
      /\ Before(n, "verification_result", a)' = {i \in R' : i < n}
  BY DEF Before
<1>10. P # {} => LatestOf(P) \in P
  BY <1>2, <1>3, LatestIs
<1> HIDE DEF k, N, P, R, T
<1>11. /\ Before(n, "tally_post", a)' = P
       /\ Before(n, "verification_result", a)' = R \cup T
  <2>1. \A i \in 1..k : i < n
    BY <1>2
  <2>2. \A i \in (k + 1)..(k + N) : i < n
    BY <1>2
  <2>. QED  BY <1>2, <1>3, <1>4, <1>5, <1>9, <2>1, <2>2
<1>12. /\ LatestOf(Before(n, "tally_post", a))' = LatestOf(P)
       /\ LatestOf(Before(n, "verification_result", a))' = LatestOf(R \cup T)
  BY <1>11 DEF LatestOf
<1>13. CASE tally_post[a] = None
  <2>1. verification[a] = None
    BY <1>13 DEF TallyInv, VerificationsTrue
  <2>2. R = {} /\ T = {}
    BY <1>6, <1>7, <1>13, <2>1 DEF ResultTold, R
  <2>3. ~Counted(n, a)'
    BY <1>11, <2>2 DEF Counted
  <2>. QED  BY <1>13, <2>3 DEF CountOf
<1>14. CASE tally_post[a] # None
  <2>1. P # {} /\ tally_post[a] = bulletin[LatestOf(P)].post
    BY <1>6, <1>14 DEF TallyTold, P
  <2>2. LatestOf(P) \in 1..k /\ bulletin'[LatestOf(P)] = bulletin[LatestOf(P)]
    BY <1>3, <1>8, <1>10, <2>1
  <2>3. LatestOf(R \cup T) \in T
    BY <1>2, <1>4, <1>5, <1>7, <1>14, LatestAfter
  <2>4. LatestOf(P) < LatestOf(R \cup T)
    <3>1. LatestOf(R \cup T) \in (k + 1)..(k + N)
      BY <1>5, <2>3
    <3>. QED  BY <1>2, <2>2, <3>1
  <2>5. R \cup T # {}
    BY <2>3
  <2>6. Counted(n, a)'
    BY <1>5, <1>11, <1>12, <2>1, <2>3, <2>4, <2>5 DEF Counted
  <2>. QED  BY <1>12, <1>14, <2>1, <2>2, <2>6 DEF CountOf
<1>. QED  BY <1>13, <1>14

\* The sum that verify_all publishes, over a list of ids, is the sum over the ids.
LEMMA TalliedSumIs ==
    ASSUME DistinctAggregators, TallyInv, NEW j \in DOMAIN Candidates,
           NEW g, DOMAIN g = Aggregators,
           \A a \in Aggregators :
              g[a] = IF tally_post[a] # None THEN tally_post[a].candidate_counts[j] ELSE 0
    PROVE  TalliedSum[j] = SumFunction(g)
<1> DEFINE N == Len(TalliedIds)
           t == TalliedIds
           T == {a \in Aggregators : tally_post[a] # None}
           X == [a \in T |-> tally_post[a].candidate_counts[j]]
           f == [n \in DOMAIN TalliedIds |-> tally_post[TalliedIds[n]].candidate_counts[j]]
<1>1. ListsTallied
  BY TalliedListed
<1>2. /\ N \in Nat /\ DOMAIN t = 1..N
      /\ \A n \in 1..N : t[n] \in T
      /\ \A a \in T : \E n \in 1..N : t[n] = a
  BY <1>1 DEF ListsTallied
<1>3. t \in [1..N -> T]
  <2>1. t = [n \in DOMAIN t |-> t[n]]
    BY DEF TalliedIds, ElementsAt
  <2> HIDE DEF t, T, N
  <2>. QED  BY <1>2, <2>1
<1>4. \A i, k \in 1..N : t[i] = t[k] => i = k
  BY <1>1, <1>2, TalliedOnce
<1>5. \A a \in T : X[a] \in Nat
  BY DEF TallyInv, TalliesTrue, TrueTally
<1>6. DOMAIN f = 1..N /\ \A i \in 1..N : f[i] = X[t[i]]
  BY <1>2
<1>7. \A a \in Aggregators : g[a] = IF a \in T THEN X[a] ELSE 0
  OBVIOUS
<1>8. TalliedSum[j] = SumFunction(f)
  BY DEF TalliedSum
<1>9. T \in SUBSET Aggregators
  OBVIOUS
<1> HIDE DEF N, t, T, X, f
<1>10. SumFunction(f) = SumFunction(g)
  <2>1. Reindexed(Aggregators, T, N, t, X, f, g)
    BY <1>2, <1>3, <1>4, <1>5, <1>6, <1>7, <1>9 DEF Reindexed
  <2>. QED  BY <2>1, FiniteAggregators, SumReindexed
<1>. QED  BY <1>8, <1>10

\* verify_all publishes a tally that the board it leaves behind accounts for.
LEMMA VerifyAllAudited ==
    ASSUME DistinctAggregators, IndInv, TallyInv, BoardInv, GlobalTallyAuditable, verify_all
    PROVE  GlobalTallyAuditable'
<1> DEFINE N == Len(TalliedIds)
           k == Len(bulletin)
           n == k + N + 1
           dups == check_no_duplicate_voters(Collect(finalized))
<1>1. PICK events : Announces(events) /\ post_bulletin(events)
  BY VerifyAllAnnounces
<1>2. ListsTallied
  BY TalliedListed
<1>3. Added(events)
  BY <1>1, Posting DEF Announces, BoardInv
<1>4. /\ NewOf(events, "global_tally") = {n} /\ bulletin'[n] = events[N + 1]
  BY <1>1, <1>2, <1>3, AnnouncedNews DEF BoardInv
<1>5. Events("global_tally")' = Events("global_tally") \cup NewOf(events, "global_tally")
  BY <1>3, EventsAdded DEF BoardInv
<1>6. events[N + 1] = GlobalTally(TalliedSum, dups)
  BY <1>1 DEF Announces
<1>7. dups = {}
  BY NoDuplicates
<1>8. bulletin'[n].tally = TalliedSum /\ bulletin'[n].duplicate_voters = {}
  <2>1. \A t, d : GlobalTally(t, d).tally = t /\ GlobalTally(t, d).duplicate_voters = d
    BY DEF GlobalTally
  <2> HIDE DEF dups
  <2>. QED  BY <1>4, <1>6, <1>7, <2>1
<1>9. ASSUME NEW m, m = n
      PROVE  Audited(m)'
  <2>1. \A a \in Aggregators : \A j :
           CountOf(m, a, j)' = IF tally_post[a] # None THEN tally_post[a].candidate_counts[j] ELSE 0
    BY <1>1, <1>3, <1>9, AnnouncedCount
  <2>2. ASSUME NEW j \in DOMAIN Candidates
        PROVE  TalliedSum[j] = SumFunction([a \in Aggregators |-> CountOf(m, a, j)])'
    <3> DEFINE g == [a \in Aggregators |-> CountOf(m, a, j)']
    <3>1. /\ DOMAIN g = Aggregators
          /\ \A a \in Aggregators :
                g[a] = IF tally_post[a] # None THEN tally_post[a].candidate_counts[j] ELSE 0
      BY <2>1
    <3>2. [a \in Aggregators |-> CountOf(m, a, j)]' = g
      OBVIOUS
    <3>3. SumFunction([a \in Aggregators |-> CountOf(m, a, j)])'
             = SumFunction([a \in Aggregators |-> CountOf(m, a, j)]')
      BY DEF SumFunction, SumFunctionOnSet, FoldFunctionOnSet, MapThenFoldSet
    <3> HIDE DEF g
    <3>4. TalliedSum[j] = SumFunction(g)
      BY <3>1, TalliedSumIs
    <3>. QED  BY <3>2, <3>3, <3>4
  <2>3. TalliedSum = [j \in DOMAIN Candidates |-> TalliedSum[j]]
    BY DEF TalliedSum
  <2>4. TalliedSum = [j \in DOMAIN Candidates |->
                         SumFunction([a \in Aggregators |-> CountOf(m, a, j)])]'
    BY <2>2, <2>3
  <2>5. bulletin'[m].tally = TalliedSum /\ bulletin'[m].duplicate_voters = {}
    BY <1>8, <1>9
  <2>. QED  BY <2>4, <2>5 DEF Audited
<1>10. ASSUME NEW m \in Events("global_tally")
       PROVE  Audited(m)'
  BY <1>3, <1>10, AuditKept, AuditParts DEF BoardInv
<1> HIDE DEF n
<1>11. \A m \in Events("global_tally")' : Audited(m)'
  BY <1>4, <1>5, <1>9, <1>10
<1>. QED  BY <1>11, AuditPartsNext

\* Events of another kind leave the published global tallies as they are.
LEMMA AuditQuiet ==
    ASSUME BoardInv, GlobalTallyAuditable, NEW events, IsList(events), post_bulletin(events),
           NewOf(events, "global_tally") = {}
    PROVE  GlobalTallyAuditable'
<1>1. Added(events)
  BY Posting DEF BoardInv
<1>2. Events("global_tally")' = Events("global_tally") \cup {}
  BY <1>1, EventsAdded DEF BoardInv
<1>3. ASSUME NEW n \in Events("global_tally")
      PROVE  Audited(n)'
  BY <1>1, <1>3, AuditKept, AuditParts DEF BoardInv
<1>. QED  BY <1>2, <1>3, AuditPartsNext

\* A step that posts nothing.
LEMMA AuditUnchanged ==
    ASSUME GlobalTallyAuditable, UNCHANGED bulletin
    PROVE  GlobalTallyAuditable'
<1>1. \A kind : Events(kind)' = Events(kind)
  BY DEF Events
<1>2. \A kind, a : EventsOf(kind, a)' = EventsOf(kind, a)
  BY <1>1 DEF EventsOf
<1>3. \A n, kind, a : Before(n, kind, a)' = Before(n, kind, a)
  BY <1>2 DEF Before
<1>4. ASSUME NEW n
      PROVE  \A a, j : CountOf(n, a, j)' = CountOf(n, a, j)
  <2>1. ASSUME NEW kind, NEW a
        PROVE  LatestOf(Before(n, kind, a))' = LatestOf(Before(n, kind, a))
    BY <1>3 DEF LatestOf
  <2>2. \A a : Counted(n, a)' <=> Counted(n, a)
    BY <1>3, <2>1 DEF Counted
  <2>. QED  BY <2>1, <2>2 DEF CountOf
<1>5. ASSUME NEW n \in Events("global_tally")
      PROVE  Audited(n)'
  <2>1. Audited(n)
    BY AuditParts
  <2>2. \A j : [a \in Aggregators |-> CountOf(n, a, j)]' = [a \in Aggregators |-> CountOf(n, a, j)]
    BY <1>4
  <2>. QED  BY <2>1, <2>2 DEF Audited
<1>. QED  BY <1>1, <1>5, AuditPartsNext

\* Every step of the election.
LEMMA NextAudited ==
    ASSUME DistinctAggregators, IndInv, TallyInv, BoardInv, GlobalTallyAuditable, [Next]_vars
    PROVE  GlobalTallyAuditable'
<1>1. ASSUME NEW e, post_bulletin(<<e>>), e.kind # "global_tally"
      PROVE  GlobalTallyAuditable'
  BY <1>1, OneEvent, AuditQuiet
<1>2. ASSUME NEW p \in PhaseNames, set_phase(p)
      PROVE  GlobalTallyAuditable'
  BY <1>1, <1>2 DEF set_phase, PhaseChanged
<1>3. ASSUME NEW count \in BatchSizes, demo_create_voters(count)
      PROVE  GlobalTallyAuditable'
  BY <1>3, AuditUnchanged DEF demo_create_voters
<1>4. ASSUME NEW v \in Voters, NEW a \in Aggregators \cup {Stranger}, register_voter(v, a)
      PROVE  GlobalTallyAuditable'
  BY <1>1, <1>4 DEF register_voter, VoterRegistered
<1>5. ASSUME NEW v \in Voters, NEW c \in CandidateIds \cup {Stranger}, cast_vote(v, c)
      PROVE  GlobalTallyAuditable'
  BY <1>5, AuditUnchanged DEF cast_vote
<1>6. ASSUME NEW a \in Aggregators \cup {Stranger}, finalize_aggregator(a)
      PROVE  GlobalTallyAuditable'
  <2>1. PICK d, e : /\ post_bulletin(<<d, e>>)
                    /\ d.kind = "registration_post" /\ e.kind = "registration_validated"
    <3> DEFINE post == finalize_registration(a, registered[a])
               d == RegistrationPost(post)
               e == RegistrationValidated(a, validate_finalized_registration(post, FALSE))
    <3>1. post_bulletin(<<d, e>>)
      BY <1>6 DEF finalize_aggregator
    <3>2. d.kind = "registration_post" /\ e.kind = "registration_validated"
      BY DEF RegistrationPost, RegistrationValidated
    <3> HIDE DEF d, e
    <3>. QED  BY <3>1, <3>2
  <2>2. IsList(<<d, e>>) /\ NewOf(<<d, e>>, "global_tally") = {}
    BY <2>1, TwoEvents
  <2>. QED  BY <2>1, <2>2, AuditQuiet
<1>7. ASSUME NEW a \in Aggregators \cup {Stranger}, prove_aggregator(a)
      PROVE  GlobalTallyAuditable'
  BY <1>1, <1>7 DEF prove_aggregator, TallyPosted
<1>8. ASSUME NEW a \in Aggregators \cup {Stranger}, verify_aggregator(a)
      PROVE  GlobalTallyAuditable'
  BY <1>1, <1>8 DEF verify_aggregator, VerificationResult
<1>9. CASE verify_all
  BY <1>9, VerifyAllAudited
<1>10. CASE UNCHANGED vars
  BY <1>10, AuditUnchanged DEF vars
<1>. QED  BY <1>2, <1>3, <1>4, <1>5, <1>6, <1>7, <1>8, <1>9, <1>10 DEF Next, ReadRequest

\* In every election whose aggregator ids are distinct, anyone can check each published
\* global tally from the board alone.
THEOREM GlobalTalliesAudited ==
    ASSUME DistinctAggregators
    PROVE  Spec => []GlobalTallyAuditable
<1>1. Init => GlobalTallyAuditable
  BY AuditParts DEF Init, ElectionCreated, Events
<1>2. Init => BoardInv
  BY InitBoardInv
<1>3. (IndInv /\ TallyInv) /\ BoardInv /\ [Next]_vars => BoardInv'
  BY NextBoardInv
<1>4. (IndInv /\ TallyInv) /\ BoardInv /\ GlobalTallyAuditable /\ [Next]_vars => GlobalTallyAuditable'
  BY NextAudited
<1>. QED  BY <1>1, <1>2, <1>3, <1>4, TallyInvariance, PTL DEF Spec
=============================================================================
