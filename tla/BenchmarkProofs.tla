--------------------------- MODULE BenchmarkProofs ---------------------------
(***************************************************************************)
(* Proofs about a run of the benchmark, for any number of voters,          *)
(* aggregators and candidates, however voters and ballots are distributed: *)
(* only what is outside the protocol makes a run fail, a result is honest  *)
(* about what happened, domains are no larger than they must be, and a     *)
(* tally proves no other counts than its own.                              *)
(***************************************************************************)
EXTENDS Benchmark, CoreProofs

-----------------------------------------------------------------------------
(* The inductive invariant *)

Fields == DOMAIN BlankResult

\* The stages in which the aggregators are gone through.
Running == {"voters", "aggregator", "registration", "prove"}

TypeOK ==
    /\ config \in Configs
    /\ cancel \in BOOLEAN
    /\ stage \in Running \union {"start", "simulate", "returned"}
    /\ agg_idx \in 1..(Len(AggregatorList) + 1)
    /\ DOMAIN result = Fields
    /\ result.success \in BOOLEAN

\* Each of the voters, of which there are some, has an aggregator and a ballot.
Assigned ==
    /\ config.voters \in 1..MaxVoters
    /\ AggregatorList # <<>>
    /\ assigned \in [1..config.voters -> [aggregator : Aggregators, candidate : DOMAIN Candidates]]

Sampled ==
    /\ result.voters_per_aggregator = per_agg_count(assigned)
    /\ result.expected_tally = expected_tally(assigned)

\* What an aggregator makes of the voters and ballots it was given.
PostOf(a)  == finalize_registration(a, Mine(a))
TallyOf(a) == build_and_prove_tally(PostOf(a), Mine(a), VotesFor(a))
RowOf(a)   == AggregatorBenchResult(a, Len(Mine(a)), PostOf(a).domain_size, TRUE)
Seen(a)    == [aggregator_id |-> a, valid |-> TRUE]

\* The aggregators before the current one have a tally, and it was found valid.
Passed ==
    /\ posts = [i \in 1..(agg_idx - 1) |-> TallyOf(AggregatorList[i])]
    /\ verifications = [i \in 1..(agg_idx - 1) |-> Seen(AggregatorList[i])]
    /\ stage \in Running =>
          result.per_aggregator = [i \in 1..(agg_idx - 1) |-> RowOf(AggregatorList[i])]

\* The registration post on which the next tally is made is that of the current aggregator.
Registered ==
    /\ finalized # None => \E a \in Aggregators : finalized = PostOf(a)
    /\ stage \in {"registration", "prove"} => agg_idx <= Len(AggregatorList)
    /\ stage = "prove" => finalized = PostOf(aggregator_id)

\* Nothing is claimed before the run has returned.
Open == stage # "returned" => ~result.success /\ result.error = None

IndInv ==
    /\ TypeOK
    /\ stage \in Running \union {"simulate"} => Assigned /\ Sampled
    /\ agg_idx > 1 \/ finalized # None => Assigned
    /\ stage = "start" => result = BlankResult
    /\ stage \in {"start", "simulate", "voters"} => agg_idx = 1 /\ finalized = None
    /\ Passed
    /\ Registered
    /\ Open
    /\ HonestResult
    /\ OnlyOutsideFailures

-----------------------------------------------------------------------------
(* What an aggregator is given *)

\* The voters of an aggregator.
SetOf(a) == {v \in 1..config.voters : assigned[v].aggregator = a}

Entry(v, a) == RegisteredVoter(v, sign_delegation(v, a), skv(v))

Entries(a) == {Entry(v, a) : v \in 1..config.voters}

LEMMA Lists ==
    /\ Len(AggregatorList) \in Nat /\ DOMAIN AggregatorList = 1..Len(AggregatorList)
    /\ \A i \in 1..Len(AggregatorList) : AggregatorList[i] \in Aggregators
    /\ \A a \in Aggregators : \E i \in 1..Len(AggregatorList) : AggregatorList[i] = a
    /\ Len(Candidates) \in Nat /\ DOMAIN Candidates = 1..Len(Candidates)
    /\ NO_VOTE = Len(Candidates) + 1 /\ PAD = Len(Candidates) + 2
    /\ num_partitions = Len(Candidates) + 2
BY ListsAssumption DEF Aggregators, NO_VOTE, PAD, num_partitions

\* There is a domain for the voters of each aggregator, and it is as small as can be.
LEMMA DomainSizeFits ==
    ASSUME NEW n \in Nat, n <= MaxVoters
    PROVE  /\ required_domain_size(n) \in DomainSizes
           /\ required_domain_size(n) \in Nat
           /\ required_domain_size(n) >= n
           /\ required_domain_size(n) >= num_partitions + 1
           /\ \A q \in DomainSizes :
                 q >= n /\ q >= num_partitions + 1 => required_domain_size(n) <= q
<1>1. PICK d \in DomainSizes : d >= MaxVoters /\ d >= num_partitions + 1
  BY DomainSizesAssumption
<1>2. d \in Nat /\ MaxVoters \in Nat /\ num_partitions \in Nat
  BY DomainSizesAssumption, Lists
<1>3. d >= n
  BY <1>1, <1>2
<1>. QED  BY <1>1, <1>2, <1>3, DomainSizesAssumption, DomainSizeIs

\* Its list has each of its voters once, as they signed, and fits into a domain.
LEMMA MineIs ==
    ASSUME Assigned, NEW a \in Aggregators
    PROVE  /\ IsFiniteSet(SetOf(a)) /\ Cardinality(SetOf(a)) \in Nat
           /\ Mine(a) \in Seq(Entries(a))
           /\ Len(Mine(a)) = Cardinality(SetOf(a))
           /\ Len(VotersOf(assigned, a)) = Cardinality(SetOf(a))
           /\ \A i \in DOMAIN Mine(a) : Mine(a)[i].voter_id \in SetOf(a)
           /\ \A v \in SetOf(a) : \E i \in DOMAIN Mine(a) : Mine(a)[i].voter_id = v
           /\ Accepted(a, Mine(a))
           /\ Fits(Mine(a))
<1> DEFINE N == config.voters
           I == SetOf(a)
           all == [v \in 1..N |-> v]
           mine == ElementsAt(all, I)
           c == Cardinality(I)
<1>1. N \in Nat /\ N <= MaxVoters /\ MaxVoters \in Nat /\ DOMAIN assigned = 1..N
  BY DomainSizesAssumption DEF Assigned
<1>2. IsFiniteSet(1..N) /\ Cardinality(1..N) = N
  <2>1. 1 \in Int /\ N \in Int
    BY <1>1
  <2>2. IsFiniteSet(1..N) /\ Cardinality(1..N) = IF 1 > N THEN 0 ELSE N - 1 + 1
    BY <2>1, FS_Interval
  <2>. QED  BY <1>1, <2>2
<1>3. I \in SUBSET Nat /\ I \subseteq 1..N
  BY DEF SetOf
<1>4. VotersOf(assigned, a) = mine
  BY <1>1 DEF VotersOf, SetOf
<1> HIDE DEF N, I
<1>5. IsFiniteSet(I) /\ c \in Nat /\ c <= N
  <2>1. I \in SUBSET (1..N)
    BY <1>3
  <2>2. IsFiniteSet(I) /\ Cardinality(I) <= Cardinality(1..N)
    BY <1>2, <2>1, FS_Subset, Zenon
  <2>3. Cardinality(I) \in Nat
    BY <2>2, FS_CardinalityType
  <2>. QED  BY <1>2, <2>2, <2>3
<1>6. /\ DOMAIN mine = 1..c
      /\ \A n \in 1..c : Nth(I, n) \in I /\ mine[n] = all[Nth(I, n)]
      /\ \A i \in I : \E n \in 1..c : Nth(I, n) = i
      /\ \A m, n \in 1..c : m # n => Nth(I, m) # Nth(I, n)
  <2> HIDE DEF all
  <2>. QED  BY <1>3, <1>5, ElementsAtIs
<1>7. \A n \in 1..c : mine[n] \in I /\ mine[n] = Nth(I, n)
  BY <1>3, <1>6
<1>8. Mine(a) = [i \in 1..c |-> Entry(mine[i], a)]
  BY <1>4, <1>6 DEF Mine, Entry
<1>9. mine = [i \in 1..c |-> mine[i]]
  BY DEF ElementsAt
<1>10. /\ \A i \in I : \E n \in 1..c : mine[n] = i
       /\ \A m, n \in 1..c : m # n => mine[m] # mine[n]
  BY <1>6, <1>7
<1> HIDE DEF mine, c, all
<1>11. Len(mine) = c
  BY <1>5, <1>9
<1>12. \A v : Entry(v, a).voter_id = v
  BY DEF Entry, RegisteredVoter
<1>13. /\ DOMAIN Mine(a) = 1..c /\ Len(Mine(a)) = c
       /\ \A i \in 1..c : Mine(a)[i] = Entry(mine[i], a)
  BY <1>5, <1>8
<1>14. \A i \in 1..c : Mine(a)[i].voter_id = mine[i]
  BY <1>12, <1>13
<1>15. Mine(a) \in Seq(Entries(a))
  <2>1. \A i \in 1..c : Entry(mine[i], a) \in Entries(a)
    BY <1>3, <1>7 DEF Entries, N
  <2>. QED  BY <1>5, <1>8, <2>1
<1>16. Accepted(a, Mine(a))
  <2>1. \A i, j \in 1..c : Mine(a)[i].voter_id = Mine(a)[j].voter_id => i = j
    BY <1>10, <1>14
  <2>2. \A i \in 1..c : LET v == Mine(a)[i].voter_id IN Mine(a)[i] = Entry(v, a)
    BY <1>13, <1>14
  <2>. QED  BY <1>13, <2>1, <2>2 DEF Accepted, Entry
<1>17. Fits(Mine(a))
  <2>1. c <= MaxVoters
    BY <1>1, <1>5
  <2>. QED  BY <1>5, <1>13, <2>1, DomainSizeFits DEF Fits
<1>. QED
  BY <1>4, <1>5, <1>7, <1>10, <1>11, <1>13, <1>14, <1>15, <1>16, <1>17 DEF I, c

\* Its ballots are for candidates, and each voter's is for the one that was sampled.
LEMMA BallotsAre ==
    ASSUME Assigned, NEW a \in Aggregators
    PROVE  /\ Cast(VotesFor(a))
           /\ \A j \in DOMAIN Candidates :
                 For(Mine(a), VotesFor(a), j) = {v \in SetOf(a) : assigned[v].candidate = j}
<1> DEFINE list == Mine(a)
           votes == VotesFor(a)
<1>1. DOMAIN votes = SetOf(a) /\ \A v \in SetOf(a) : votes[v] = Candidates[assigned[v].candidate]
  BY DEF VotesFor, SetOf, Assigned
<1>2. \A v \in SetOf(a) : assigned[v].candidate \in DOMAIN Candidates
  BY DEF SetOf, Assigned
<1>3. Cast(votes)
  BY <1>1, <1>2 DEF Cast
<1>4. /\ \A i \in DOMAIN list : list[i].voter_id \in SetOf(a)
      /\ \A v \in SetOf(a) : \E i \in DOMAIN list : list[i].voter_id = v
  BY MineIs
<1> HIDE DEF list, votes
<1>5. WithBallot(list, votes) = SetOf(a)
  BY <1>1, <1>4 DEF WithBallot, VotersIn
<1>6. \A j \in DOMAIN Candidates : candidate_position(Candidates[j]) = j
  <2>1. ASSUME NEW j \in DOMAIN Candidates
        PROVE  candidate_position(Candidates[j]) = j
    <3>1. /\ candidate_position(Candidates[j]) \in DOMAIN Candidates
          /\ Candidates[candidate_position(Candidates[j])] = Candidates[j]
      BY PositionIs
    <3>. QED  BY <3>1, ListsAssumption
  <2>. QED  BY <2>1
<1>7. \A v \in SetOf(a) : candidate_position(votes[v]) = assigned[v].candidate
  BY <1>1, <1>2, <1>6
<1>8. \A j \in DOMAIN Candidates :
         For(list, votes, j) = {v \in SetOf(a) : assigned[v].candidate = j}
  BY <1>5, <1>7 DEF For
<1>. QED  BY <1>3, <1>8 DEF list, votes

\* Its posts are those of an honest aggregator, and pass every check.
LEMMA HonestPosts ==
    ASSUME Assigned, NEW a \in Aggregators
    PROVE  /\ MadeOf(PostOf(a), a, Mine(a), Len(Mine(a)), required_domain_size(Len(Mine(a))))
           /\ validate_finalized_registration(PostOf(a), TRUE)
           /\ CanBuildTally(PostOf(a), Mine(a), VotesFor(a))
           /\ verify_aggregator_tally(PostOf(a), TallyOf(a))
           /\ \A i \in DOMAIN Mine(a) :
                 accept_registration(a, Mine(a)[i].voter_id, Mine(a)[i].sigma, Mine(a)[i].skv)
<1> DEFINE list == Mine(a)
           votes == VotesFor(a)
<1>1. list \in Seq(Entries(a)) /\ Accepted(a, list) /\ Fits(list)
  BY MineIs
<1>2. Cast(votes)
  BY BallotsAre
<1>3. Candidates \in Seq({Candidates[j] : j \in DOMAIN Candidates})
  BY ListsAssumption
<1> HIDE DEF list, votes
<1>4. MadeOf(finalize_registration(a, list), a, list, Len(list), required_domain_size(Len(list)))
  BY <1>1, PostParts
<1>5. validate_finalized_registration(finalize_registration(a, list), TRUE)
  BY <1>1, PostIsValid
<1>6. /\ CanBuildTally(finalize_registration(a, list), list, votes)
      /\ verify_aggregator_tally(finalize_registration(a, list),
            build_and_prove_tally(finalize_registration(a, list), list, votes))
  BY <1>1, <1>2, <1>3, HonestTally
<1>7. ASSUME NEW i \in DOMAIN list
      PROVE  accept_registration(a, list[i].voter_id, list[i].sigma, list[i].skv)
  <2> DEFINE v == list[i].voter_id
  <2>1. list[i] = RegisteredVoter(v, sign_delegation(v, a), skv(v))
    BY <1>1 DEF Accepted
  <2> HIDE DEF v
  <2>2. list[i].sigma = sign_delegation(v, a) /\ list[i].skv = skv(v)
    BY <2>1 DEF RegisteredVoter
  <2>3. accept_registration(a, v, list[i].sigma, list[i].skv)
    BY <2>2 DEF accept_registration, verify_delegation, sign_delegation
  <2>. QED  BY <2>3 DEF v
<1>. QED  BY <1>4, <1>5, <1>6, <1>7 DEF list, votes, PostOf, TallyOf

\* Its tally counts, for each candidate, the voters it was given with a ballot for it.
LEMMA TallyParts ==
    ASSUME Assigned, NEW a \in Aggregators
    PROVE  LET t == TallyOf(a) IN
           /\ t.aggregator_id = a
           /\ Counts(t.sizes, Mine(a), VotesFor(a), Len(Mine(a)),
                     required_domain_size(Len(Mine(a))))
           /\ t.candidate_counts = SubSeq(t.sizes, 1, Len(Candidates))
           /\ t.proof = prove(PublicInput(PostOf(a), PostOf(a).c_commit, t.sizes),
                              TallyWitness(PostOf(a), Mine(a), VotesFor(a)))
           /\ \A j \in DOMAIN Candidates :
                 t.candidate_counts[j]
                    = Cardinality({v \in SetOf(a) : assigned[v].candidate = j})
<1> DEFINE list == Mine(a)
           votes == VotesFor(a)
           post == PostOf(a)
           sizes == TallySizes(post, votes)
           t == build_and_prove_tally(post, list, votes)
           m == Len(Candidates)
<1>1. /\ list \in Seq(Entries(a)) /\ Accepted(a, list) /\ Fits(list)
      /\ post = finalize_registration(a, list)
  BY MineIs DEF PostOf
<1>2. /\ Cast(votes)
      /\ \A j \in DOMAIN Candidates :
            For(list, votes, j) = {v \in SetOf(a) : assigned[v].candidate = j}
  BY BallotsAre
<1>3. Candidates \in Seq({Candidates[j] : j \in DOMAIN Candidates})
  BY ListsAssumption
<1>4. MadeOf(post, a, list, Len(list), required_domain_size(Len(list)))
  BY HonestPosts
<1> HIDE DEF list, votes, post
<1>5. Counts(sizes, list, votes, Len(list), required_domain_size(Len(list)))
  BY <1>1, <1>2, <1>3, TallyCounts
<1>6. /\ t.aggregator_id = post.aggregator_id /\ t.sizes = sizes
      /\ t.candidate_counts = SubSeq(sizes, 1, Len(Candidates))
      /\ t.proof = prove(PublicInput(post, post.c_commit, sizes), TallyWitness(post, list, votes))
  BY DEF build_and_prove_tally
<1>7. post.aggregator_id = a
  BY <1>4 DEF MadeOf
<1> HIDE DEF sizes, t, m
<1>8. \A j \in DOMAIN Candidates :
         t.candidate_counts[j] = Cardinality({v \in SetOf(a) : assigned[v].candidate = j})
  <2>1. m \in Nat /\ DOMAIN Candidates = 1..m /\ num_partitions = m + 2
    BY Lists DEF m
  <2>2. /\ DOMAIN sizes = 1..num_partitions /\ Len(sizes) = num_partitions
        /\ \A j \in 1..m : sizes[j] = Cardinality(For(list, votes, j))
    BY <1>5, <2>1 DEF Counts
  <2>3. \A j \in 1..m : t.candidate_counts[j] = sizes[j]
    BY <1>6, <2>1 DEF m
  <2>. QED  BY <1>2, <2>1, <2>2, <2>3
<1>9. t = TallyOf(a)
  BY DEF t, TallyOf, list, votes, post
<1>. QED  BY <1>5, <1>6, <1>7, <1>8, <1>9 DEF list, votes, post

-----------------------------------------------------------------------------
(* Sums over the aggregators *)

\* The aggregators' voters are all voters, each once.
LEMMA PlaceOf ==
    ASSUME Assigned
    PROVE  \A v \in 1..config.voters :
              \E i \in 1..Len(AggregatorList) :
                 \A l \in 1..Len(AggregatorList) : v \in SetOf(AggregatorList[l]) <=> l = i
<1>1. ASSUME NEW v \in 1..config.voters
      PROVE  \E i \in 1..Len(AggregatorList) :
                \A l \in 1..Len(AggregatorList) : v \in SetOf(AggregatorList[l]) <=> l = i
  <2>1. assigned[v].aggregator \in Aggregators
    BY DEF Assigned
  <2>2. PICK i \in 1..Len(AggregatorList) : AggregatorList[i] = assigned[v].aggregator
    BY <2>1, Lists
  <2>3. \A l \in 1..Len(AggregatorList) : AggregatorList[l] = AggregatorList[i] => l = i
    BY Lists, ListsAssumption
  <2>. QED  BY <2>2, <2>3 DEF SetOf
<1>. QED  BY <1>1

\* Counting the sampled ballots at the aggregators is counting them at once.
LEMMA CountedAtOnce ==
    ASSUME Assigned, NEW f, DOMAIN f = 1..Len(AggregatorList), NEW j \in DOMAIN Candidates,
           \A i \in 1..Len(AggregatorList) :
              f[i] = Cardinality({v \in SetOf(AggregatorList[i]) : assigned[v].candidate = j})
    PROVE  SumFunction(f) = expected_tally(assigned)[j]
<1> DEFINE N == config.voters
           L == Len(AggregatorList)
           A == {v \in 1..N : assigned[v].candidate = j}
           p == [v \in 1..N |-> CHOOSE i \in 1..L : v \in SetOf(AggregatorList[i])]
<1>1. \A v \in 1..N : p[v] \in 1..L /\ \A i \in 1..L : v \in SetOf(AggregatorList[i]) <=> i = p[v]
  <2>1. \A v \in 1..N : \E i \in 1..L : \A l \in 1..L : v \in SetOf(AggregatorList[l]) <=> l = i
    BY PlaceOf
  <2>. QED  BY <2>1
<1>2. L \in Nat /\ N \in Nat /\ DOMAIN assigned = 1..N
  BY Lists DEF Assigned
<1>3. \A i \in 1..L : SetOf(AggregatorList[i]) \subseteq 1..N
  BY DEF SetOf
<1> HIDE DEF p, L
<1>4. IsFiniteSet(1..L) /\ IsFiniteSet(1..N)
  <2>1. 1 \in Int /\ L \in Int /\ N \in Int
    BY <1>2
  <2>. QED  BY <2>1, FS_Interval
<1>5. IsFiniteSet(A)
  <2>1. A \in SUBSET (1..N)
    OBVIOUS
  <2>. QED  BY <1>4, <2>1, FS_Subset, Zenon
<1>6. ASSUME NEW i \in 1..L
      PROVE  f[i] = Cardinality(PartOf(A, p, i))
  <2>1. PartOf(A, p, i) = {v \in SetOf(AggregatorList[i]) : assigned[v].candidate = j}
    BY <1>1, <1>3 DEF PartOf
  <2>. QED  BY <2>1 DEF L
<1>7. SumFunction(f) = Cardinality(PartsIn(A, p, 1..L))
  <2>1. DOMAIN f = 1..L
    BY DEF L
  <2> HIDE DEF A
  <2>2. IsFiniteSet(DOMAIN f) /\ \A i \in DOMAIN f : f[i] = Cardinality(PartOf(A, p, i))
    BY <1>4, <1>6, <2>1
  <2>3. SumFunction(f) = Cardinality(PartsIn(A, p, DOMAIN f))
    BY <1>5, <2>2, SumOfParts
  <2>. QED  BY <2>1, <2>3
<1>8. PartsIn(A, p, 1..L) = A
  BY <1>1 DEF PartsIn
<1>9. expected_tally(assigned)[j] = Cardinality(A)
  BY <1>2 DEF expected_tally
<1>. QED  BY <1>7, <1>8, <1>9

\* When all aggregators are through, the sum of their tallies is what was sampled.
LEMMA GlobalIsExpected ==
    ASSUME Assigned, Passed, agg_idx = Len(AggregatorList) + 1
    PROVE  global_tally(posts, verifications) = expected_tally(assigned)
<1> DEFINE L == Len(AggregatorList)
           verified == {verifications[k].aggregator_id :
                           k \in {i \in DOMAIN verifications : verifications[i].valid}}
           f(j) == [i \in DOMAIN posts |->
                       IF posts[i].aggregator_id \in verified THEN posts[i].candidate_counts[j]
                                                               ELSE 0]
<1>1. /\ L \in Nat
      /\ DOMAIN posts = 1..L /\ \A i \in 1..L : posts[i] = TallyOf(AggregatorList[i])
      /\ DOMAIN verifications = 1..L
      /\ \A i \in 1..L : /\ verifications[i].aggregator_id = AggregatorList[i]
                         /\ verifications[i].valid = TRUE
  <2>1. L \in Nat /\ agg_idx - 1 = L
    BY Lists
  <2>. QED  BY <2>1 DEF Passed, Seen
<1>2. \A i \in 1..L : AggregatorList[i] \in Aggregators
  BY Lists
<1>3. \A i \in 1..L : AggregatorList[i] \in verified
  BY <1>1
<1> HIDE DEF verified, L
<1>4. \A i \in 1..L : LET a == AggregatorList[i] IN
         /\ posts[i].aggregator_id = a
         /\ \A j \in DOMAIN Candidates :
               posts[i].candidate_counts[j]
                  = Cardinality({v \in SetOf(a) : assigned[v].candidate = j})
  BY <1>1, <1>2, TallyParts
<1>5. ASSUME NEW j \in DOMAIN Candidates
      PROVE  SumFunction(f(j)) = expected_tally(assigned)[j]
  <2>1. DOMAIN f(j) = 1..L
    BY <1>1
  <2>2. \A i \in 1..L :
           f(j)[i] = Cardinality({v \in SetOf(AggregatorList[i]) : assigned[v].candidate = j})
    BY <1>1, <1>3, <1>4
  <2> HIDE DEF f
  <2>. QED  BY <2>1, <2>2, CountedAtOnce DEF L
<1>6. global_tally(posts, verifications) = [j \in DOMAIN Candidates |-> SumFunction(f(j))]
  BY DEF global_tally, verified
<1> HIDE DEF f
<1>7. expected_tally(assigned) = [j \in DOMAIN Candidates |-> expected_tally(assigned)[j]]
  BY DEF expected_tally
<1>. QED  BY <1>5, <1>6, <1>7

\* What was sampled has each voter's ballot once.
LEMMA SumOfExpected ==
    ASSUME Assigned
    PROVE  SumFunction(expected_tally(assigned)) = config.voters
<1> DEFINE N == config.voters
           J == DOMAIN Candidates
           p == [v \in 1..N |-> assigned[v].candidate]
           f == expected_tally(assigned)
<1>1. N \in Nat /\ DOMAIN assigned = 1..N /\ \A v \in 1..N : p[v] \in J
  BY DEF Assigned
<1>2. DOMAIN f = J /\ \A j \in J : f[j] = Cardinality(PartOf(1..N, p, j))
  BY <1>1 DEF expected_tally, PartOf
<1>3. J = 1..Len(Candidates) /\ Len(Candidates) \in Nat
  BY Lists
<1> HIDE DEF f, p, N
<1>4. IsFiniteSet(1..N) /\ Cardinality(1..N) = N /\ IsFiniteSet(J)
  <2>1. 1 \in Int /\ N \in Int /\ Len(Candidates) \in Int
    BY <1>1, <1>3
  <2>2. /\ IsFiniteSet(1..N) /\ Cardinality(1..N) = IF 1 > N THEN 0 ELSE N - 1 + 1
        /\ IsFiniteSet(1..Len(Candidates))
    BY <2>1, FS_Interval
  <2>. QED  BY <1>1, <1>3, <2>2
<1>5. SumFunction(f) = Cardinality(PartsIn(1..N, p, J))
  <2> HIDE DEF J
  <2>. QED  BY <1>2, <1>4, SumOfParts
<1>6. PartsIn(1..N, p, J) = 1..N
  BY <1>1 DEF PartsIn
<1>. QED  BY <1>4, <1>5, <1>6 DEF f, N

-----------------------------------------------------------------------------
(* Steps *)

\* What follows from the voters and ballots alone stays when they do.
LEMMA SameSampling ==
    ASSUME assigned' = assigned, config' = config
    PROVE  /\ \A a : /\ PostOf(a)' = PostOf(a)
                     /\ TallyOf(a)' = TallyOf(a)
                     /\ RowOf(a)' = RowOf(a)
                     /\ SetOf(a)' = SetOf(a)
                     /\ Mine(a)' = Mine(a)
           /\ Assigned' = Assigned
           /\ per_agg_count(assigned)' = per_agg_count(assigned)
           /\ expected_tally(assigned)' = expected_tally(assigned)
<1>1. \A a : VotersOf(assigned, a)' = VotersOf(assigned, a)
  BY DEF VotersOf
<1>2. \A a : Mine(a)' = Mine(a)
  BY <1>1 DEF Mine
<1>3. \A a : VotesFor(a)' = VotesFor(a)
  BY DEF VotesFor
<1>4. \A a : PostOf(a)' = PostOf(a)
  BY <1>2 DEF PostOf
<1>5. \A a : TallyOf(a)' = TallyOf(a)
  BY <1>2, <1>3, <1>4 DEF TallyOf
<1>6. \A a : RowOf(a)' = RowOf(a)
  BY <1>2, <1>4 DEF RowOf
<1>7. \A a : SetOf(a)' = SetOf(a)
  BY DEF SetOf
<1>8. Assigned' = Assigned
  BY DEF Assigned
<1>9. per_agg_count(assigned)' = per_agg_count(assigned)
  BY DEF per_agg_count, VotersOf
<1>10. expected_tally(assigned)' = expected_tally(assigned)
  BY DEF expected_tally
<1>. QED  BY <1>2, <1>4, <1>5, <1>6, <1>7, <1>8, <1>9, <1>10

\* A step that ends the run leaves everything but the result as it was.
Ends ==
    /\ stage' = "returned"
    /\ UNCHANGED <<config, cancel, assigned, agg_idx, finalized, posts, verifications>>

LEMMA EndKeeps ==
    ASSUME IndInv, Ends, DOMAIN result' = Fields, result'.success \in BOOLEAN,
           HonestResult', OnlyOutsideFailures'
    PROVE  IndInv'
<1>1. /\ stage' = "returned" /\ config' = config /\ cancel' = cancel /\ assigned' = assigned
      /\ agg_idx' = agg_idx /\ finalized' = finalized /\ posts' = posts
      /\ verifications' = verifications
  BY DEF Ends
<1>2. TypeOK'
  BY <1>1 DEF IndInv, TypeOK
<1>3. Assigned' = Assigned /\ \A a : PostOf(a)' = PostOf(a) /\ TallyOf(a)' = TallyOf(a)
  BY <1>1, SameSampling
<1>4. (agg_idx > 1 \/ finalized # None => Assigned)'
  BY <1>1, <1>3 DEF IndInv
<1>5. Passed'
  BY <1>1, <1>3 DEF IndInv, Passed, Running
<1>6. Registered'
  BY <1>1, <1>3 DEF IndInv, Registered
<1>7. Open'
  BY <1>1 DEF Open
<1>8. stage' \notin Running \union {"start", "simulate", "voters"}
  BY <1>1 DEF Running
<1>. QED  BY <1>1, <1>2, <1>4, <1>5, <1>6, <1>7, <1>8 DEF IndInv

\* An error that comes from outside, and a run that has not claimed anything.
LEMMA FailKeeps ==
    ASSUME IndInv, stage # "returned",
           NEW error \in {"nothing to do", "cancelled", "library error"},
           error = "cancelled" => cancel, Fail(error)
    PROVE  IndInv'
<1>1. Ends /\ result' = [result EXCEPT !.error = error]
  BY DEF Fail, Ends
<1>2. DOMAIN result = Fields /\ result.success = FALSE
  BY DEF IndInv, TypeOK, Open
<1>3. "success" \in Fields /\ "error" \in Fields
  BY DEF Fields, BlankResult
<1>4. DOMAIN result' = Fields /\ result'.success = FALSE /\ result'.error = error
  BY <1>1, <1>2, <1>3
<1>5. error # None /\ cancel' = cancel
  BY <1>1, NoneAssumption DEF Errors, Ends
<1>6. HonestResult'
  BY <1>4, <1>5 DEF HonestResult
<1>7. OnlyOutsideFailures'
  BY <1>4 DEF OnlyOutsideFailures
<1>. QED  BY <1>1, <1>4, <1>6, <1>7, EndKeeps

LEMMA PanicKeeps ==
    ASSUME IndInv, Panic
    PROVE  IndInv'
<1>1. Ends /\ result' = [BlankResult EXCEPT !.error = "panic"]
  BY DEF Panic, Ends
<1>2. DOMAIN result' = Fields /\ result'.success = FALSE /\ result'.error = "panic"
  BY <1>1 DEF Fields, BlankResult
<1>3. "panic" # None
  BY NoneAssumption DEF Errors
<1>4. HonestResult'
  BY <1>2, <1>3 DEF HonestResult
<1>5. OnlyOutsideFailures'
  BY <1>2 DEF OnlyOutsideFailures
<1>. QED  BY <1>1, <1>2, <1>4, <1>5, EndKeeps

\* A step that goes on, leaving what was sampled.
GoesOn ==
    /\ stage # "returned" /\ stage' # "returned"
    /\ UNCHANGED <<config, assigned>>

\* A sampling gives each voter an aggregator and a ballot.
LEMMA SamplingIs ==
    ASSUME TypeOK, config.voters > 0, AggregatorList # <<>>, NEW f \in Assignments,
           assigned' = f, config' = config
    PROVE  Assigned'
<1>1. config.voters \in 0..MaxVoters /\ MaxVoters \in Nat
  BY DomainSizesAssumption DEF TypeOK, Configs
<1>2. config.voters \in 1..MaxVoters
  BY <1>1
<1>3. f \in [1..config.voters -> [aggregator : Aggregators, candidate : DOMAIN Candidates]]
  BY DEF Assignments
<1>. QED  BY <1>2, <1>3 DEF Assigned

LEMMA AssignKeeps ==
    ASSUME IndInv, assign
    PROVE  IndInv'
<1>1. PICK f \in Assignments :
         /\ assigned' = f
         /\ result' = [result EXCEPT !.voters_per_aggregator = per_agg_count(f),
                                     !.expected_tally = expected_tally(f)]
  BY DEF assign
<1>2. /\ stage = "start" /\ config.voters > 0 /\ AggregatorList # <<>>
      /\ stage' \in {"voters", "simulate"}
      /\ config' = config /\ cancel' = cancel /\ agg_idx' = agg_idx /\ finalized' = finalized
      /\ posts' = posts /\ verifications' = verifications
  BY DEF assign
<1>3. Assigned'
  BY <1>1, <1>2, SamplingIs DEF IndInv
<1>4. DOMAIN result = Fields /\ result.success = FALSE /\ result.error = None
  BY <1>2 DEF IndInv, TypeOK, Open
<1>5. {"voters_per_aggregator", "expected_tally", "success", "error", "per_aggregator"}
         \subseteq Fields
  BY DEF Fields, BlankResult
<1>6. /\ DOMAIN result' = Fields /\ result'.success = FALSE /\ result'.error = None
      /\ result'.voters_per_aggregator = per_agg_count(f)
      /\ result'.expected_tally = expected_tally(f)
  BY <1>1, <1>4, <1>5
<1>7. Sampled'
  <2>1. per_agg_count(assigned)' = per_agg_count(f) /\ expected_tally(assigned)' = expected_tally(f)
    BY <1>1 DEF per_agg_count, expected_tally, VotersOf
  <2>. QED  BY <1>6, <2>1 DEF Sampled
<1>8. /\ agg_idx = 1 /\ finalized = None /\ result = BlankResult
      /\ posts = <<>> /\ verifications = <<>>
  <2>1. agg_idx = 1 /\ finalized = None /\ result = BlankResult
    BY <1>2 DEF IndInv
  <2>2. 1..(agg_idx - 1) = {}
    BY <2>1
  <2>. QED  BY <2>1, <2>2 DEF IndInv, Passed
<1>9. Passed'
  <2>1. 1..(agg_idx' - 1) = {}
    BY <1>2, <1>8
  <2>2. result'.per_aggregator = <<>>
    <3>1. result.per_aggregator = <<>>
      BY <1>8 DEF BlankResult
    <3>. QED  BY <1>1, <1>4, <1>5, <3>1
  <2>. QED  BY <1>2, <1>8, <2>1, <2>2 DEF Passed
<1>10. Registered'
  BY <1>2, <1>8 DEF Registered
<1>11. TypeOK'
  BY <1>2, <1>6 DEF IndInv, TypeOK, Running
<1>12. Open' /\ HonestResult' /\ OnlyOutsideFailures'
  BY <1>2, <1>6 DEF Open, HonestResult, OnlyOutsideFailures
<1>. QED
  BY <1>2, <1>3, <1>7, <1>8, <1>9, <1>10, <1>11, <1>12 DEF IndInv

\* A run that reports success is honest when it found what was sampled.
LEMMA SuccessKeeps ==
    ASSUME IndInv, stage # "returned", Assigned, Ends,
           DOMAIN result' = Fields, result'.success = TRUE, result'.error = None,
           result'.candidate_tally = expected_tally(assigned),
           NEW rows, result'.per_aggregator = rows,
           DOMAIN rows = 1..Len(AggregatorList),
           \A i \in 1..Len(AggregatorList) :
              rows[i].voters = Len(VotersOf(assigned, AggregatorList[i]))
    PROVE  IndInv'
<1>1. config' = config /\ assigned' = assigned
  BY DEF Ends
<1>2. /\ per_agg_count(assigned)' = per_agg_count(assigned)
      /\ expected_tally(assigned)' = expected_tally(assigned)
  BY <1>1, SameSampling
<1>3. [i \in DOMAIN rows |-> rows[i].voters] = per_agg_count(assigned)
  BY Lists DEF per_agg_count
<1>4. SumFunction(expected_tally(assigned)) = config.voters
  BY SumOfExpected
<1>5. SumFunction(result'.candidate_tally) = config'.voters
  BY <1>1, <1>4
<1>6. HonestResult'
  BY <1>2, <1>3, <1>5 DEF HonestResult
<1>7. OnlyOutsideFailures'
  BY DEF OnlyOutsideFailures
<1>. QED  BY <1>6, <1>7, EndKeeps

LEMMA SimulateKeeps ==
    ASSUME IndInv, simulate
    PROVE  IndInv'
<1> DEFINE counts == result.voters_per_aggregator
           rows == [i \in DOMAIN AggregatorList |->
                      AggregatorBenchResult(AggregatorList[i], counts[i],
                                            required_domain_size(counts[i]), FALSE)]
<1>1. /\ stage = "simulate" /\ Ends
      /\ result' = [result EXCEPT !.per_aggregator = rows,
                                  !.candidate_tally = result.expected_tally,
                                  !.tally_matches_expected = TRUE,
                                  !.success = TRUE]
  BY DEF simulate, Ends
<1>2. Assigned /\ Sampled /\ DOMAIN result = Fields /\ result.error = None
  BY <1>1 DEF IndInv, TypeOK, Open
<1>3. {"per_aggregator", "candidate_tally", "tally_matches_expected", "success", "error"}
         \subseteq Fields
  BY DEF Fields, BlankResult
<1>4. DOMAIN rows = 1..Len(AggregatorList)
  BY Lists
<1>5. \A i \in 1..Len(AggregatorList) :
         rows[i].voters = Len(VotersOf(assigned, AggregatorList[i]))
  BY <1>2, Lists DEF Sampled, per_agg_count, AggregatorBenchResult
<1> HIDE DEF rows
<1>6. /\ DOMAIN result' = Fields /\ result'.success = TRUE /\ result'.error = None
      /\ result'.candidate_tally = result.expected_tally
      /\ result'.per_aggregator = rows
  BY <1>1, <1>2, <1>3
<1>7. result'.candidate_tally = expected_tally(assigned)
  BY <1>2, <1>6 DEF Sampled
<1>. QED  BY <1>1, <1>2, <1>4, <1>5, <1>6, <1>7, SuccessKeeps

LEMMA FinishKeeps ==
    ASSUME IndInv, finish
    PROVE  IndInv'
<1> DEFINE tally == global_tally(posts, verifications)
           same == tally = result.expected_tally
<1>1. /\ stage = "aggregator" /\ agg_idx > Len(AggregatorList) /\ Ends
      /\ result' = [result EXCEPT !.candidate_tally = tally,
                                  !.tally_matches_expected = same,
                                  !.success = same,
                                  !.error = IF same THEN None ELSE "tally mismatch"]
  BY DEF finish, Ends
<1>2. Assigned /\ Sampled /\ Passed /\ DOMAIN result = Fields
  BY <1>1 DEF IndInv, TypeOK, Running
<1>3. agg_idx = Len(AggregatorList) + 1
  BY <1>1, Lists DEF IndInv, TypeOK
<1>4. tally = expected_tally(assigned)
  BY <1>2, <1>3, GlobalIsExpected
<1>5. same = TRUE
  BY <1>2, <1>4 DEF Sampled
<1>6. {"per_aggregator", "candidate_tally", "tally_matches_expected", "success", "error"}
         \subseteq Fields
  BY DEF Fields, BlankResult
<1> HIDE DEF same, tally
<1> DEFINE rows == result.per_aggregator
<1>7. /\ DOMAIN result' = Fields /\ result'.success = TRUE /\ result'.error = None
      /\ result'.candidate_tally = tally
      /\ result'.per_aggregator = rows
  BY <1>1, <1>2, <1>5, <1>6
<1>8. DOMAIN rows = 1..Len(AggregatorList)
  <2>1. agg_idx - 1 = Len(AggregatorList)
    BY <1>3, Lists
  <2>. QED  BY <1>1, <1>2, <2>1 DEF Passed, Running
<1>9. ASSUME NEW i \in 1..Len(AggregatorList)
      PROVE  rows[i].voters = Len(VotersOf(assigned, AggregatorList[i]))
  <2>1. agg_idx - 1 = Len(AggregatorList)
    BY <1>3, Lists
  <2>2. rows[i] = RowOf(AggregatorList[i])
    BY <1>1, <1>2, <2>1 DEF Passed, Running
  <2>3. AggregatorList[i] \in Aggregators
    BY Lists
  <2>4. Len(Mine(AggregatorList[i])) = Len(VotersOf(assigned, AggregatorList[i]))
    BY <1>2, <2>3, MineIs
  <2>. QED  BY <2>2, <2>4 DEF RowOf, AggregatorBenchResult
<1> HIDE DEF rows
<1>. QED  BY <1>1, <1>2, <1>4, <1>7, <1>8, <1>9, SuccessKeeps

LEMMA CheckCancelKeeps ==
    ASSUME IndInv, CheckCancel
    PROVE  IndInv'
<1>1. CASE cancel /\ Fail("cancelled")
  <2>1. stage # "returned"
    BY DEF CheckCancel
  <2>. QED  BY <1>1, <2>1, FailKeeps
<1>2. CASE /\ stage' = IF stage = "voters" THEN "aggregator" ELSE "registration"
           /\ UNCHANGED <<config, cancel, assigned, agg_idx, finalized, posts, verifications,
                          result>>
  <2>1. /\ stage \in {"voters", "aggregator"} /\ agg_idx <= Len(AggregatorList)
        /\ stage' \in {"aggregator", "registration"}
        /\ config' = config /\ cancel' = cancel /\ assigned' = assigned /\ agg_idx' = agg_idx
        /\ finalized' = finalized /\ posts' = posts /\ verifications' = verifications
        /\ result' = result
    BY <1>2 DEF CheckCancel
  <2>2. /\ Assigned' = Assigned
        /\ \A a : PostOf(a)' = PostOf(a) /\ TallyOf(a)' = TallyOf(a) /\ RowOf(a)' = RowOf(a)
        /\ per_agg_count(assigned)' = per_agg_count(assigned)
        /\ expected_tally(assigned)' = expected_tally(assigned)
    BY <2>1, SameSampling
  <2>3. stage \in Running /\ stage # "returned"
    BY <2>1 DEF Running
  <2>4. (Assigned /\ Sampled)'
    BY <2>1, <2>2, <2>3 DEF IndInv, Sampled
  <2>5. TypeOK'
    BY <2>1 DEF IndInv, TypeOK, Running
  <2>6. Passed'
    BY <2>1, <2>2, <2>3 DEF IndInv, Passed
  <2>7. Registered'
    BY <2>1, <2>2 DEF IndInv, Registered
  <2>8. Open' /\ HonestResult' /\ OnlyOutsideFailures'
    BY <2>1, <2>3 DEF IndInv, Open, HonestResult, OnlyOutsideFailures
  <2>9. stage' \notin {"start", "simulate", "voters"}
    BY <2>1
  <2>. QED  BY <2>4, <2>5, <2>6, <2>7, <2>8, <2>9 DEF IndInv
<1>. QED  BY <1>1, <1>2 DEF CheckCancel

\* The current aggregator, while it is gone through.
LEMMA Current ==
    ASSUME IndInv, stage \in {"registration", "prove"}
    PROVE  /\ Assigned /\ Sampled /\ Passed
           /\ agg_idx \in 1..Len(AggregatorList)
           /\ aggregator_id \in Aggregators
           /\ DOMAIN result = Fields /\ ~result.success /\ result.error = None
<1>1. agg_idx \in 1..Len(AggregatorList)
  BY Lists DEF IndInv, TypeOK, Registered
<1>2. aggregator_id \in Aggregators
  BY <1>1, Lists DEF aggregator_id
<1>. QED  BY <1>1, <1>2 DEF IndInv, TypeOK, Open, Running

\* The registration of an honest aggregator is never refused.
LEMMA RegisterKeeps ==
    ASSUME IndInv, register_aggregator
    PROVE  IndInv'
<1>1. stage = "registration"
  BY DEF register_aggregator
<1>2. /\ Assigned /\ Sampled /\ Passed
      /\ agg_idx \in 1..Len(AggregatorList)
      /\ aggregator_id \in Aggregators
      /\ DOMAIN result = Fields /\ ~result.success /\ result.error = None
  BY <1>1, Current
<1>3. /\ validate_finalized_registration(PostOf(aggregator_id), TRUE)
      /\ \A i \in DOMAIN Mine(aggregator_id) :
            accept_registration(aggregator_id, Mine(aggregator_id)[i].voter_id,
                                Mine(aggregator_id)[i].sigma, Mine(aggregator_id)[i].skv)
  BY <1>2, HonestPosts
<1>4. /\ stage' = "prove" /\ finalized' = PostOf(aggregator_id)
      /\ config' = config /\ cancel' = cancel /\ assigned' = assigned /\ agg_idx' = agg_idx
      /\ posts' = posts /\ verifications' = verifications /\ result' = result
  BY <1>3 DEF register_aggregator, PostOf
<1>5. /\ Assigned' = Assigned
      /\ \A a : PostOf(a)' = PostOf(a) /\ TallyOf(a)' = TallyOf(a) /\ RowOf(a)' = RowOf(a)
      /\ per_agg_count(assigned)' = per_agg_count(assigned)
      /\ expected_tally(assigned)' = expected_tally(assigned)
  BY <1>4, SameSampling
<1>6. (Assigned /\ Sampled)'
  BY <1>2, <1>4, <1>5 DEF Sampled
<1>7. TypeOK'
  BY <1>4 DEF IndInv, TypeOK, Running
<1>8. Passed'
  BY <1>1, <1>2, <1>4, <1>5 DEF Passed, Running
<1>9. Registered'
  <2>1. aggregator_id' = aggregator_id
    BY <1>4 DEF aggregator_id
  <2>2. finalized' = PostOf(aggregator_id)'
    BY <1>4, <1>5, <2>1 DEF PostOf, Mine, VotersOf
  <2>3. \E a \in Aggregators : finalized' = PostOf(a)'
    BY <1>2, <1>4, <1>5
  <2>4. agg_idx' <= Len(AggregatorList)
    BY <1>2, <1>4, Lists
  <2>. QED  BY <2>2, <2>3, <2>4 DEF Registered
<1>10. Open' /\ HonestResult' /\ OnlyOutsideFailures'
  BY <1>2, <1>4 DEF Open, HonestResult, OnlyOutsideFailures
<1>11. stage' \notin {"start", "simulate", "voters"}
  BY <1>4
<1>. QED  BY <1>6, <1>7, <1>8, <1>9, <1>10, <1>11 DEF IndInv

\* Neither is its tally.
LEMMA TallyKeeps ==
    ASSUME IndInv, tally_aggregator
    PROVE  IndInv'
<1> DEFINE a0 == aggregator_id
           row == RowOf(a0)
<1>1. stage = "prove"
  BY DEF tally_aggregator
<1>2. /\ Assigned /\ Sampled /\ Passed
      /\ agg_idx \in 1..Len(AggregatorList)
      /\ a0 \in Aggregators
      /\ DOMAIN result = Fields /\ ~result.success /\ result.error = None
  BY <1>1, Current
<1>3. finalized = PostOf(a0)
  BY <1>1 DEF IndInv, Registered
<1>4. CanBuildTally(finalized, Mine(a0), VotesFor(a0)) /\ verify_aggregator_tally(finalized, TallyOf(a0))
  BY <1>2, <1>3, HonestPosts
<1>5. /\ stage' = "aggregator" /\ agg_idx' = agg_idx + 1
      /\ posts' = Append(posts, TallyOf(a0))
      /\ verifications' = Append(verifications, Seen(a0))
      /\ result' = [result EXCEPT !.per_aggregator = Append(@, row)]
      /\ config' = config /\ cancel' = cancel /\ assigned' = assigned /\ finalized' = finalized
  <2>1. TallyOf(a0) = build_and_prove_tally(finalized, Mine(a0), VotesFor(a0))
    BY <1>3 DEF TallyOf
  <2>2. row = AggregatorBenchResult(a0, Len(Mine(a0)), finalized.domain_size, TRUE)
    BY <1>3 DEF RowOf
  <2>. QED  BY <1>4, <2>1, <2>2 DEF tally_aggregator, Seen
<1>6. /\ Assigned' = Assigned
      /\ \A a : PostOf(a)' = PostOf(a) /\ TallyOf(a)' = TallyOf(a) /\ RowOf(a)' = RowOf(a)
      /\ per_agg_count(assigned)' = per_agg_count(assigned)
      /\ expected_tally(assigned)' = expected_tally(assigned)
  BY <1>5, SameSampling
<1>7. {"per_aggregator", "voters_per_aggregator", "expected_tally", "success", "error"}
         \subseteq Fields
  BY DEF Fields, BlankResult
<1> HIDE DEF row
<1>8. /\ DOMAIN result' = Fields /\ ~result'.success /\ result'.error = None
      /\ result'.success = result.success
      /\ result'.voters_per_aggregator = result.voters_per_aggregator
      /\ result'.expected_tally = result.expected_tally
      /\ result'.per_aggregator = Append(result.per_aggregator, row)
  BY <1>2, <1>5, <1>7
<1>9. (Assigned /\ Sampled)'
  BY <1>2, <1>6, <1>8 DEF Sampled
<1>10. TypeOK'
  BY <1>2, <1>5, <1>8, Lists DEF IndInv, TypeOK, Running
<1>11. Passed'
  <2> DEFINE k == agg_idx - 1
  <2>1. k \in Nat /\ agg_idx = k + 1 /\ agg_idx' - 1 = k + 1
    BY <1>2, <1>5, Lists
  <2>2. AggregatorList[k + 1] = a0
    BY <2>1 DEF aggregator_id
  <2>3. ASSUME NEW F(_), NEW s, s = [i \in 1..k |-> F(i)]
        PROVE  Append(s, F(k + 1)) = [i \in 1..(k + 1) |-> F(i)]
    <3> HIDE DEF k
    <3>. QED  BY <2>1, <2>3
  <2>4. posts' = [i \in 1..(k + 1) |-> TallyOf(AggregatorList[i])]
    BY <1>2, <1>5, <2>2, <2>3 DEF Passed
  <2>5. verifications' = [i \in 1..(k + 1) |-> Seen(AggregatorList[i])]
    BY <1>2, <1>5, <2>2, <2>3 DEF Passed
  <2>6. result'.per_aggregator = [i \in 1..(k + 1) |-> RowOf(AggregatorList[i])]
    BY <1>1, <1>2, <1>8, <2>2, <2>3 DEF Passed, row, Running
  <2> HIDE DEF k
  <2>. QED  BY <1>6, <2>1, <2>4, <2>5, <2>6 DEF Passed
<1>12. Registered'
  BY <1>2, <1>3, <1>5, <1>6 DEF Registered
<1>13. Open' /\ HonestResult' /\ OnlyOutsideFailures'
  BY <1>5, <1>8 DEF Open, HonestResult, OnlyOutsideFailures
<1>14. stage' \notin {"start", "simulate", "voters"}
  BY <1>5
<1>. QED  BY <1>9, <1>10, <1>11, <1>12, <1>13, <1>14 DEF IndInv

LEMMA OtherKeeps ==
    ASSUME IndInv, RequestCancel \/ UNCHANGED vars
    PROVE  IndInv'
<1>1. /\ config' = config /\ assigned' = assigned /\ stage' = stage /\ agg_idx' = agg_idx
      /\ finalized' = finalized /\ posts' = posts /\ verifications' = verifications
      /\ result' = result /\ cancel' \in BOOLEAN /\ (cancel => cancel')
  BY DEF RequestCancel, vars, IndInv, TypeOK
<1>2. /\ Assigned' = Assigned
      /\ \A a : PostOf(a)' = PostOf(a) /\ TallyOf(a)' = TallyOf(a) /\ RowOf(a)' = RowOf(a)
      /\ per_agg_count(assigned)' = per_agg_count(assigned)
      /\ expected_tally(assigned)' = expected_tally(assigned)
  BY <1>1, SameSampling
<1>3. Sampled' = Sampled
  BY <1>1, <1>2 DEF Sampled
<1>4. TypeOK'
  BY <1>1 DEF IndInv, TypeOK
<1>5. Passed'
  BY <1>1, <1>2 DEF IndInv, Passed
<1>6. Registered'
  <2>1. aggregator_id' = aggregator_id
    BY <1>1 DEF aggregator_id
  <2>2. PostOf(aggregator_id)' = PostOf(aggregator_id)
    BY <1>1, <2>1 DEF PostOf, Mine, VotersOf
  <2>. QED  BY <1>1, <1>2, <2>2 DEF IndInv, Registered
<1>7. Open' /\ OnlyOutsideFailures'
  BY <1>1 DEF IndInv, Open, OnlyOutsideFailures
<1>8. HonestResult'
  BY <1>1, <1>2 DEF IndInv, HonestResult
<1>. QED  BY <1>1, <1>2, <1>3, <1>4, <1>5, <1>6, <1>7, <1>8 DEF IndInv

-----------------------------------------------------------------------------
(* The invariant and what it says *)

THEOREM Invariance == Spec => []IndInv
<1>1. Init => IndInv
  <2>1. SUFFICES ASSUME Init PROVE IndInv
    OBVIOUS
  <2>2. /\ config \in Configs /\ cancel = FALSE /\ stage = "start" /\ agg_idx = 1
        /\ finalized = None /\ posts = <<>> /\ verifications = <<>> /\ result = BlankResult
    BY <2>1 DEF Init
  <2>3. result.success = FALSE /\ result.error = None
    BY <2>2 DEF BlankResult
  <2>4. TypeOK
    <3>1. 1 \in 1..(Len(AggregatorList) + 1)
      BY Lists
    <3>. QED  BY <2>2, <2>3, <3>1 DEF TypeOK, Fields
  <2>5. Passed
    BY <2>2 DEF Passed, Running
  <2>6. Registered /\ Open /\ HonestResult /\ OnlyOutsideFailures
    BY <2>2, <2>3 DEF Registered, Open, HonestResult, OnlyOutsideFailures
  <2>. QED  BY <2>2, <2>4, <2>5, <2>6 DEF IndInv, Running
<1>2. IndInv /\ [Next]_vars => IndInv'
  <2>1. SUFFICES ASSUME IndInv, [Next]_vars PROVE IndInv'
    OBVIOUS
  <2>2. CASE Refuse
    <3>1. stage = "start" /\ Fail("nothing to do")
      BY <2>2 DEF Refuse
    <3>. QED  BY <2>1, <3>1, FailKeeps
  <2>3. CASE assign
    BY <2>1, <2>3, AssignKeeps
  <2>4. CASE simulate
    BY <2>1, <2>4, SimulateKeeps
  <2>5. CASE CheckCancel
    BY <2>1, <2>5, CheckCancelKeeps
  <2>6. CASE register_aggregator
    BY <2>1, <2>6, RegisterKeeps
  <2>7. CASE tally_aggregator
    BY <2>1, <2>7, TallyKeeps
  <2>8. CASE EpaFails
    <3>1. CASE stage \in {"registration", "prove"} /\ Fail("library error")
      BY <2>1, <3>1, FailKeeps
    <3>2. CASE Panic
      BY <2>1, <3>2, PanicKeeps
    <3>. QED  BY <2>8, <3>1, <3>2 DEF EpaFails
  <2>9. CASE finish
    BY <2>1, <2>9, FinishKeeps
  <2>10. CASE RequestCancel \/ UNCHANGED vars
    BY <2>1, <2>10, OtherKeeps
  <2>. QED
    BY <2>1, <2>2, <2>3, <2>4, <2>5, <2>6, <2>7, <2>8, <2>9, <2>10 DEF Next
<1>. QED  BY <1>1, <1>2, PTL DEF Spec

\* A run is always in one of its stages, at an aggregator or just after the last, with
\* every field of its result in place.
THEOREM TypeCorrect == Spec => []TypeOK
BY Invariance, PTL DEF IndInv

\* A run that reports success has accounted for each of its voters exactly once, and its
\* tally is the one that was sampled; any other run that has ended says why, and says that
\* it was cancelled only when somebody cancelled it.
THEOREM ResultsHonest == Spec => []HonestResult
BY Invariance, PTL DEF IndInv

\* No number of voters, and no distribution of voters and ballots, makes the checks of
\* the protocol refuse what honest parties have made.
THEOREM OnlyOutside == Spec => []OnlyOutsideFailures
BY Invariance, PTL DEF IndInv

-----------------------------------------------------------------------------
(* The domain of a registration post *)

\* A post is for the least domain with enough slots and labels.
LEMMA TightPost ==
    ASSUME Assigned, NEW a \in Aggregators
    PROVE  LET n == PostOf(a).domain_size
               k == PostOf(a).real_registered_count IN
           /\ k <= n /\ num_partitions < n
           /\ 2 * k > n \/ 2 * (num_partitions + 1) > n
<1> DEFINE k == Len(Mine(a))
           n == required_domain_size(k)
           q == num_partitions
<1>1. PostOf(a).domain_size = n /\ PostOf(a).real_registered_count = k
  BY HonestPosts DEF MadeOf
<1>2. k \in Nat /\ k <= MaxVoters /\ MaxVoters \in Nat
  <2>1. k = Cardinality(SetOf(a)) /\ k \in Nat
    BY MineIs
  <2>2. config.voters \in Nat /\ config.voters <= MaxVoters /\ MaxVoters \in Nat
    BY DomainSizesAssumption DEF Assigned
  <2>3. IsFiniteSet(1..config.voters) /\ Cardinality(1..config.voters) = config.voters
    <3>1. 1 \in Int /\ config.voters \in Int
      BY <2>2
    <3>2. /\ IsFiniteSet(1..config.voters)
          /\ Cardinality(1..config.voters) = IF 1 > config.voters THEN 0
                                              ELSE config.voters - 1 + 1
      BY <3>1, FS_Interval
    <3>. QED  BY <2>2, <3>2
  <2>4. SetOf(a) \in SUBSET (1..config.voters)
    BY DEF SetOf
  <2>5. Cardinality(SetOf(a)) <= Cardinality(1..config.voters)
    BY <2>3, <2>4, FS_Subset, Zenon
  <2> HIDE DEF k
  <2>. QED  BY <2>1, <2>2, <2>3, <2>5
<1> HIDE DEF k
<1>3. /\ n \in DomainSizes /\ n \in Nat /\ n >= k /\ n >= q + 1
      /\ \A d \in DomainSizes : d >= k /\ d >= q + 1 => n <= d
  BY <1>2, DomainSizeFits
<1>4. q \in Nat /\ q >= 2
  BY Lists
<1> HIDE DEF n, q
<1>5. PICK h \in DomainSizes : n = 2 * h
  <2>1. n # 1
    BY <1>3, <1>4
  <2>. QED  BY <1>3, <2>1, DomainSizesAssumption
<1>6. h \in Nat
  BY DomainSizesAssumption
<1>7. h < n
  BY <1>3, <1>4, <1>5, <1>6
<1>8. k > h \/ q + 1 > h
  BY <1>2, <1>3, <1>4, <1>6, <1>7
<1>9. k <= n /\ q < n /\ (2 * k > n \/ 2 * (q + 1) > n)
  BY <1>2, <1>3, <1>4, <1>5, <1>6, <1>8
<1>. QED  BY <1>1, <1>9 DEF q

\* An aggregator's domain is never twice as large as its voters and the label indices need.
THEOREM TightDomains == Spec => []DomainIsTight
<1>1. IndInv => DomainIsTight
  <2>1. SUFFICES ASSUME IndInv, finalized # None PROVE DomainIsTight
    BY DEF DomainIsTight
  <2>2. PICK a \in Aggregators : finalized = PostOf(a)
    BY <2>1 DEF IndInv, Registered
  <2>3. Assigned
    BY <2>1 DEF IndInv
  <2>. QED  BY <2>2, <2>3, TightPost DEF DomainIsTight
<1>. QED  BY <1>1, Invariance, PTL

-----------------------------------------------------------------------------
(* What a tally binds *)

\* The inputs of the prover leave out empty partitions, and still tell all sizes.
LEMMA InputsTellSizes ==
    ASSUME NEW finalized1, NEW finalized2, NEW c1, NEW c2,
           NEW s \in [1..num_partitions -> Nat], NEW t \in [1..num_partitions -> Nat],
           to_common_inputs(PublicInput(finalized1, c1, s))
              = to_common_inputs(PublicInput(finalized2, c2, t))
    PROVE  s = t
<1> DEFINE q == num_partitions
           labels == canonical_label_indices(q)
           Kept(r) == {j \in 1..q : r[j] > 0}
           K == Kept(s)
           M == Kept(t)
<1>1. q \in Nat
  BY Lists
<1>2. s = [j \in 1..q |-> s[j]] /\ t = [j \in 1..q |-> t[j]]
  OBVIOUS
<1>3. /\ to_common_inputs(PublicInput(finalized1, c1, s)).vote_per_j = ElementsAt(labels, K)
      /\ to_common_inputs(PublicInput(finalized1, c1, s)).subsets_sizes = ElementsAt(s, K)
      /\ to_common_inputs(PublicInput(finalized2, c2, t)).vote_per_j = ElementsAt(labels, M)
      /\ to_common_inputs(PublicInput(finalized2, c2, t)).subsets_sizes = ElementsAt(t, M)
  BY DEF to_common_inputs, PublicInput
<1>4. ElementsAt(labels, K) = ElementsAt(labels, M) /\ ElementsAt(s, K) = ElementsAt(t, M)
  BY <1>3
<1>5. \A j \in 1..q : labels[j] = j
  BY DEF canonical_label_indices
<1>6. /\ K \in SUBSET (1..q) /\ K \in SUBSET Nat /\ IsFiniteSet(K)
      /\ M \in SUBSET (1..q) /\ M \in SUBSET Nat /\ IsFiniteSet(M)
  <2>1. IsFiniteSet(1..q)
    <3>1. 1 \in Int /\ q \in Int
      BY <1>1
    <3>. QED  BY <3>1, FS_Interval
  <2>2. K \in SUBSET (1..q) /\ M \in SUBSET (1..q)
    OBVIOUS
  <2> HIDE DEF K, M
  <2>3. IsFiniteSet(K) /\ IsFiniteSet(M)
    BY <2>1, <2>2, FS_Subset, Zenon
  <2>. QED  BY <2>2, <2>3
<1>7. /\ \A j \in 1..q : j \notin K => s[j] = 0
      /\ \A j \in 1..q : j \notin M => t[j] = 0
  OBVIOUS
<1> HIDE DEF Kept, K, M, labels, q
<1>8. ASSUME NEW I \in SUBSET (1..q), I \in SUBSET Nat, IsFiniteSet(I)
      PROVE  I = {ElementsAt(labels, I)[n] : n \in DOMAIN ElementsAt(labels, I)}
  <2>1. /\ DOMAIN ElementsAt(labels, I) = 1..Cardinality(I)
        /\ \A n \in 1..Cardinality(I) : Nth(I, n) \in I
                                        /\ ElementsAt(labels, I)[n] = labels[Nth(I, n)]
        /\ \A i \in I : \E n \in 1..Cardinality(I) : Nth(I, n) = i
    BY <1>8, ElementsAtIs
  <2>2. \A n \in 1..Cardinality(I) : ElementsAt(labels, I)[n] = Nth(I, n)
    <3>1. \A i \in I : labels[i] = i
      BY <1>5
    <3>. QED  BY <2>1, <3>1
  <2> DEFINE E == ElementsAt(labels, I)
             D == 1..Cardinality(I)
  <2>3. /\ DOMAIN E = D /\ \A n \in D : E[n] = Nth(I, n) /\ Nth(I, n) \in I
        /\ \A i \in I : \E n \in D : Nth(I, n) = i
    BY <2>1, <2>2
  <2> HIDE DEF E, D
  <2>4. I = {E[n] : n \in DOMAIN E}
    BY <2>3
  <2>. QED  BY <2>4 DEF E
<1>9. K = M
  <2>1. K = {ElementsAt(labels, K)[n] : n \in DOMAIN ElementsAt(labels, K)}
    BY <1>6, <1>8
  <2>2. M = {ElementsAt(labels, M)[n] : n \in DOMAIN ElementsAt(labels, M)}
    BY <1>6, <1>8
  <2>. QED  BY <1>4, <2>1, <2>2
<1>10. ASSUME NEW i \in K
       PROVE  s[i] = t[i]
  <2>1. \A n \in 1..Cardinality(K) : ElementsAt(s, K)[n] = s[Nth(K, n)]
    BY DEF ElementsAt
  <2>2. \A n \in 1..Cardinality(K) : ElementsAt(t, K)[n] = t[Nth(K, n)]
    BY DEF ElementsAt
  <2>3. PICK n \in 1..Cardinality(K) : Nth(K, n) = i
    BY <1>6, NthIs
  <2>. QED  BY <1>4, <1>9, <2>1, <2>2, <2>3
<1>11. \A j \in 1..q : s[j] = t[j]
  BY <1>7, <1>9, <1>10
<1>. QED  BY <1>2, <1>11

\* Moving ballots changes the sizes.
LEMMA MovedIsRefused ==
    ASSUME Assigned, NEW a \in Aggregators,
           NEW j \in 1..num_partitions, NEW k \in 1..num_partitions, j # k,
           NEW m \in 1..TallyOf(a).sizes[j]
    PROVE  ~verify_aggregator_tally(PostOf(a), Moved(TallyOf(a), j, k, m))
<1> DEFINE t == TallyOf(a)
           s == t.sizes
           r == [s EXCEPT ![j] = @ - m, ![k] = @ + m]
           c == TokenSum(PostOf(a).voters, PostOf(a).pad_tokens)
<1>1. s \in [1..num_partitions -> Nat]
  <2>1. /\ Counts(s, Mine(a), VotesFor(a), Len(Mine(a)), required_domain_size(Len(Mine(a))))
        /\ s = TallySizes(PostOf(a), VotesFor(a))
    BY TallyParts DEF TallyOf, build_and_prove_tally
  <2>2. s = [i \in 1..num_partitions |-> s[i]]
    BY <2>1 DEF TallySizes
  <2>. QED  BY <2>1, <2>2 DEF Counts
<1>2. t.proof.statement = to_common_inputs(PublicInput(PostOf(a), PostOf(a).c_commit, s))
  <2>1. t.proof = prove(PublicInput(PostOf(a), PostOf(a).c_commit, s),
                        TallyWitness(PostOf(a), Mine(a), VotesFor(a)))
    BY TallyParts
  <2> HIDE DEF t, s
  <2>. QED  BY <2>1 DEF prove
<1>3. m \in Nat /\ m > 0 /\ m <= s[j]
  BY <1>1
<1> HIDE DEF s
<1>4. /\ r \in [1..num_partitions -> Nat] /\ r[j] = s[j] - m
      /\ r[j] # s[j]
  BY <1>1, <1>3
<1> HIDE DEF r
<1>5. Moved(t, j, k, m).sizes = r /\ Moved(t, j, k, m).proof = t.proof
  <2>1. {"sizes", "proof", "candidate_counts", "no_vote_count", "pad_count"} \subseteq DOMAIN t
    BY DEF TallyOf, build_and_prove_tally
  <2>. QED  BY <2>1 DEF Moved, r, s
<1>6. SUFFICES ASSUME verify(PublicInput(PostOf(a), c, r), t.proof) PROVE FALSE
  BY <1>5 DEF verify_aggregator_tally
<1>7. to_common_inputs(PublicInput(PostOf(a), PostOf(a).c_commit, s))
         = to_common_inputs(PublicInput(PostOf(a), c, r))
  BY <1>2, <1>6 DEF verify
<1> HIDE DEF t, c
<1>8. s = r
  BY <1>1, <1>4, <1>7, InputsTellSizes
<1>. QED  BY <1>4, <1>8

\* The scalar at the first index is known to one aggregator.
LEMMA FirstScalars ==
    ASSUME Assigned, NEW a \in Aggregators, NEW b \in Aggregators, a # b
    PROVE  SlotScalar(PostOf(a), Mine(a), 1) # SlotScalar(PostOf(b), Mine(b), 1)
<1>1. ASSUME NEW x \in Aggregators
      PROVE  \/ \E v \in SetOf(x) : SlotScalar(PostOf(x), Mine(x), 1) = skv(v)
             \/ SlotScalar(PostOf(x), Mine(x), 1) = pad_scalar(x, 0)
  <2> DEFINE list == Mine(x)
             k == Len(list)
             n == required_domain_size(k)
             post == finalize_registration(x, list)
  <2>1. /\ list \in Seq(Entries(x)) /\ Accepted(x, list) /\ Fits(list)
        /\ \A i \in DOMAIN list : list[i].voter_id \in SetOf(x)
    BY MineIs
  <2> HIDE DEF list
  <2>2. /\ \A s \in 1..k : SlotScalar(post, list, s) = list[s].skv
        /\ \A s \in 1..n : s \notin 1..k => SlotScalar(post, list, s) = pad_scalar(x, s - k - 1)
    BY <2>1, SlotsOf
  <2>3. k \in Nat /\ DOMAIN list = 1..k /\ n \in Nat /\ n >= 1
    <3>1. n \in Nat /\ n >= num_partitions + 1 /\ num_partitions \in Nat
      BY <2>1, Lists DEF Fits
    <3> HIDE DEF n
    <3>. QED  BY <2>1, <3>1
  <2> HIDE DEF k, n, post
  <2>4. CASE k = 0
    <3>1. 1 \in 1..n /\ 1 \notin 1..k /\ 1 - k - 1 = 0
      BY <2>3, <2>4
    <3>2. SlotScalar(post, list, 1) = pad_scalar(x, 0)
      BY <2>2, <3>1
    <3>. QED  BY <3>2 DEF post, PostOf, list
  <2>5. CASE k # 0
    <3>1. 1 \in 1..k
      BY <2>3, <2>5
    <3>2. list[1] = RegisteredVoter(list[1].voter_id, sign_delegation(list[1].voter_id, x),
                                    skv(list[1].voter_id))
      BY <2>1, <2>3, <3>1 DEF Accepted
    <3> DEFINE v == list[1].voter_id
    <3>3. list[1].skv = skv(v) /\ v \in SetOf(x)
      <4>1. v \in SetOf(x)
        BY <2>1, <2>3, <3>1
      <4>2. list[1] = RegisteredVoter(v, sign_delegation(v, x), skv(v))
        BY <3>2
      <4> HIDE DEF v
      <4>. QED  BY <4>1, <4>2 DEF RegisteredVoter
    <3>4. SlotScalar(post, list, 1) = skv(v)
      BY <2>2, <3>1, <3>3
    <3>. QED  BY <3>3, <3>4 DEF post, PostOf, list
  <2>. QED  BY <2>4, <2>5
<1>2. SetOf(a) \cap SetOf(b) = {}
  BY DEF SetOf
<1>3. \A v, w : skv(v) = skv(w) => v = w
  BY DEF skv
<1>4. \A v, x : skv(v) # pad_scalar(x, 0)
  BY DEF skv, pad_scalar
<1>5. pad_scalar(a, 0) # pad_scalar(b, 0)
  BY DEF pad_scalar
<1>. QED  BY <1>1, <1>2, <1>3, <1>4, <1>5

\* Equal sums have the same terms.
LEMMA CommitsDiffer ==
    ASSUME Assigned, NEW a \in Aggregators, NEW b \in Aggregators, a # b
    PROVE  PostOf(a).c_commit # PostOf(b).c_commit
<1> DEFINE N(x) == required_domain_size(Len(Mine(x)))
           Scalar(x, i) == SlotScalar(PostOf(x), Mine(x), i)
           Vector(x) == [i \in 1..N(x) |-> Token(i - 1, Scalar(x, i))]
<1>1. ASSUME NEW x \in Aggregators
      PROVE  PostOf(x).c_commit = ToBag(Vector(x)) /\ 1 \in 1..N(x)
  <2>1. Mine(x) \in Seq(Entries(x)) /\ Accepted(x, Mine(x)) /\ Fits(Mine(x))
    BY MineIs
  <2>2. PostOf(x).c_commit = ToBag(Vector(x))
    BY <2>1, CommitIs DEF PostOf
  <2>3. N(x) \in Nat /\ N(x) >= num_partitions + 1 /\ num_partitions \in Nat
    BY <2>1, Lists DEF Fits
  <2> HIDE DEF N
  <2>. QED  BY <2>2, <2>3
<1>2. SUFFICES ASSUME ToBag(Vector(a)) = ToBag(Vector(b)) PROVE FALSE
  BY <1>1
<1>3. Range(Vector(a)) = Range(Vector(b))
  <2>1. \A s : DOMAIN ToBag(s) = Range(s)
    BY DEF ToBag
  <2> HIDE DEF Vector
  <2>. QED  BY <1>2, <2>1
<1>4. Token(0, Scalar(a, 1)) \in Range(Vector(a))
  <2>1. 1 \in 1..N(a)
    BY <1>1
  <2> HIDE DEF N, Scalar
  <2>2. Vector(a)[1] = Token(0, Scalar(a, 1)) /\ 1 \in DOMAIN Vector(a)
    BY <2>1
  <2>. QED  BY <2>2 DEF Range
<1>5. PICK i \in 1..N(b) : Token(0, Scalar(a, 1)) = Token(i - 1, Scalar(b, i))
  BY <1>3, <1>4 DEF Range
<1> HIDE DEF Scalar, N
<1>6. i - 1 = 0 /\ Scalar(a, 1) = Scalar(b, i)
  BY <1>5 DEF Token
<1>7. i = 1
  BY <1>6
<1>. QED  BY <1>6, <1>7, FirstScalars DEF Scalar

\* A tally speaks for the registration it was made on, and for no counts but its own: a
\* validator refuses it with ballots moved between any two partitions, and it refuses it
\* on the registration of another aggregator.
THEOREM TalliesBind == Spec => []TallyBinds
<1>1. IndInv => TallyBinds
  <2>1. SUFFICES ASSUME IndInv, finalized # None, NEW i \in DOMAIN posts
                 PROVE  IF posts[i].aggregator_id # finalized.aggregator_id
                        THEN ~verify_aggregator_tally(finalized, posts[i])
                        ELSE \A j, k \in 1..num_partitions : \A m \in 1..posts[i].sizes[j] :
                                j # k => ~verify_aggregator_tally(finalized, Moved(posts[i], j, k, m))
    BY DEF TallyBinds
  <2>2. Assigned
    BY <2>1 DEF IndInv
  <2>3. PICK b \in Aggregators : finalized = PostOf(b)
    BY <2>1 DEF IndInv, Registered
  <2>4. PICK a \in Aggregators : posts[i] = TallyOf(a)
    <3>1. i \in 1..(agg_idx - 1) /\ posts[i] = TallyOf(AggregatorList[i])
      BY <2>1 DEF IndInv, Passed
    <3>2. i \in 1..Len(AggregatorList)
      <4>1. agg_idx \in 1..(Len(AggregatorList) + 1) /\ Len(AggregatorList) \in Nat
        BY <2>1, Lists DEF IndInv, TypeOK
      <4>. QED  BY <3>1, <4>1
    <3>. QED  BY <3>1, <3>2, Lists
  <2>5. posts[i].aggregator_id = a /\ finalized.aggregator_id = b
    <3>1. TallyOf(a).aggregator_id = a
      BY <2>2, TallyParts
    <3>2. PostOf(b).aggregator_id = b
      BY <2>2, HonestPosts DEF MadeOf
    <3>. QED  BY <2>3, <2>4, <3>1, <3>2
  <2>6. CASE a = b
    BY <2>2, <2>3, <2>4, <2>5, <2>6, MovedIsRefused
  <2>7. CASE a # b
    <3>1. TallyOf(a).c_commit = PostOf(a).c_commit
      BY DEF TallyOf, build_and_prove_tally
    <3>2. TokenSum(PostOf(b).voters, PostOf(b).pad_tokens) = PostOf(b).c_commit
      BY <2>2, HonestPosts DEF MadeOf
    <3>3. PostOf(a).c_commit # PostOf(b).c_commit
      BY <2>2, <2>7, CommitsDiffer
    <3>4. ~verify_aggregator_tally(finalized, posts[i])
      BY <2>3, <2>4, <3>1, <3>2, <3>3 DEF verify_aggregator_tally
    <3>. QED  BY <2>5, <2>7, <3>4
  <2>. QED  BY <2>6, <2>7
<1>. QED  BY <1>1, Invariance, PTL
=============================================================================
