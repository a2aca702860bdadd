-------------------------------- MODULE Tally --------------------------------
(***************************************************************************)
(* The tally half of the Aggios core library (tally.rs and the checks of   *)
(* epa_adapter.rs): how an aggregator turns the ballots it holds into a    *)
(* published tally with a proof of partition, what a validator checks,     *)
(* and how verified tallies add up.                                        *)
(*                                                                         *)
(* The EPA prover and verifier are ideal here: a proof is the statement it *)
(* was made for together with the vector it commits to, and it verifies    *)
(* for exactly that statement when the vector is the committed one.        *)
(*                                                                         *)
(* The index lists of the code are represented by SLOTS: slots             *)
(* 1..Len(voters) are the voter records of the registration post, in       *)
(* order, and the slots after them are its padding positions.              *)
(***************************************************************************)
EXTENDS Registration

\* Positions, in the list of partitions, of the two that are not candidates.
NO_VOTE == Len(Candidates) + 1
PAD     == Len(Candidates) + 2

candidate_position(c) == CHOOSE j \in DOMAIN Candidates : Candidates[j] = c

canonical_label_indices(k) == [j \in 1..k |-> j]

-----------------------------------------------------------------------------
(* The adapter around the EPA prover and verifier. *)

\* Mutant: no label at the last index of the domain.
ValidPublicInput_short_range(pi) ==
    /\ Len(pi.label_indices) = Len(pi.sizes)
    /\ Len(pi.label_indices) > 0
    /\ SumFunction(pi.sizes) = pi.domain_size
    /\ \A j \in DOMAIN pi.label_indices :
          /\ pi.label_indices[j] \in 1..(pi.domain_size - 2)
          /\ \A k \in 1..(j - 1) : pi.label_indices[k] # pi.label_indices[j]

\* EpaPublicInput.validate
ValidPublicInput(pi) ==
    /\ Len(pi.label_indices) = Len(pi.sizes)
    /\ Len(pi.label_indices) > 0
    /\ SumFunction(pi.sizes) = pi.domain_size
    /\ \A j \in DOMAIN pi.label_indices :
          /\ pi.label_indices[j] \in 1..(pi.domain_size - 1)
          /\ \A k \in 1..(j - 1) : pi.label_indices[k] # pi.label_indices[j]

\* Mutant: the partitions that are left get the first labels instead of their own.
to_common_inputs_relabelled(pi) ==
    LET kept == {j \in DOMAIN pi.sizes : pi.sizes[j] > 0}
    IN  [c_comm        |-> pi.commitment_c,
         vote_per_j    |-> SubSeq(pi.label_indices, 1, Cardinality(kept)),
         subsets_sizes |-> ElementsAt(pi.sizes, kept)]

\* Empty partitions are dropped on both sides before the black box is called.
to_common_inputs(pi) ==
    LET kept == {j \in DOMAIN pi.sizes : pi.sizes[j] > 0}
    IN  [c_comm        |-> pi.commitment_c,
         vote_per_j    |-> ElementsAt(pi.label_indices, kept),
         subsets_sizes |-> ElementsAt(pi.sizes, kept)]

\* The index lists are disjoint, inside the domain, of the claimed sizes, and cover it.
ValidWitness(pi, w) ==
    LET slots == UNION {w.partitions[j] : j \in DOMAIN w.partitions} IN
    /\ DOMAIN w.partitions = DOMAIN pi.sizes
    /\ \A j \in DOMAIN w.partitions : Cardinality(w.partitions[j]) = pi.sizes[j]
    /\ \A s, t \in slots : s # t => w.index[s] # w.index[t]
    /\ {w.index[s] : s \in slots} = 0..(pi.domain_size - 1)

\* The commitment the prover's vector has: one token per domain index.
CommitVector(pi, w) ==
    ToBag([i \in 1..pi.domain_size |-> Token(i - 1, w.values_by_index[i - 1])])

CanProve(pi, w) ==
    /\ ValidPublicInput(pi)
    /\ ValidWitness(pi, w)
    /\ to_common_inputs(pi).subsets_sizes # <<>>

prove(pi, w) == [statement |-> to_common_inputs(pi), committed |-> CommitVector(pi, w)]

\* Errors of the adapter and a rejected proof both end in "not valid".
verify(pi, proof) ==
    /\ ValidPublicInput(pi)
    /\ to_common_inputs(pi).subsets_sizes # <<>>
    /\ proof.statement = to_common_inputs(pi)
    /\ proof.committed = pi.commitment_c

-----------------------------------------------------------------------------
(* Aggregator side. *)

Slots(finalized) == 1..(Len(finalized.voters) + finalized.pad_count)

IsVoterSlot(finalized, s) == s <= Len(finalized.voters)

SlotIndex(finalized, s) ==
    IF IsVoterSlot(finalized, s)
    THEN finalized.voters[s].idx
    ELSE finalized.real_registered_count + (s - Len(finalized.voters) - 1)

\* Mutant: a voter without a ballot votes for the first candidate.
SlotPartition_default(finalized, votes, s) ==
    IF ~IsVoterSlot(finalized, s) THEN PAD
    ELSE LET v == finalized.voters[s].voter_id
         IN  IF v \in DOMAIN votes THEN candidate_position(votes[v]) ELSE 1

\* A registered voter without a ballot is in the NO_VOTE partition.
SlotPartition(finalized, votes, s) ==
    IF ~IsVoterSlot(finalized, s) THEN PAD
    ELSE LET v == finalized.voters[s].voter_id
         IN  IF v \in DOMAIN votes THEN candidate_position(votes[v]) ELSE NO_VOTE

SkvByVoter(registered, v) ==
    registered[CHOOSE i \in DOMAIN registered : registered[i].voter_id = v].skv

SlotScalar(finalized, registered, s) ==
    IF IsVoterSlot(finalized, s)
    THEN SkvByVoter(registered, finalized.voters[s].voter_id)
    ELSE pad_scalar(finalized.aggregator_id, s - Len(finalized.voters) - 1)

TallyWitness(finalized, registered, votes) ==
    LET slots == Slots(finalized) IN
    [index           |-> [s \in slots |-> SlotIndex(finalized, s)],
     partitions      |-> [j \in 1..num_partitions |->
                             {s \in slots : SlotPartition(finalized, votes, s) = j}],
     values_by_index |-> [x \in 0..(finalized.domain_size - 1) |->
                             SlotScalar(finalized, registered,
                                 CHOOSE s \in slots : SlotIndex(finalized, s) = x)]]

TallySizes(finalized, votes) ==
    [j \in 1..num_partitions |->
        Cardinality({s \in Slots(finalized) : SlotPartition(finalized, votes, s) = j})]

PublicInput(finalized, c_commit, sizes) ==
    [domain_size   |-> finalized.domain_size,
     commitment_c  |-> c_commit,
     label_indices |-> canonical_label_indices(num_partitions),
     sizes         |-> sizes]

\* build_and_prove_tally returns Ok exactly when every check on its way passes.
CanBuildTally(finalized, registered, votes) ==
    LET sizes == TallySizes(finalized, votes) IN
    /\ \A i \in DOMAIN finalized.voters :
          LET v == finalized.voters[i].voter_id IN
          /\ \E k \in DOMAIN registered : registered[k].voter_id = v
          /\ v \in DOMAIN votes => \E j \in DOMAIN Candidates : Candidates[j] = votes[v]
    /\ SumFunction(sizes) = finalized.domain_size
    /\ sizes[PAD] = finalized.pad_count
    /\ CanProve(PublicInput(finalized, finalized.c_commit, sizes),
                TallyWitness(finalized, registered, votes))

build_and_prove_tally(finalized, registered, votes) ==
    LET sizes == TallySizes(finalized, votes) IN
    [aggregator_id    |-> finalized.aggregator_id,
     candidate_counts |-> SubSeq(sizes, 1, Len(Candidates)),
     no_vote_count    |-> sizes[NO_VOTE],
     pad_count        |-> sizes[PAD],
     domain_size      |-> finalized.domain_size,
     c_commit         |-> finalized.c_commit,
     label_indices    |-> canonical_label_indices(num_partitions),
     sizes            |-> sizes,
     proof            |-> prove(PublicInput(finalized, finalized.c_commit, sizes),
                                TallyWitness(finalized, registered, votes))]

-----------------------------------------------------------------------------
(* Validator side. *)

\* .valid of verify_aggregator_tally.
verify_aggregator_tally(finalized, post) ==
    LET c_recomputed == TokenSum(finalized.voters, finalized.pad_tokens) IN
    /\ c_recomputed = post.c_commit
    /\ post.domain_size = finalized.domain_size
    /\ Len(post.sizes) = num_partitions
    /\ SumFunction(post.sizes) = post.domain_size
    /\ post.candidate_counts = SubSeq(post.sizes, 1, Len(Candidates))
    /\ post.no_vote_count = post.sizes[NO_VOTE]
    /\ post.pad_count = post.sizes[PAD]
    /\ post.pad_count = finalized.pad_count
    /\ post.label_indices = canonical_label_indices(num_partitions)
    /\ verify(PublicInput(finalized, c_recomputed, post.sizes), post.proof)

\* The sum, per candidate, over the posts of aggregators with a valid verification.
global_tally(posts, verifications) ==
    LET verified == {verifications[k].aggregator_id :
                         k \in {i \in DOMAIN verifications : verifications[i].valid}}
    IN  [j \in DOMAIN Candidates |->
            SumFunction([i \in DOMAIN posts |->
                IF posts[i].aggregator_id \in verified THEN posts[i].candidate_counts[j] ELSE 0])]
=============================================================================
