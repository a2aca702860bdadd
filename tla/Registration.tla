---------------------------- MODULE Registration ----------------------------
(***************************************************************************)
(* The registration half of the Aggios core library (registration.rs, with *)
(* the parts of bls.rs, eqlog.rs and domain.rs it calls): what an          *)
(* aggregator publishes when registration closes, and what a validator     *)
(* checks of it.                                                           *)
(*                                                                         *)
(* Cryptography is symbolic.  A voter is identified with both of its       *)
(* public keys (pk and pkv); a group element is named by the discrete      *)
(* logarithms that make it up; a sum of group elements is the bag of its   *)
(* terms.  Two elements are equal exactly when they are built from the     *)
(* same scalars, signatures verify exactly when they were made by the key  *)
(* for the message, and a proof of discrete-log equality verifies exactly  *)
(* for the statement and the context it was made for.                      *)
(***************************************************************************)
EXTENDS Integers, Sequences, FiniteSets, SequencesExt

CONSTANTS
    Candidates,      \* candidate ids, in display order
    AggregatorList,  \* aggregator ids, as given in the request that created the election
    DomainSizes      \* the powers of two up to the largest domain considered

Aggregators == {AggregatorList[i] : i \in DOMAIN AggregatorList}

\* Partitions = candidates + NO_VOTE + PAD.
num_partitions == Len(Candidates) + 2

-----------------------------------------------------------------------------
(* A filtered sequence: its elements at the given positions, in their order. *)

Nth(places, n) == CHOOSE i \in places : Cardinality({j \in places : j <= i}) = n

ElementsAt(s, places) == [n \in 1..Cardinality(places) |-> s[Nth(places, n)]]

-----------------------------------------------------------------------------
(* Domain sizes. *)

\* Mutant: strictly greater.
next_power_of_two_above(n) ==
    CHOOSE p \in DomainSizes : p > n /\ \A q \in DomainSizes : q > n => p <= q

next_power_of_two(n) ==
    CHOOSE p \in DomainSizes : p >= n /\ \A q \in DomainSizes : q >= n => p <= q

\* Mutant: the label indices count from 0.
required_domain_size_from_0(real_count) ==
    next_power_of_two(IF real_count >= num_partitions THEN real_count ELSE num_partitions)

\* Room for every voter, and num_partitions distinct nonzero label indices.
required_domain_size(real_count) ==
    next_power_of_two(IF real_count >= num_partitions + 1 THEN real_count
                                                          ELSE num_partitions + 1)

-----------------------------------------------------------------------------
(* Keys, signatures, tokens. *)

skv(voter_id) == <<"skv", voter_id>>

pad_scalar(aid, p) == <<"pad", aid, p>>

\* scalar * B_idx, the commitment to scalar times the idx-th Lagrange polynomial.
Token(idx, scalar) == <<idx, scalar>>

sign_delegation(voter_id, aid) == <<voter_id, aid>>

verify_delegation(sigma, voter_id, aid) == sigma = <<voter_id, aid>>

aggregate_signatures(sigmas) == ToBag(sigmas)

\* One pairing check for all voters of an aggregator, who signed the same message.
verify_aggregate_delegation(aggregate, voter_ids, aid) ==
    aggregate = aggregate_signatures([i \in DOMAIN voter_ids |-> sign_delegation(voter_ids[i], aid)])

\* The equal-discrete-log proof: the slot it is bound to and the scalar it knows.
EqLogProve(context, scalar) == [context |-> context, scalar |-> scalar]

EqLogVerify(idx, tau, voter_id, proof, context) ==
    /\ proof.context = context
    /\ tau = Token(idx, proof.scalar)
    /\ proof.scalar = skv(voter_id)

-----------------------------------------------------------------------------
(* Aggregator side. *)

\* What the aggregator demands before it adds a voter to its list.
accept_registration(aid, voter_id, sigma, secret) ==
    /\ verify_delegation(sigma, voter_id, aid)
    /\ secret = skv(voter_id)

RegisteredVoter(voter_id, sigma, secret) ==
    [voter_id |-> voter_id, sigma |-> sigma, skv |-> secret]

EqLogContext(aid, voter_id, idx, n) == <<aid, voter_id, idx, n>>

\* The public record of the i-th registered voter; local indices start at 0.
VoterRegistrationRecord(aid, voter, i, n) ==
    [voter_id |-> voter.voter_id,
     idx      |-> i - 1,
     tau      |-> Token(i - 1, voter.skv),
     sigma    |-> voter.sigma,
     eqlog    |-> EqLogProve(EqLogContext(aid, voter.voter_id, i - 1, n), voter.skv)]

\* C_commit: the sum of the registration tokens and of the padding tokens.
TokenSum(records, pad_tokens) ==
    ToBag([i \in DOMAIN records |-> records[i].tau] \o pad_tokens)

finalize_registration(aid, voters) ==
    LET real_count == Len(voters)
        n          == required_domain_size(real_count)
        records    == [i \in 1..real_count |-> VoterRegistrationRecord(aid, voters[i], i, n)]
        pad_tokens == [p \in 1..(n - real_count) |->
                          Token(real_count + p - 1, pad_scalar(aid, p - 1))]
    IN  [aggregator_id         |-> aid,
         domain_size           |-> n,
         real_registered_count |-> real_count,
         pad_count             |-> n - real_count,
         voters                |-> records,
         pad_tokens            |-> pad_tokens,
         aggregate_sigma       |-> aggregate_signatures([i \in 1..real_count |-> voters[i].sigma]),
         c_commit              |-> TokenSum(records, pad_tokens)]

-----------------------------------------------------------------------------
(* Validator side. *)

\* The early returns: a post that fails one of these is not looked at further.
WellFormedPost(post) ==
    /\ post.aggregator_id \in Aggregators
    /\ post.domain_size = required_domain_size(post.real_registered_count)
    /\ Len(post.voters) = post.real_registered_count
    /\ Len(post.pad_tokens) = post.pad_count
    /\ post.real_registered_count + post.pad_count = post.domain_size

\* Every delegation signature on its own and their sum, or all of them in one check.
ValidDelegations(post, use_aggregate_bls) ==
    LET voter_ids == [i \in DOMAIN post.voters |-> post.voters[i].voter_id]
        sigmas    == [i \in DOMAIN post.voters |-> post.voters[i].sigma]
    IN  IF use_aggregate_bls
        THEN verify_aggregate_delegation(post.aggregate_sigma, voter_ids, post.aggregator_id)
        ELSE /\ \A i \in DOMAIN sigmas :
                   verify_delegation(sigmas[i], voter_ids[i], post.aggregator_id)
             /\ aggregate_signatures(sigmas) = post.aggregate_sigma

\* report.ok() of validate_finalized_registration.
validate_finalized_registration(post, use_aggregate_bls) ==
    /\ WellFormedPost(post)
    /\ \A i \in DOMAIN post.voters :
          LET r == post.voters[i] IN
          /\ r.idx = i - 1
          /\ \A k \in 1..(i - 1) : post.voters[k].voter_id # r.voter_id
          /\ EqLogVerify(r.idx, r.tau, r.voter_id, r.eqlog,
                         EqLogContext(post.aggregator_id, r.voter_id, r.idx, post.domain_size))
    /\ ValidDelegations(post, use_aggregate_bls)
    /\ \A p \in DOMAIN post.pad_tokens :
          post.pad_tokens[p] = Token(post.real_registered_count + p - 1,
                                     pad_scalar(post.aggregator_id, p - 1))
    /\ TokenSum(post.voters, post.pad_tokens) = post.c_commit

\* The voter records of the given posts: which post, and where in it.
Records(posts) == UNION {{i} \X DOMAIN posts[i].voters : i \in DOMAIN posts}

VoterAt(posts, r) == posts[r[1]].voters[r[2]].voter_id

\* Mutant: compares a record with itself.
check_no_duplicate_voters_reflexive(posts) ==
    {VoterAt(posts, r) : r \in {q \in Records(posts) :
        \E p \in Records(posts) : VoterAt(posts, p) = VoterAt(posts, q)}}

\* Empty when no voter id appears twice among the given posts.
check_no_duplicate_voters(posts) ==
    {VoterAt(posts, r) : r \in {q \in Records(posts) :
        \E p \in Records(posts) \ {q} : VoterAt(posts, p) = VoterAt(posts, q)}}
=============================================================================
