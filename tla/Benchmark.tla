------------------------------ MODULE Benchmark ------------------------------
(***************************************************************************)
(* One run of the benchmark engine (run_benchmark of benchmark.rs, under   *)
(* the panic guard run_benchmark_catching): every voter is given an        *)
(* aggregator and a ballot; then, unless only counting is asked for, the   *)
(* aggregators go one after the other through registration, validation,    *)
(* tally, proof and verification.  Timings, sizes and the progress stream  *)
(* are left out.                                                           *)
(*                                                                         *)
(* Another thread may raise the cancel flag at any time; the EPA library   *)
(* and the memory it needs may fail, with an error or with a panic, at any *)
(* tally.                                                                  *)
(***************************************************************************)
EXTENDS Tally

CONSTANTS
    None,      \* the None of an Option field
    MaxVoters  \* bound: config.voters

\* What a run may fail with.
Errors == {"nothing to do", "cancelled", "registration failed", "tally failed",
           "library error", "panic", "tally mismatch"}

\* The ids of the aggregators are numbered.  Those of the candidates are distinct in every
\* template, and neither the page nor the command line configures candidates of its own;
\* a list in a request made by hand, which may repeat an id, is not modelled.
ASSUME ListsAssumption ==
    /\ AggregatorList \in Seq(Aggregators)
    /\ \A i, j \in DOMAIN AggregatorList : AggregatorList[i] = AggregatorList[j] => i = j
    /\ Candidates \in Seq({Candidates[j] : j \in DOMAIN Candidates})
    /\ \A i, j \in DOMAIN Candidates : Candidates[i] = Candidates[j] => i = j

\* Powers of two, with the smaller ones, up to a domain for all voters.
ASSUME DomainSizesAssumption ==
    /\ MaxVoters \in Nat
    /\ DomainSizes \subseteq Nat
    /\ \E n \in DomainSizes : n >= MaxVoters /\ n >= num_partitions + 1
    /\ \A n \in DomainSizes : n = 1 \/ \E h \in DomainSizes : n = 2 * h

ASSUME NoneAssumption == None \notin Errors

VARIABLES
    config,     \* voters, assignment, real_crypto
    cancel,     \* the flag shared with the thread that cancels
    assigned,   \* per voter, the aggregator and the ballot sampled for it
    stage,      \* what the run does next
    agg_idx,    \* position of the current aggregator
    finalized,  \* the registration post of the current aggregator
    posts,      \* the tallies made so far
    verifications,
    result

vars == <<config, cancel, assigned, stage, agg_idx, finalized, posts, verifications, result>>

Configs ==
    [voters : 0..MaxVoters, assignment : {"round-robin", "sampled"}, real_crypto : BOOLEAN]

\* The result before anything is known, and the one run_benchmark_catching makes.
BlankResult ==
    [voters_per_aggregator  |-> <<>>,
     per_aggregator         |-> <<>>,
     candidate_tally        |-> <<>>,
     expected_tally         |-> <<>>,
     tally_matches_expected |-> FALSE,
     success                |-> FALSE,
     error                  |-> None]

aggregator_id == AggregatorList[agg_idx]

\* The aggregators and candidates that the sampling may give to the i-th voter, from 0.
\* Sampling is deterministic in the seed, which is arbitrary.
assign_voter(i) ==
    [aggregator : IF config.assignment = "round-robin"
                  THEN {AggregatorList[1 + (i % Len(AggregatorList))]}
                  ELSE Aggregators,
     candidate  : DOMAIN Candidates]

Assignments ==
    {f \in [1..config.voters -> [aggregator : Aggregators, candidate : DOMAIN Candidates]] :
        \A v \in 1..config.voters : f[v] \in assign_voter(v - 1)}

VotersOf(f, a) ==
    ElementsAt([v \in DOMAIN f |-> v], {v \in DOMAIN f : f[v].aggregator = a})

per_agg_count(f) == [i \in DOMAIN AggregatorList |-> Len(VotersOf(f, AggregatorList[i]))]

expected_tally(f) ==
    [j \in DOMAIN Candidates |-> Cardinality({v \in DOMAIN f : f[v].candidate = j})]

\* The voters of an aggregator, as they delegated to it.
Mine(a) ==
    LET mine == VotersOf(assigned, a)
    IN  [i \in DOMAIN mine |-> RegisteredVoter(mine[i], sign_delegation(mine[i], a), skv(mine[i]))]

VotesFor(a) ==
    [v \in {w \in DOMAIN assigned : assigned[w].aggregator = a} |->
        Candidates[assigned[v].candidate]]

AggregatorBenchResult(a, voters, domain, verified) ==
    [aggregator_id |-> a,
     voters        |-> voters,
     domain_size   |-> domain,
     pad_count     |-> domain - voters,
     verified      |-> verified]

-----------------------------------------------------------------------------

Init ==
    /\ config \in Configs
    /\ cancel = FALSE
    /\ assigned = <<>>
    /\ stage = "start"
    /\ agg_idx = 1
    /\ finalized = None
    /\ posts = <<>>
    /\ verifications = <<>>
    /\ result = BlankResult

\* Mutant: the error is dropped.
Fail_silently(error) ==
    /\ stage' = "returned"
    /\ UNCHANGED <<config, cancel, assigned, agg_idx, finalized, posts, verifications, result>>

\* The run ends with an error, keeping what it found out before.
Fail(error) ==
    /\ stage' = "returned"
    /\ result' = [result EXCEPT !.error = error]
    /\ UNCHANGED <<config, cancel, assigned, agg_idx, finalized, posts, verifications>>

Refuse ==
    /\ stage = "start"
    /\ config.voters = 0 \/ AggregatorList = <<>> \/ Candidates = <<>>
    /\ Fail("nothing to do")

assign ==
    /\ stage = "start"
    /\ config.voters > 0 /\ AggregatorList # <<>> /\ Candidates # <<>>
    /\ \E f \in Assignments :
          /\ assigned' = f
          /\ result' = [result EXCEPT !.voters_per_aggregator = per_agg_count(f),
                                      !.expected_tally = expected_tally(f)]
    /\ stage' = IF config.real_crypto THEN "voters" ELSE "simulate"
    /\ UNCHANGED <<config, cancel, agg_idx, finalized, posts, verifications>>

\* Counting only; the cancel flag is not looked at.
simulate ==
    /\ stage = "simulate"
    /\ stage' = "returned"
    /\ result' = [result EXCEPT
          !.per_aggregator =
              [i \in DOMAIN AggregatorList |->
                  LET voters == result.voters_per_aggregator[i]
                  IN  AggregatorBenchResult(AggregatorList[i], voters,
                                            required_domain_size(voters), FALSE)],
          !.candidate_tally = result.expected_tally,
          !.tally_matches_expected = TRUE,
          !.success = TRUE]
    /\ UNCHANGED <<config, cancel, assigned, agg_idx, finalized, posts, verifications>>

\* bail_if_cancelled after the keys are made, and the test at the top of the loop.
CheckCancel ==
    /\ stage \in {"voters", "aggregator"} /\ agg_idx <= Len(AggregatorList)
    /\ \/ cancel /\ Fail("cancelled")
       \/ /\ ~cancel
          /\ stage' = IF stage = "voters" THEN "aggregator" ELSE "registration"
          /\ UNCHANGED <<config, cancel, assigned, agg_idx, finalized, posts, verifications,
                         result>>

\* accept_registration for every voter, finalize_registration, and its validation with
\* the aggregate signature.
register_aggregator ==
    LET accepted == Mine(aggregator_id)
        post     == finalize_registration(aggregator_id, accepted)
    IN  /\ stage = "registration"
        /\ IF /\ \A i \in DOMAIN accepted :
                    accept_registration(aggregator_id, accepted[i].voter_id,
                                        accepted[i].sigma, accepted[i].skv)
              /\ validate_finalized_registration(post, TRUE)
           THEN /\ stage' = "prove"
                /\ finalized' = post
                /\ UNCHANGED <<config, cancel, assigned, agg_idx, posts, verifications, result>>
           ELSE Fail("registration failed")

\* build_and_prove_tally, verify_aggregator_tally, and the row of the aggregator.
tally_aggregator ==
    LET accepted == Mine(aggregator_id)
        post     == build_and_prove_tally(finalized, accepted, VotesFor(aggregator_id))
    IN  /\ stage = "prove"
        /\ IF /\ CanBuildTally(finalized, accepted, VotesFor(aggregator_id))
              /\ verify_aggregator_tally(finalized, post)
           THEN /\ stage' = "aggregator"
                /\ agg_idx' = agg_idx + 1
                /\ posts' = Append(posts, post)
                /\ verifications' = Append(verifications,
                                           [aggregator_id |-> aggregator_id, valid |-> TRUE])
                /\ result' = [result EXCEPT !.per_aggregator = Append(@,
                      AggregatorBenchResult(aggregator_id, Len(accepted),
                                            finalized.domain_size, TRUE))]
                /\ UNCHANGED <<config, cancel, assigned, finalized>>
           ELSE Fail("tally failed")

\* A panic below run_benchmark costs all results.
Panic ==
    /\ stage' = "returned"
    /\ result' = [BlankResult EXCEPT !.error = "panic"]
    /\ UNCHANGED <<config, cancel, assigned, agg_idx, finalized, posts, verifications>>

\* A `?` of the library calls of the loop, or memory or an assertion that fails in them
\* or while the keys are made.
EpaFails ==
    \/ stage \in {"registration", "prove"} /\ Fail("library error")
    \/ stage \in {"voters", "registration", "prove"} /\ Panic

finish ==
    LET tally == global_tally(posts, verifications)
        same  == tally = result.expected_tally
    IN  /\ stage = "aggregator" /\ agg_idx > Len(AggregatorList)
        /\ stage' = "returned"
        /\ result' = [result EXCEPT !.candidate_tally = tally,
                                    !.tally_matches_expected = same,
                                    !.success = same,
                                    !.error = IF same THEN None ELSE "tally mismatch"]
        /\ UNCHANGED <<config, cancel, assigned, agg_idx, finalized, posts, verifications>>

\* The other thread.
RequestCancel ==
    /\ ~cancel
    /\ cancel' = TRUE
    /\ UNCHANGED <<config, assigned, stage, agg_idx, finalized, posts, verifications, result>>

Next ==
    \/ Refuse
    \/ assign
    \/ simulate
    \/ CheckCancel
    \/ register_aggregator
    \/ tally_aggregator
    \/ EpaFails
    \/ finish
    \/ RequestCancel

Spec == Init /\ [][Next]_vars

-----------------------------------------------------------------------------
(* Properties. *)

\* Failures are recorded, never silently dropped: a run that reports success accounts
\* for each of its voters exactly once and its tally is the one that was sampled; any
\* other run says why, and "cancelled" only when somebody cancelled it.
HonestResult ==
    stage = "returned" =>
        IF result.success
        THEN /\ result.error = None
             /\ result.candidate_tally = expected_tally(assigned)
             /\ [i \in DOMAIN result.per_aggregator |-> result.per_aggregator[i].voters]
                  = per_agg_count(assigned)
             /\ SumFunction(result.candidate_tally) = config.voters
        ELSE /\ result.error # None
             /\ result.error = "cancelled" => cancel

\* The protocol itself never makes an honest run fail, whatever the numbers of voters,
\* be they at, under or over a power of two, and however the ballots are distributed.
OnlyOutsideFailures ==
    stage = "returned" =>
        result.error \in {None, "nothing to do", "cancelled", "library error", "panic"}

\* What a validator reads off a registration post is the least domain that holds the
\* voters and gives every partition a label of its own: at least half of a larger domain
\* is in use, and no label index reaches the domain size.
DomainIsTight ==
    finalized # None =>
        LET n == finalized.domain_size IN
        /\ finalized.real_registered_count <= n
        /\ num_partitions < n
        /\ 2 * finalized.real_registered_count > n \/ 2 * (num_partitions + 1) > n

\* A tally binds its aggregator to its counts: moving ballots from any partition to any
\* other, emptied or previously empty ones included, makes the validator refuse it, and
\* so does presenting it with the registration of another aggregator.
Moved(post, j, k, m) ==
    LET sizes == [post.sizes EXCEPT ![j] = @ - m, ![k] = @ + m]
    IN  [post EXCEPT !.sizes = sizes,
                     !.candidate_counts = SubSeq(sizes, 1, Len(Candidates)),
                     !.no_vote_count = sizes[NO_VOTE],
                     !.pad_count = sizes[PAD]]

TallyBinds ==
    finalized # None =>
        \A i \in DOMAIN posts :
            IF posts[i].aggregator_id # finalized.aggregator_id
            THEN ~verify_aggregator_tally(finalized, posts[i])
            ELSE \A j, k \in 1..num_partitions : \A m \in 1..posts[i].sizes[j] :
                    j # k => ~verify_aggregator_tally(finalized, Moved(posts[i], j, k, m))
=============================================================================
