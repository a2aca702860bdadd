# TLA+ models of Aggios

Aggios is a voting scheme in which a voter delegates to one *aggregator*, which
publishes a tally of the ballots it holds together with a proof of partition
(EPA). The repository implements its basic version in Rust (`src/aggios`) around an
existing EPA prover (`src/aggios_epa_benchmark`), with a demo server, a benchmark
engine and a web page. This directory holds TLA+ models of that code, the TLC
configurations that check them, and TLAPS proofs.

    tlc -workers 2 -config MCDemoElection_election.cfg MCDemoElection.tla
    tlapm DemoElectionProofs.tla

`PROJECT.json` lists, for every definition that models code, the lines it models;
and for every checked property a *mutant*: a plausible bug (an operator preceded by a
comment `Mutant: ...`, next to the definition it replaces and used nowhere else) with
which the run no longer passes.

## 1. The system

Paths are below `src/aggios/crates/` unless they start with `src/`.

| Component | State | Operations | Talks to |
|---|---|---|---|
| **Registration** `aggios-core/src/registration.rs`, `bls.rs`, `eqlog.rs`, `domain.rs` | none; makes the registration post of an aggregator | `accept_registration`, `finalize_registration`, `validate_finalized_registration`, `check_no_duplicate_voters` | called by the demo election and the benchmark |
| **Tally and EPA adapter** `tally.rs`, `epa_adapter.rs` | none but the SRS cache | `build_and_prove_tally`, `verify_aggregator_tally`, `global_tally`; adapter `prove`, `verify` | the EPA prover and verifier |
| **Demo election** `demo.rs`, `election.rs` | per election: phase, voters, aggregators with their lists, posts, tallies and verifications, bulletin board | create, `set_phase`, create voters, `register_voter`, `cast_vote`, finalize, prove, verify, `verify_all`, reads | Registration, Tally |
| **Benchmark engine** `benchmark.rs` | local to a run; a shared cancel flag; a progress callback | `run_benchmark`, `run_benchmark_catching`, sampling | Registration, Tally |
| **Benchmark jobs** `aggios-server/src/state.rs`, `routes.rs` | two registries and four mutexes and a flag per job | create, list, get, events, csv, json, cancel; one OS thread per job | Benchmark engine |
| **Election routes** `routes.rs` | tasks of the async runtime, its blocking pool, the mutex around `DemoState` | `with_demo`: one handler at a time, on a blocking thread; handlers that lock on their own task | Demo election, page |
| **SRS cache** `epa_adapter.rs:56-126` | a map of bundles behind a mutex; in each bundle a cell for its Lagrange basis | `get_or_create_srs`, `lagrange_basis` | called by Registration and Tally, from any thread |
| **Group FFT** `domain.rs` | none | Lagrange-basis commitments | SRS cache |
| **Labels, hashing** `labels.rs`, `hash.rs` | none | `derive_election_labels`, `hash_to_fr` | Demo election, benchmark |
| **EPA prover and verifier** `src/aggios_epa_benchmark/src/` | none | `generate_proof`, `verify_proof` | adapter, fast division |
| **Fast division** `src/aggios_epa_benchmark/src/fast_div.rs` | none | `poly_div`, `div_rem`, `inverse_mod`, `hensel_lift` | called by the prover |
| **Web page** `aggios-server/static/app.js` | position and log of each job's events, a timer; the selected election, its last summary, what is rendered | `refreshBenchmarks` and `refreshElection`, called by tabs, buttons and timers; requests | routes or bridge |
| **WebAssembly bridge** `aggios-wasm`, `src/aggios/web` | promises by id, two message channels, one response buffer, the mutex around the app | `aggiosWasmCall`, `onmessage`, `aggios_handle` | Demo election, benchmark engine, page |

**What is hard here.** The election's handlers are serialised by one mutex, so its
difficulty is *protocol*: any phase may follow any other (`demo.rs:320`), any request
may come at any time and be repeated, delegations are recorded twice, posts freeze
what later requests could change, a verification outlives the tally it verified. The
numbers are easy to get wrong: labels are `1..k` in a domain of a power of two that
must hold the voters and exceed `k`, empty partitions are dropped on both sides,
padding is indexed after the voters. The benchmark *jobs* are really concurrent: web
handlers on many threads and a thread per job share six kinds of lock, a flag, and
stopping rules that read two fields at different moments. The *mutex* of the elections is waited
for on blocking threads and on the threads that poll everything else, may be poisoned by a
panic, and its holder may outlive the connection it works for; in the browser a panic leaves
it locked for good, and everything passes through one buffer. A *run* of the benchmark may
be cancelled, fail or panic anywhere, and must say so. The *page* runs on one thread, but
its refreshes are started from three places and overlap at every `await`. The *SRS cache* is
filled outside its lock. The *algorithms* below — group FFT, fast division, the polynomials of
a proof — have edges a random test does not meet: a domain of one point, a single partition, a
divisor with zeros inside, labels that collide.

**What makes each component correct**

- Registration and tally: an honest aggregator always passes every check; a tally proves
  its own counts and no others; the domain is as small as it can be.
- Demo election: a voter delegates once; a post stays the post of its list; every ballot
  held is counted once, exactly, and not lost; "verified" refers to the counts displayed;
  the board is a full record.
- Benchmark engine: success means every voter was counted and the tally is the sampled
  one; the protocol itself never makes a run fail; partial results never pass for whole.
- Benchmark jobs: an ended job is reported with its result and all its events; what was
  reported never changes; no announced job is missing from a later answer; every job and
  every request ends.
- Election routes and WebAssembly bridge: whatever threads, panics and lost connections do, a
  request takes effect at most once, answers agree with one order of effects, and every request
  ends.
- SRS cache: everyone who asks for a size gets the same bundle; its basis is computed once;
  nobody waits forever.
- Fast division: an exact division returns the quotient, an inexact one is found out.
- EPA: an honest proof verifies, for every partition and every blinding; a proof verifies for no
  other sizes or labels.
- Group FFT: the points returned are the Lagrange basis. Labels: nonzero and distinct.
- Web page: every event of a job is logged once, in particular the last ones; polling goes
  on while a job runs and what is left on display is not a running job; what is displayed
  comes to be the selected election as it is.

The full list of hazards, at their lines, is in `PROJECT.json`.

## 2. The modules

    Registration  <-  Tally  <-  DemoElection  <-  MCDemoElection
                      ^   ^          |    ^
                      |   |          |    +------  DemoElectionProofs -> CoreProofs
                      |   |          +- implements -> BallotBox             |
                      |   +------------------------------------------------+
                      |                            BenchmarkProofs  -> CoreProofs, Benchmark
                      +---------  Benchmark    --+
                                   SrsCache    --+
                                   Labels      --+->  MCLibrary  <-  LibraryProofs  <-  EpaProofs
                  Polynomials  <-  PolyDiv     --+
                        ^      <-  Epa         --+
                        |      <-  GroupFFT    --+           LibraryProofs -> CoreProofs
                                   BenchSampling
              BenchJobsProofs  ->  BenchJobs     <-  MCBenchJobs
                                   AppServer  --+->  MCDeployments  <-  DeploymentsProofs
                                   WasmBridge --+
                                     |  both implement -> RequestService
                                   UiPolling     <-  MCUiPolling --+->  MCPage  <-  PageProofs
                                   UiElections --------------------+

`MCLibrary`, `MCDeployments` and `MCPage` each check several modules in one run: a variable chosen
in the initial state says which of them takes steps, and the variables of the others stay as
they are. The modules share no state, so a behaviour of the run is a behaviour of one of them.

### Registration, Tally: the core library as operators

Cryptography is symbolic. A voter stands for its two public keys. A group element is
named by the scalars in it, so a token is the pair (index, secret), and a sum of
tokens — `C_commit` — is the bag of its terms. A signature is what was signed by whom;
an EqLog proof verifies for the secret and the context (aggregator, voter, index,
domain size) it was made for and for nothing else. Hash collisions, the algebra of
BLS12-381 and adversarial terms (a sum equal to a sum of other terms) are outside.

The EPA prover and verifier behind the adapter are *ideal*: a proof is the statement it
was made for with the vector it commits to, and it verifies for exactly that statement
if the vector is the commitment's. Everything the adapter itself does is modelled: the
validation of public inputs and witness, the removal of empty partitions, the shape
test. So is everything `tally.rs` recomputes. `CanBuildTally` is true exactly when
`build_and_prove_tally` returns `Ok`.

The code builds lists of domain indices per partition. The model numbers *slots*: the
voter records of the post in order, then its padding. `SlotIndex`, `SlotPartition` and
`SlotScalar` say what the code's loops put where, and `ValidWitness` checks of slots what
the adapter checks of the lists. Fields of a post that are copies of others (voter id
for pk and pkv, ids of the election) are left out.

`DomainSizes` is the set of powers of two considered; an assumption of each user says it
is large enough, and the `CHOOSE` of `next_power_of_two` needs it to be.

### DemoElection: one election

One action per handler of `DemoState`; guards are the handler's early returns in
conjunction, and a refused request is not a step. `with_demo` (`routes.rs:54-67`) holds
the mutex for a whole handler, which is why a handler is one action. Elections share
nothing, so one is enough. Initially it has just been created.

| Variable | Code |
|---|---|
| `phase`, `next_voter` | `params.phase`, `next_voter`; voter `n` is `"voter-n"` |
| `registered_with`, `vote` | the fields of `DemoVoter` |
| `registered`, `finalized`, `registration_valid`, `tally_post`, `verification` | the fields of `AggregatorState` |
| `bulletin` | `bulletin`; an event's `seq` is its position less one |

`register_voter`, `finalize_aggregator`, `prove_aggregator`, `verify_aggregator` and
`verify_all` call the operators of `Registration` and `Tally`. `published_global_tally` and
`proof_status` are what the election summary displays. Timestamps, timings, labels and
texts are left out. The two ids nobody has (`Stranger`) and the unknown phase exercise
the early returns: with them no step is possible.

`AggregatorList` is a sequence because the code keeps one and does not check that it is
free of repetitions.

### BallotBox: what an election promises

Five variables (delegate, ballot, roll, counts, accepted) and five actions: a voter
delegates once and only while the roll of the aggregator is open; ballots change; a roll
is fixed once and is then exactly the delegates; a published tally is the exact count,
per candidate, of the ballots the roll holds at that moment; and validation never turns
an honest tally down. `DemoElection!Box` is the refinement mapping.

### Benchmark: one run

`run_benchmark` under `run_benchmark_catching` as a sequence of actions cut where the
cancel flag is tested and where aggregators change. Voters are assigned round-robin or
arbitrarily, ballots arbitrarily: the sampling weights only decide which of these
assignments a seed picks. `EpaFails` is an error or panic of the library (or of an
allocation); `RequestCancel` is the other thread, at any moment.

### BenchJobs: the concurrent part of the server

`benchmarks`, `bench_order`, and per job `status`, `events`, `result`, `cancel` are the
fields of `AppState` and `BenchJob`. A critical section that takes no other lock is one
step. Two handlers take locks inside locks and there the locks are variables:
`list_benchmarks` holds `benchmarks` and then `bench_order` while it takes, for each job,
the lock of `status`, releases it, and takes that of `result`; `benchmark_events` holds
`events` while it reads `status`. (`json!` drops the guard of each value at the end of its
own statement, so `job_summary` never holds two locks of a job.) A job's thread reports its
stages, tests the flag where the code tests it, may fail or panic, decides the status,
stores the result, then stores the status: three steps, as in the code. The work of a
stage is an uninterpreted outcome here; what it computes is module `Benchmark`.

### SrsCache: the cache of proof parameters

Variables `cache` (the map), `lagrange_g1` (the cell of each bundle) and a position per
thread. The lookup, the build outside the mutex, and `entry().or_insert()` are three steps;
`get_or_init` of the cell is a step of the thread that finds it empty and lets others wait. A
bundle is named by its size and its builder: its content depends on the size only, because
the seed is fixed, so a name per builder distinguishes more than the code can tell and that
is what "shared" is about. A build may fail, and the initializer of the cell may panic, which
leaves the cell empty.

### AppServer, WasmBridge, RequestService: how requests are carried out

`DemoElection` takes a handler for one step. These modules justify it. A change to an election
is one entry of a log here, with its timestamp, and an answer is the log it was computed from.

`AppServer` is the server. A request is a task; `with_demo` gives a closure to the blocking pool and
waits; the plain GET handlers call `lock()` on the thread that polls tasks, of which there are
`Workers`. The closure takes the lock, reads the clock, changes the elections — until it returns they
are `torn` — and returns a value, an error, or panics, which poisons the lock: every later `unwrap`
panics, in the pool (an internal error is answered) or on a task (its connection closes). A client may
close its connection at any moment; the task is then dropped but not the closure, nor a thread
inside `lock()`.

| Variable | Code |
|---|---|
| `task`, `closure` | where a handler and the closure it spawned are |
| `holder`, `poisoned`, `demo` | the `Mutex<DemoState>` |
| `view` | the elections and `now_ms()` as the closure found them |
| `client`, `value` | what the client knows, and what its answer is computed from |

`WasmBridge` is the browser build: `boot.js` numbers the calls and keeps their promises, two FIFO
channels carry messages, `worker.js` awaits the instance at the start of each call and is not
interrupted after that, `aggios_handle` locks the app, routes, and stores the response in a buffer which the
worker reads. Instantiation may fail. A panic cannot be caught there: it traps, and since nothing unwinds, the mutex
stays locked and every later `lock()` traps as well; memory may run out before or after the call took
effect; each time `onmessage` catches and answers with status 500. A benchmark runs inside its call, and its progress
events go out on the channel of the answers.

`RequestService` is the abstract specification of both: status per request, a log of effects, and for each answered
request what it saw. A change takes effect at most once, between request and answer or after the
client has gone; it sees everything before it, and a look sees some state of the log between request and
answer; an answer is never of a half made change; a request that ended stays so. In both refinement
mappings `seen` is where the value of the answer is: fixed when the handler returns, then on its way.

### UiPolling: the benchmark tab

The script between two `await`s is one step. A request takes two: the server answers it at
some moment and the answer arrives later, so answers of different calls arrive in any order.
`call` keeps what a call of `refreshBenchmarks` has in its local variables while it waits:
the list it was given, where it is in it, the position it asked from. `scenario` is chosen in the initial state and never changes: how
many calls may be under way at once, how many jobs and events there are, whether requests get
lost; some properties hold in some of these circumstances only and say so. The timer is a flag;
firing starts a call. In a `lossy` scenario a request may be lost before or after it is served: the code gives
up the call if it was the list or the creation, and ignores it if it was for events. The
server of this module is `BenchJobs` seen from a client: jobs, the number of
events of each, whether it has ended. Jobs are numbered, lists come newest first. In
WebAssembly mode a run ends before its call returns, so there is no running job to watch; that mode of the tab is not modelled.

### UiElections: the election tabs

The variables are `currentElection`, the options of the selector, `electionData`,
`lastRenderedState` and the election whose bulletin board is on display; an election is its number and a version that
every change raises. The script between two `await`s is one step again. `calls` holds the requests under way: list, summary, create,
change, board. `in_order` is the browser build, where calls are served and answered in the order they were made; to
a server they are served, and answers arrive, in any order. The batch buttons are sequences of the changes here; that they read `currentElection` again
after every `await` is what `Act` may do too.

### Polynomials, PolyDiv, Epa, GroupFFT: the algebra

`Polynomials` models the operations of `ark_ff` and `ark_poly` by what they return, over the integers
modulo a small prime `P`; polynomials are coefficient sequences without zeros at the end, as
`DensePolynomial` keeps them.

`Epa` is `generate_proof` and `verify_proof`. The witness is any partition of the domain into labelled, nonempty
subsets with any token for each vector in `TokenVectors`; blinding factors are drawn from `Draws`, challenges
from `Challenges` (the transcript is a random oracle, so every value is possible). A commitment in either group is the
polynomial committed to, which is how an honest prover and the trapdoor see it: `e(a, b) = e(c, 1)` is `a * b = c`. A
polynomial longer than the parameters makes `g1_commit` panic. The scalar of the degree check and that of the batch come
from `test_rng`, a fixed stream, hence `TestScalar`. `MCLibrary` calls the size of the domain `ProofSize` and its generator `ProofRoot`. `setup` draws the secret of the parameters
from a stream with the same seed; what that means for security is not modelled. A blinding factor of zero has no inverse, and `Panic` is that `unwrap` or
the one of a commitment; it keeps the blinders drawn, by which `HonestProofVerifies` tells the first from the second, which must not happen.
The rounds are two steps; the verifier is an operator, evaluated for the statement proved and for others.

`GroupFFT` is `lagrange_basis_commitments` with `group_fft_in_place`: a group element is a linear combination of the
powers of the parameters. `Order` is the largest size and `root` an element of that order, from which every domain gets its generator. The chunks of one round are steps of their own in any order, the others being parallel.

### Labels, BenchSampling

`Labels` derives candidate, no-vote and padding labels through `derive_distinct`. The hash function is any function, fixed
as it is asked: a digest may be zero or collide with any other, an input hashed again gives the same. `BenchSampling` is `aggregator_weights`
with the shift at its width of 32 bits.

### PolyDiv: exact division

`poly_div` over the integers modulo the prime `P`, which it shares with `Epa` and `GroupFFT`. Actions are the early return, each round of Hensel lifting, the cut and the
remainder test; every index or division that panics in Rust leads to `"panic"`. `quotient` and
`remainder` are reference values, fixed in the initial state with coefficients from `Coefficients`: the dividend is made from them.

## 3. The runs

Seconds to three minutes each on two workers. `PROJECT.json` names the properties.

| Run | Instance | Shows |
|---|---|---|
| `election` | 2 voters, 2 aggregators, 2 candidates, all 5 phases in any order, board of any length | types; one delegation per voter; frozen posts; every finalized aggregator can prove and is accepted at any time; a tally accounts for each delegate once; ballots are neither doubled nor lost; the board tells the public state and a global tally can be audited from it; the election implements `BallotBox` |
| `stale` | 1 voter, 1 aggregator | **violated**: see finding 1 |
| `dupes` | one aggregator id given twice | **violated**: see finding 2 |
| `library` | a benchmark: 1 candidate, 2 aggregators, up to 9 voters | honest results; only the outside makes a run fail; domains are tight; a tally proves no other counts and not with another aggregator's registration |
| | SRS cache: 3 threads, sizes 4 and 8, and 6 which is refused | one bundle per size, one basis, no waiting forever |
| | division: field of 17, all quotients of up to 4 coefficients that are 0, 1 or -1, divisors of up to 3, constant remainders | the invariant of Hensel lifting; the prover's divisions return the quotient |
| | EPA: field of 17, domain of 4, every partition into at most 3 subsets, two values per blinding factor, two sequences of challenges | honest proofs verify; a proof verifies for no other labels or sizes |
| | FFT: field of 17, sizes 1, 2, 4, 8, chunks in any order | the result is the Lagrange basis |
| | labels: up to 2 candidates, the same one twice included, 5 scalars, one rehash | labels are nonzero and distinct |
| `weights` | up to 50 aggregators | **violated**: see finding 6 |
| `job` | 2 clients, 1 job of any kind | an ended job is told with its result and all its events, finally; a started job ends with its result; every request is answered |
| `jobs_registry` | 2 clients, 2 jobs | announced jobs are found |
| `page` | benchmark tab: 1 call at a time, 2 jobs with up to 2 events; 2 overlapping calls, 2 jobs with an event; 2 overlapping calls, 1 job with up to 3 events, requests may be lost | no event before the position is missing from the log, in any scenario; without losses, a page that stopped polling shows no running job; undisturbed, every event is logged, once, and started jobs are watched |
| | election tabs: none or two elections at the start, 3 clicks, 2 requests under way, 1 lost | the page settles on the selected election as it is; with answers in order, only the user changes the selection |
| `ui_twice` | 2 overlapping calls, 1 job, 1 event | **violated**: see finding 3 |
| `ui_forgotten` | the same | **violated**: see finding 4 |
| `ui_board` | 3 clicks, 2 requests under way, none lost | **violated**: see finding 5 |
| `deployments` | server: 2 changes, a read, another request, 1 thread for tasks, 2 instants; browser: 2 calls and a benchmark | both implement `RequestService`; the board is in the order of its timestamps; the page is answered in order, and of progress before the answer; every request ends |

**Bounds, and why they are enough.**
With two candidates there are four partitions, so the least domain is 8 and two voters
leave it mostly padding: what `election` varies is the protocol, where conflicts are
pairwise — two voters at one aggregator, one voter and two aggregators, a list with one
ballot and one without, an empty list. The benchmark in `library` varies the numbers instead: with one
candidate the domain goes 4, 8, 16 as one aggregator gets 0 to 9 voters, at, below and
above each power of two, and ballots go to the candidate or to nobody in every way, so every
possible set of empty partitions occurs, the case in which the adapter drops
partitions. Two clients are enough in `BenchJobs` for two handlers to be at any two
points at once; two jobs for creations that overlap. In `UiPolling` two calls are enough for an older answer to
be used after a newer one; two jobs for a list that is longer than what the other call
has seen. In `SrsCache` three threads miss the same size at once, so one stores first, one finds it
stored, and one comes later. In `PolyDiv` four coefficients make two rounds of lifting (1, 2, then 4
places), and divisors of three coefficients have inverses with zeros inside and at the end of a round, where the
padding matters. In `Epa` three subsets have a first, a middle and a last accumulator, and one and two subsets are the
cases without a middle; one challenge is zero, one token is zero, so polynomials lose terms. In `GroupFFT` size 8 has rounds of four, two and one
chunks. In `Labels` four labels and four scalars that are not zero leave none to spare. In `AppServer` two changes compete
for the lock while a read blocks the only thread and another request waits for it; one tick of the clock orders timestamps. In
`UiElections` three clicks are enough to change the selection while a request for the former is under way, and to change it back. Every bound is a CONSTANT named as
such: `MaxVoters`, `BatchSizes`, `MaxBulletin`, `MaxJobs`, `DomainSizes`, `NumAggregators`, `Calls`,
`Scenarios`, `MaxEvents`, `Coefficients`, `MaxQuotient`, `MaxDivisor`, `MaxRemainder`, `MaxCounter`, `MaxCandidates`, `MaxTime`, `MaxMoves`,
`MaxCalls`, `MaxLosses`, `MaxAggregators`, `Draws`, `Challenges`, `TokenVectors`, `ProofSize`, `Order`.

**View.** No handler reads the bulletin board, so it decides no step, and `MaxBulletin` is 1000, beyond every board TLC
reaches. In `election`, `BoardView` replaces the board by whether the two properties that read it hold so far
and, for each aggregator, whether a verification result
followed its latest tally. As long as `BoardTellsState` holds, what the next step's checks
look up on the board — latest phase, list, post, tally, result — equals the state, so two
states with the same view satisfy the same properties now and after the same step. The
two runs that expect a violation use no view and a board of at most nine events.

**Symmetry.** `jobs_registry` permutes the clients: no definition names one, and the run
checks no liveness. The other runs use no symmetry.

**Deadlock.** A run of the benchmark, a division, a proof, an FFT and a derivation of labels return or panic, threads of
the cache may be done, every request of `deployments` is made once and ends, and weights are computed once: `MCLibrary`,
`MCDeployments` and `BenchSampling` say `CHECK_DEADLOCK FALSE`. That nothing gets stuck before its end there is `WaitersGoOn` and
`RequestsEnd`. Everywhere else deadlock is checked. In an election a read is always possible;
in `BenchJobs` deadlock freedom is a result: a state in which every client waits for a
lock, and every thread for another, would be one.

**Fairness.** None for an election: nobody has to ask for anything, and no property of it
is a liveness property. `BenchJobs` has strong fairness on the steps of each job's thread
and of each handler, and none on clients, on cancelling or on panics. Weak fairness would not do:
`push_event` waits for a mutex that polling clients take and release forever, so the step
is enabled again and again but not continuously. Strong fairness is what the code relies
on: a thread waiting for a `std::sync::Mutex` that is released again and again gets it in the end. The
standard library does not promise it; the critical sections are short and
the mutex is a futex with wake-ups, which makes it hold in practice. `SrsCache` has strong
fairness on a thread that stores or asks for a basis, for the same reason: the cell may be taken again
and again by threads that panic. None on failures or on dropping a bundle. `UiPolling` has
weak fairness on the server's answers, their arrival and the timer, which the browser's event
loop gives, and none on users and jobs; its liveness property is about one call at a time and requests that get through. It says that
again and again all events reported are logged, which, events being bounded, is that each of them gets logged.
`UiElections` has weak fairness on the oldest request being served and arriving, and on the timer that `setInterval`
starts; losses are bounded and none is ever forced. `AppServer` has weak fairness on the whole: the server does not stop while one of its threads
can go on. More is not needed because each request is made once, and more is not claimed: which thread gets the lock is open. A
handler that never returns is excluded; none of the code loops without an end. `WasmBridge` has weak fairness on the two event loops. The pure algorithms check no liveness property.

## 4. Findings

1. **`stale`** — `prove_aggregator` (`demo.rs:562`) replaces the tally and keeps the
   verification of the old one. Prove, verify, change a ballot, prove: the summary says
   "verified" of counts no validator has looked at and adds them to the verified global
   tally, which `tally.rs:268` and `README.md:54` reserve to verified aggregators. The
   new tally would pass (`EveryTallyProvable`), so an honest server displays no wrong counts;
   what is wrong is the claim. `verify_all` posts to the board only
   sums it has just verified, which is what `GlobalTallyAuditable` shows.
2. **`dupes`** — `create_election` (`demo.rs:259`) accepts an aggregator id twice. The tally
   visits the list, not the set, and counts each ballot of that aggregator twice.
3. **`ui_twice`** — two refreshes of the benchmark tab that overlap (open the tab, press
   Start) ask for events from the same position and log them twice (`app.js:842`), although
   `app.js:10` calls it the "next seq to fetch". Nothing gets lost by it (`NoEventSkipped`).
4. **`ui_forgotten`** — a refresh sets or clears the timer according to its own list (`app.js:855`). One
   that was answered before a job was created and ends last clears the timer, and the page
   stops watching the job it has just started (`README.md:169`: "watch streamed progress")
   until the tab is opened again. At least it does not leave the job on display as
   running (`IdleShowsNothingRunning`).

5. **`ui_board`** — the bulletin board is fetched when a summary is rendered, for the election that is selected at that time
   (`app.js:549`), and a summary is rendered when it differs from the one displayed. If the selection changes while a
   summary is under way, the board of the new election is displayed next to the summary of the old one; if it changes back, the board of the former may
   arrive last, and no later refresh replaces it, because the summary has not changed. The summary itself settles (`PageSettles`).
6. **`weights`** — `1 << (i - 2)` is an `i32` (`benchmark.rs:202`): the weight of the 34th aggregator is negative and that of the 35th is 5 again, where
   `benchmark.rs:193` describes a geometric decay; a debug build panics. The page lets one configure 50 aggregators.

Also seen, without a run of its own. To a server, a list of elections that was asked for before an election was created and arrives after it
moves the selection off the new election (`app.js:122`); `UserChoiceKept` holds where answers come in order. In WebAssembly mode the
events endpoint strips the query and with it `since` (`aggios-wasm/src/lib.rs:171-172`, `126-128`), so every refresh of the benchmark tab logs all events of all jobs again. A panic of any election handler
ends the use of all elections until the server is started again, which `RequestService` allows: requests fail, none hangs. `rev` (`fast_div.rs:61-72`) is documented to reverse and
copies in place, so the division inverts the divisor itself. It is right for exact
divisions by divisors with a constant term, which those of the prover have
(`ProverDivides`); others panic, as X / X does.

## 5. What is proved

Every safety property and every refinement that the runs check, except `StatementBound`, is also a theorem, for every value of the constants. `PROJECT.json` lists the theorems; here are the assumptions
they rest on and the inductive invariants, which are seldom the properties themselves. A module has a lemma for the
initial states and one for each action or kind of action, a theorem that its invariant is one (`Invariance`), and the others follow.

**Assumptions.** Each module states those about its constants, and TLC evaluates them in the runs. They say that `None` is
not one of the values it stands beside (it models `Option`), that bounds are natural numbers and sets of actors finite where they
are counted, and for the election that ids of candidates are distinct, that `Stranger` is no id, and that `DomainSizes` has a
member that holds `MaxVoters` voters and exceeds the number of partitions. For the benchmark, they say that ids of aggregators
and of candidates are distinct (the code numbers the former; the latter come from templates), and that every domain size but 1 is twice another.
For the FFT, the division and the EPA, they say that `P` makes a field (every nonzero element has an inverse); for the FFT, that `Order` is a power of two
below it, and that `root` has that order: BLS12-381 has all this for sizes up to 2^32. For the division, `Coefficients` may be the whole field. For the EPA
(`ProofAssumption`), `ProofRoot` has order exactly `ProofSize`, any number from 2 to `P - 1`; tokens, blinders (`Draws`) and the verifier's scalar are in the field, and there
is a challenge for each subset. A field has such a root for every divisor of `P - 1`, which powers of two up to 2^32 are in BLS12-381.
Two theorems, `BallotsCountedOnce` and
`GlobalTalliesAudited`, have one hypothesis more, `DistinctAggregators`: `create_election` does not check it, and run `dupes` shows
that the first is false without it (finding 2).

### DemoElectionProofs: the election, in three layers

1. `IndInv == TypeOK /\ DelegationConsistent /\ RegistrationFrozen` (`TypeCorrect`, `OneDelegationPerVoter`, `PostsStayTrue`).
   `TypeOK` alone is not inductive: it says that a post has `pad_count \in Nat`, that is, a domain that
   holds its list, and `finalize_registration` makes such a post only if some domain is large enough, that is, if
   the list is no longer than `MaxVoters`. Lists are short because no voter is on one twice (`ListsFit`, by the pigeonhole
   principle), which is part of `DelegationConsistent`; `register_voter` preserves that because a voter on any list has
   `registered_with` set, the other half. `RegistrationFrozen` is preserved because `register_voter` refuses
   finalized aggregators and nothing else changes a list.
2. `TallyInv == HonestLists /\ PostsValid /\ TalliesTrue /\ VerificationsTrue` (`HonestFlowNeverFails`, `TalliesAccount`,
   `CountedBallotsStay`, `BallotsCountedOnce`). Each list holds what its voters signed; each post was found
   valid; the tally on display passes the validator and its counts are those of some ballots, one each, of delegates that have
   cast one; every verification there is was positive. What voters hold *now* cannot be said of a tally on display, because ballots change after it
   was made: hence "some ballots", and the action property from the fact that voters with a ballot
   only become more. `TallyNow` says that a tally made now counts exactly.
3. `BoardInv`: the bulletin board is a list, and `BoardTellsState` (`BoardTells`). `Posting` and `EventsAdded` say what posting does to the
   events of each kind and aggregator; `LatestAfter` that the latest event is among the new ones if there are any; then one
   lemma per handler. `RegisterVoterTold` needs that the list filtered from the board grows at its end as the aggregator's list does;
   `VerifyAllTold` that the list the handler goes through holds just the aggregators with a tally. With
   `BoardInv`, `GlobalTallyAuditable` is inductive (`GlobalTalliesAudited`): a later event disturbs no audit (`AuditKept`); and for the event of
   `verify_all`, what the board gives for each aggregator is its tally on display (`AnnouncedCount`), whose sum over
   the list of ids is the sum over the ids when none is listed twice (`TalliedSumIs`).

`ElectionImplementsBallotBox` maps the steps: `finalize_aggregator` fixes the roll, which is the set of delegates by
`DelegationConsistent`; `prove_aggregator` publishes exact counts by `TallyNow`; the verifications accept, by `TallyInv`; everything else but a
delegation and a ballot is a stutter.

### CoreProofs: the core library, and the mathematics under it

`PostIsValid`: the registration post of an honest list is found valid. `HonestTally`: whatever ballots an aggregator holds,
`build_and_prove_tally` succeeds and the validator accepts; `TallyCounts` is what its sizes count. The partitions of a tally are sums of
cardinalities, and sums are folds, which `SumFunction` of the community modules defines by a recursive function over
subsets; their laws are proved first, and from them follow `SumOfParts` (adding the sizes of the parts counts the whole), `SumReindexed` and
`SumOfTallies`. `ElementsAt` and `Nth` (the filters of the code's iterators) are enumerated by `NthIs`: tlapm knows nothing of `SelectSeq`, so the modules do not use it
where there are proofs. `DomainSizeIs` and `CommitIs` say what size a post has and which bag of scalars its commitment is.

The rest of the module is not about the code: induction, sums, a field and power series. The principle of induction takes an operator as a parameter, which the provers cannot instantiate, so it is
stated of sets: `LeastElement`, from the well-foundedness of strict inclusion, and `Induct`. `Recursion` is that a function defined
by recursion on the naturals exists and satisfies its equation; `MinimalSubset` and `SumIs` do the same for the sums over finite sets that
`SumFunction` of the community modules computes. Then come congruences modulo a number, powers, powers of two, bit reversal, and for a field:
the sum of a geometric progression (`GeometricSum`), powers of a root of unity being distinct (`PowersDistinct`), and that their sum is zero
(`Orthogonal`). The model has `power`, `two` and `bit_reverse` as recursive functions, and not `^`, for which the provers have no law.

The last part is the ring of power series with integer coefficients (`Series`). A product is taken apart at its first factor: `Product(f, g)[n + 1]` is
`f[0] * g[n + 1]` plus `Product(Rest(f), g)[n]`, and `Recursion` gives that there is such a function (`ConvolutionExists`). By induction on the index for all series at once follow
`ProductOfSum`, `ProductCommutes` (by `ProductFromRight`, which takes a product apart at its second factor), `ProductAssociates`, and that
terms of a product depend modulo a number on the terms of the factors up to there modulo that number (`ProductCongruent`). `LeadingTerm` is the degree of a
product, `ProductByTerms` that the usual sum of products of coefficients, as the model computes it, is the same.

### BenchmarkProofs: one run of the benchmark

`ResultsHonest`, `OnlyOutside`, `TightDomains` and `TalliesBind`, for any number of voters, aggregators and candidates and however voters and ballots
are distributed. `HonestResult` speaks of runs that have returned, so the inductive invariant is about what the run has done *so far*
(`IndInv`): each voter has one aggregator and one ballot (`Assigned`); what the result says of the sampling is what was sampled (`Sampled`); the
tallies, verifications and rows are exactly those of the aggregators before the current one, each the tally that `build_and_prove_tally` makes and
each found valid (`Passed`); the post in `finalized` is that of an aggregator, and in the proving stage of the current one (`Registered`); nothing is
claimed before the end (`Open`).

- `OnlyOutside`: `HonestPosts` and `HonestTally` say that no check of the protocol refuses what honest parties made, so registration and tally
  succeed at any number of voters; `GlobalIsExpected` that the comparison at the end succeeds.
- `ResultsHonest`: the counts of an aggregator are cardinalities of sets of its voters; the voters of different aggregators are disjoint, so the global tally
  counts each ballot once (`CountedAtOnce`), and the sizes of these disjoint sets of voters add up to all of them (`SumOfExpected`). This is where two aggregators with one id would go wrong.
- `TightDomains`: of the least member of `DomainSizes` that is large enough, the half is too small (`TightPost`). This is what needs the sizes to be closed under halving.
- `TalliesBind`: the public inputs of the proof leave out empty partitions, and yet determine every size (`InputsTellSizes`): the labels kept say which partitions are
  there, and their sizes come in that order. So ballots moved to or from an empty partition are found out like any others (`MovedIsRefused`). And the
  commitments of two aggregators differ (`CommitsDiffer`), because a bag of scalars tells who contributed the first (`FirstScalars`): a voter, who has one aggregator, or a padding
  scalar that depends on the aggregator's id.

### BenchJobsProofs: concurrent jobs

`EndedAnswersWhole`, `LastAnswerComplete`, `EndedStaysSo`, `AnnouncedFound`, for any clients, jobs, aggregators and kinds of configuration. `IInv` has the types, and

- `Progress`: the fields of a job follow its thread: status, result and outcome agree from the moment the status is *decided*, two steps before it can be seen;
- `Registered`: an announced job is in both registries;
- for each client `Holds` (which locks its handler holds at each step), `Creates` (the job being created has no thread yet, belongs to no other handler, and is registered as far
  as the handler has got), `Knows` (a status other than running that was read is still right when the result is read under the next lock; the number of events read under the lock
  is still right; each registered job is in the list under way or still to come) and `WasTold`.

`Knows` is the point: `list_benchmarks` and `benchmark_events` read two fields at two moments, and are right because a status
changes once, after the result is there, and because no event follows it. In the code a listed id without an entry is passed over (`filter_map`), and so it is in the model.

### DeploymentsProofs: AppServer and WasmBridge implement RequestService

For the server (`BoardOrdered`, `ServerImplementsService`), `IInv` has `Types`; `Lock`: a closure runs exactly if it holds the lock, and the elections
are half made only while one runs or after a panic has poisoned the lock, so nobody sees them so; `Fresh`: the log a running closure works with is the log as it is;
`Effects`: an entry belongs to a closure that has returned, and there is one at most; `Stages`: where a task, its closure, its client and its value can be
together (a task that was dropped leaves its closure to go on, and a value is there only after its handler returned); `NoLaterThan(time)`: no timestamp
lies in the future. With the last, the timestamp of an entry was read under the lock, so after those of all others. The
refinement follows step by step: `Return` is the abstract effect, `ReadDemo` and `AnswerWithoutDemo` are looks, `Respond`, `Disconnect`
and `UnwrapPanics` end a request, the others stutter.

For the browser (`AnsweredInOrder`), `BridgeIInv` says what is in flight, in order: the ids of the messages to the worker are consecutive and end with
the newest (`Incoming`), the call being worked on is the one before them (`Current`), the responses under way have smaller ids, in ascending order (`Outgoing`), one for each promise still pending (`Awaited`), and a benchmark has told of its
progress before its response (`Progress`); a call is waited for exactly while its promise is pending (`Promises`); a call the instance has not come to has
made no entry (`Once`); half changed elections stay behind a lock nobody releases (`Behind`). That the one response buffer holds the answer of the call being worked on needs that no
other call starts before it is read. `DeploymentInvariance` and `DeploymentsImplementService` put both together for `MCDeployments`.

### PageProofs: the page

`NothingSkipped`, `IdleIsQuiet`, `LoggedOnce`, `Watched`: for any number of overlapping calls, jobs, events and losses. `IInv` has the types and

- `Complete`: every event before the position of a job is in its log; `Asked`: every event before the position a call has *asked from* is too.
  The second makes the first inductive: an older answer may set the position back or forward, but not past a gap;
- `Fresh`: a list a call holds names jobs that exist, and those it shows as ended have ended; with it, a page that stopped polling shows nothing running;
- `Room`: calls that create a job and jobs created are together no more than may be created; `KnownExist`;
- `Exactly` and `Watching`, for one call at a time: the log is exactly the events before the position, and the list shows every job that is known and runs.

`SelectionKept` and `NothingUnknown` are about the election tabs: requests name elections that exist (`AllSound`), and when answers come in order they count more and
more elections (`Ordered`, `AtLeast`), so that no list takes away the election that is selected.

### LibraryProofs: the cache, the labels, the Lagrange basis and the division

The theorems are about `LibrarySpec`, whose steps are those of one part (`StepsOfParts`). `SharedBundle` and `BasisOnce`, for any set of threads and of sizes: `BasisOncePerSize` is
not inductive: that a bundle outside the map has no basis (`BasisOfCached`) follows from
threads holding only bundles of the map (`OneBundlePerSize`), and that two threads do not
compute the same from the mark in the cell (`OneComputes`). `DistinctLabels`, for any hash function, scalars, candidates and
bounds, needs no strengthening: the test against `taken` is made for the digest that is used, whatever was
hashed before.

`BasisInvariance` and `LagrangeBasis`, for any field, any size and any order of the chunks. Say the blocks that are finished have `m` points, there are `two[e]`
of them, and `w` is the inverse of the generator. Then point `i` is the transform of those powers `k` only whose index modulo `two[e]` is the bit reversal of the
number of its block, `i \div m`: the coefficient of such a `k` is `w^(two[e] * (i % m) * (k \div two[e]))`, and that of any other zero (`Value`). After the swaps this
holds with `m = 1`, each point being one power. `InRound` adds what makes it inductive while chunks of a round are worked on: a point whose chunk is in `done`
is already as the next round will have it, all others are as the last one left them, and since a chunk holds the two blocks that meet, no chunk reads what another wrote.
A butterfly is right because the twiddle at the half of the circle is -1 (`HalfWay`), so that what is subtracted in the second half of a chunk is what
its own coefficient calls for. After the last round there is one block, the transform of all powers; division by the size, and `Orthogonal`, give the Lagrange basis.

`InverseIsRight` and `DivisionReturnsQuotient`, for any field, divisor, quotient and remainder. `Coef` maps a sequence of coefficients to its series; `PolyIs`, `PlusPoly`, `MinusPoly`
and `TimesPoly` say what the operators of `Polynomials` do to it, `SamePoly` that polynomials (no zero at the end) with one series are one sequence, and
`TimesLength` that lengths add up, which is where the field is needed. `DivisionInv` says that the inverse has at most `l` coefficients and is one modulo X^`l`
(`Inverts`), and that what is divided satisfies `r = a - b q`. `HenselLift` is a round: the product with the divisor is 1 + c X^`l`, and
the inverse of length `l`, filled up with zeros to that length, followed by -inverse c, is one modulo X^(2 `l`) (`Lifting`). That it is filled up is what the
mutant of the run leaves out; in the proof, it is the equation between the place of a coefficient and its index (`PaddedIs`, `JoinIs`). In an exact division the cut has as many
coefficients as the quotient, the product of dividend and inverse begins with the quotient (`InverseCancels`), and it is long enough (`CutQuotient`), so that nothing panics; this needs that the
divisor is no constant, as a zero dividend would otherwise be cut. And whenever `poly_div` returns, the remainder it computed is zero, so what it
returns is a quotient, of which there is one (`UniqueQuotient`).

A section of its own is the ring of polynomials, for `EpaProofs`: each law (`TimesCommutes`, `TimesAssociates`, `TimesDistributes` and so on) is the one of the series, since
`Represents` relates the operators of `Polynomials` to theirs, and polynomials of one series are equal.

### EpaProofs: the proof of partition is complete

`HonestProofsVerify`, for any field, domain, vector of tokens, partition, labels, blinders and challenges: the verifier accepts what an honest prover
sends, and the prover panics only if it has drawn zero for a blinder. The invariant, `ProofInv`, says what `round1proof` and `p_comm` are as polynomials of the witness, the
blinders and the challenges. There are four parts to it.

1. *Division.* `Quotient`, long division, which stands for the polynomial that `DivisionReturnsQuotient` proves `poly_div` to return, gives `g` for `s g` divided by
   `s` (`ExactQuotient`): after each round what is left is `s` times the low terms of `g` (`RoundOfDivision`).
2. *Roots.* An interpolation polynomial is linear in its values, so it is a sum of multiples of the cofactors (`PartialGrows`), the cofactor of an element `x` being
   `x` (X^n - 1) / (X - x) (`CofactorTimes`), which every other factor X - y divides (`FactorsDivide`). So X - y divides what is interpolated with a zero at `y`
   (`RootOfInterpolated`); no evaluation of polynomials is needed. The factors are prime and distinct, hence a vanishing polynomial divides what each of its factors
   does (`LinearPrime`, `VanishingPrime`, `VanishingDivides`), in particular X^n - 1, and the values off the subset (`CoveredSet`): the divisions of
   `generate_quotient_polys` have no remainder. Vanishing polynomials are monic, of as many degrees as there are indices (`VanishingMonic`), so that the one of all
   elements is X^n - 1 itself (`VanishingOfAll`).
3. *Accumulators.* The blinders multiply to 1 (`BlindersMultiply`), so that the product of the first `m` blinded polynomials is the vanishing polynomial of the first `m` subsets scaled by
   the first `m` blinders (`VanishingTimes`, `Accumulates`), and that of all is X^n - 1. The polynomials all have at most `n + 1` coefficients and fit the
   parameters (`FitsParameters`), so nothing panics.
4. *Checks.* `PartsBalance` says of one subset that its blinded polynomial times each quotient is what the verifier expects, the mask of V cancelling
   (`BlindedQuotients`, `Unmasked`); `HonestPairing` concludes that the two sides of the subset's pairing check are equal, degree check and accumulator
   included (`FirstCheck`, `LaterCheck`). So every term of the sum that `check_pairings` makes is zero, whatever its weights (`ChecksPass`).

### On the provers

Where a record field of a function's element changes together with another, the modules write
`[f EXCEPT ![c] = [@ EXCEPT !.a = x, !.b = y]]`: TLC gives the usual `![c].a = x, ![c].b = y` the same value, but the SMT translation of tlapm 1.4.5
loses the first change, and proves what is false.

**Checked by TLC only.** Liveness (`JobsEnd`, `RequestsAnswered`, `WaitersGoOn`, `EveryEventLogged`, `PageSettles`, `RequestsEnd`), which the provers cannot reason
about under fairness. `StatementBound`: that a proof is refused for other sizes or labels is no identity of polynomials but depends on the
scalars drawn. For some the random checks of the verifier coincide, so it is false for some values of the constants, among them a `TestScalar` of zero.

## 6. What is not modelled

- `vote_weights` and the floating-point sampling (`sample_weighted`): `Benchmark` chooses among all assignments and ballots, of which a seed
  picks one. Simulated aggregate voters, timings and sizes: the numbers displayed are measurements.
- SHA-512 and `hash_to_g1`; the security of the EPA against a dishonest prover: `Epa` runs the honest prover and asks which statements its
  proof passes for. Setup (`get_powers`) and the random inputs of the EPA measurement programs.
- Forms, batch buttons, receipts and the guide of `app.js`, markup and style: they display what the server answers and send the
  changes of `UiElections`.
- Artifacts (serialization), errors, server start, CLI output, the EPA measurement
  programs and the log parser: no state, or input and output only.
- A benchmark job whose list request fails stops being watched until the tab is opened again (`app.js:830`); nothing in the repository says
  what the page promises then, and the hazard is listed without a property.
- Dishonest aggregators: the server makes every post itself. What the validator refuses
  is checked where it matters to honest runs (`TallyBinds`). The comparisons of the labels and label indices in a tally with those the validator
  derives (`tally.rs:213-219`) are left out: both sides call the same functions here, so they are equal.
- A system clock that is set back: `Tick` only goes forward, so `BoardInTimeOrder` is about the order in which handlers
  read the clock, not about what `SystemTime` gives them.

## 7. State of the plan

All modules planned are written, and all safety properties are proved but `StatementBound`, which is one of chance: a theorem in its place would count the scalars for which it
fails.
