------------------------------ MODULE BenchJobs ------------------------------
(***************************************************************************)
(* Benchmark jobs of the server (state.rs, routes.rs 324-470): handlers    *)
(* that run in parallel on the threads of the web server, and one OS       *)
(* thread per job that runs the benchmark, reports progress and leaves a   *)
(* result.  They meet in two registries and in four fields of each job,    *)
(* every one behind a mutex of its own, and in an atomic cancel flag.      *)
(*                                                                         *)
(* A critical section without another lock inside is one step; where a     *)
(* handler takes a second lock while it holds a first, both are explicit.  *)
(* What a run computes is module Benchmark; here a run is its sequence of  *)
(* progress events, its tests of the cancel flag and its outcome.          *)
(***************************************************************************)
EXTENDS Integers, Sequences, FiniteSets, SequencesExt

CONSTANTS
    None,
    Clients,        \* each has at most one request under way
    MaxJobs,        \* bound: jobs that get created
    NumAggregators, \* config.aggregators
    Modes           \* kinds of configuration: subsets of {"invalid", "simulation", "real"}

ASSUME BoundsAssumption ==
    MaxJobs \in Nat /\ NumAggregators \in Nat /\ NumAggregators > 0

Jobs == 1..MaxJobs

VARIABLES
    counter,         \* AtomicU64 of the ids given so far
    benchmarks,      \* ids in the map of jobs
    bench_order,     \* ids in order of creation
    benchmarks_lock, \* the client whose handler holds the map of jobs
    order_lock,
    mode,            \* per job: its configuration
    status, events, result, cancel,
    events_lock,     \* per job: the client whose handler holds its events
    worker,          \* per job: its thread
    request,         \* per client: the handler working for it
    answer           \* per client: the last response

jobVars == <<mode, status, events, result, cancel, events_lock>>
registryVars == <<counter, benchmarks, bench_order, benchmarks_lock, order_lock>>
clientVars == <<request, answer>>
vars == <<registryVars, jobVars, worker, clientVars>>

Outcome(success, error) == [success |-> success, error |-> error]

Outcomes == [success : BOOLEAN,
             error : {None, "nothing to do", "cancelled", "library error", "panic"}]

ASSUME NoneAssumption == None \notin Clients \union Outcomes

Init ==
    /\ counter = 0
    /\ benchmarks = {}
    /\ bench_order = <<>>
    /\ benchmarks_lock = None
    /\ order_lock = None
    /\ mode = [j \in Jobs |-> None]
    /\ status = [j \in Jobs |-> "running"]
    /\ events = [j \in Jobs |-> <<>>]
    /\ result = [j \in Jobs |-> None]
    /\ cancel = [j \in Jobs |-> FALSE]
    /\ events_lock = [j \in Jobs |-> None]
    /\ worker = [j \in Jobs |-> [pc |-> "not spawned"]]
    /\ request = [c \in Clients |-> None]
    /\ answer = [c \in Clients |-> None]

-----------------------------------------------------------------------------
(* The thread of a job. *)

Stages == <<"registration", "finalize", "validate-registration", "prove", "verify">>

\* The thread of j goes to pc; x says at which aggregator and stage, or with what outcome.
GoTo(j, pc, x) == worker' = [worker EXCEPT ![j] = [pc |-> pc, x |-> x]]

Return(j, outcome) == GoTo(j, "returned", outcome)

AtAggregator(a) == <<a, 1>>

push_event(j, e) ==
    /\ events_lock[j] = None
    /\ events' = [events EXCEPT ![j] = Append(@, e)]
    /\ UNCHANGED <<mode, status, result, cancel, events_lock>>

BeginRun(j) ==
    /\ worker[j].pc = "spawned"
    /\ \/ /\ mode[j] = "invalid"
          /\ Return(j, Outcome(FALSE, "nothing to do"))
          /\ UNCHANGED jobVars
       \/ /\ mode[j] = "simulation"
          /\ push_event(j, "done")
          /\ Return(j, Outcome(TRUE, None))
       \/ /\ mode[j] = "real"
          /\ push_event(j, "voters")
          /\ GoTo(j, "generate", None)

\* A cancelled run returns at once here, without an event.
GenerateVoters(j) ==
    /\ worker[j].pc = "generate"
    /\ IF cancel[j] THEN Return(j, Outcome(FALSE, "cancelled"))
                    ELSE GoTo(j, "aggregator", AtAggregator(1))
    /\ UNCHANGED jobVars

NextAggregator(j) ==
    LET a == worker[j].x[1] IN
    /\ worker[j].pc = "aggregator"
    /\ \/ /\ a > NumAggregators
          /\ push_event(j, "done")
          /\ Return(j, Outcome(TRUE, None))
       \/ /\ a <= NumAggregators
          /\ IF cancel[j] THEN GoTo(j, "failing", "cancelled")
                          ELSE GoTo(j, "stage", worker[j].x)
          /\ UNCHANGED jobVars

\* Report the stage, then work on it; the work may fail.
RunStage(j) ==
    LET a == worker[j].x[1]
        s == worker[j].x[2]
    IN  /\ worker[j].pc = "stage"
        /\ push_event(j, <<a, Stages[s]>>)
        /\ \/ IF s < Len(Stages) THEN GoTo(j, "stage", <<a, s + 1>>)
                                 ELSE GoTo(j, "aggregator", AtAggregator(a + 1))
           \/ GoTo(j, "failing", "library error")

ReportFailure(j) ==
    /\ worker[j].pc = "failing"
    /\ push_event(j, "failed")
    /\ Return(j, Outcome(FALSE, worker[j].x))

\* Mutant: a panic ends the thread.
Panic_uncaught(j) ==
    /\ worker[j].pc \in {"generate", "stage"}
    /\ GoTo(j, "dead", None)
    /\ UNCHANGED jobVars

\* Caught by run_benchmark_catching.
Panic(j) ==
    /\ worker[j].pc \in {"generate", "stage"}
    /\ Return(j, Outcome(FALSE, "panic"))
    /\ UNCHANGED jobVars

\* Mutant: the status is stored before the result.
DecideStatus_storing_it(j) ==
    LET outcome == worker[j].x
        s == IF outcome.success THEN "completed"
             ELSE IF cancel[j] THEN "cancelled" ELSE "failed"
    IN  /\ worker[j].pc = "returned"
        /\ status' = [status EXCEPT ![j] = s]
        /\ GoTo(j, "decided", [outcome |-> outcome, status |-> s])
        /\ UNCHANGED <<mode, events, result, cancel, events_lock>>

DecideStatus(j) ==
    LET outcome == worker[j].x IN
    /\ worker[j].pc = "returned"
    /\ GoTo(j, "decided",
            [outcome |-> outcome,
             status  |-> IF outcome.success THEN "completed"
                         ELSE IF cancel[j] THEN "cancelled" ELSE "failed"])
    /\ UNCHANGED jobVars

StoreResult(j) ==
    /\ worker[j].pc = "decided"
    /\ result' = [result EXCEPT ![j] = worker[j].x.outcome]
    /\ GoTo(j, "stored", worker[j].x.status)
    /\ UNCHANGED <<mode, status, events, cancel, events_lock>>

StoreStatus(j) ==
    /\ worker[j].pc = "stored"
    /\ status' = [status EXCEPT ![j] = worker[j].x]
    /\ GoTo(j, "ended", None)
    /\ UNCHANGED <<mode, events, result, cancel, events_lock>>

WorkerStep(j) ==
    /\ \/ BeginRun(j)
       \/ GenerateVoters(j)
       \/ NextAggregator(j)
       \/ RunStage(j)
       \/ ReportFailure(j)
       \/ DecideStatus(j)
       \/ StoreResult(j)
       \/ StoreStatus(j)
    /\ UNCHANGED <<registryVars, clientVars>>

WorkerPanics(j) == Panic(j) /\ UNCHANGED <<registryVars, clientVars>>

-----------------------------------------------------------------------------
(* Requests.  A request is a record: what is asked (op), of which job, the  *)
(* next step of the handler (pc) and what the handler has gathered (x).     *)

Handling(c, pc) == request[c] # None /\ request[c].pc = pc

Proceed(c, pc, x) ==
    /\ request' = [request EXCEPT ![c] = [@ EXCEPT !.pc = pc, !.x = x]]
    /\ UNCHANGED answer

Respond(c, response) ==
    /\ request' = [request EXCEPT ![c] = None]
    /\ answer' = [answer EXCEPT ![c] = response]

\* A client asks; while it waits its last response is forgotten.
Ask(c, op, j, pc) ==
    /\ request[c] = None
    /\ request' = [request EXCEPT ![c] = [op |-> op, job |-> j, pc |-> pc, x |-> None]]
    /\ answer' = [answer EXCEPT ![c] = None]
    /\ UNCHANGED <<registryVars, jobVars, worker>>

Request(c) ==
    \/ counter < MaxJobs /\ Ask(c, "create", None, "next_id")
    \/ Ask(c, "list", None, "lock benchmarks")
    \/ \E op \in {"summary", "events", "cancel", "download"}, j \in Jobs :
          Ask(c, op, j, "get_job")

\* Each id is given once: fetch_add.
next_id(c) ==
    /\ Handling(c, "next_id")
    /\ IF counter < MaxJobs
       THEN /\ counter' = counter + 1
            /\ \E m \in Modes : mode' = [mode EXCEPT ![counter + 1] = m]
            /\ request' = [request EXCEPT ![c] = [@ EXCEPT !.pc = "insert", !.job = counter + 1]]
            /\ UNCHANGED answer
       ELSE Respond(c, None) /\ UNCHANGED <<counter, mode>>
    /\ UNCHANGED <<benchmarks, bench_order, benchmarks_lock, order_lock, status, events,
                   result, cancel, events_lock, worker>>

\* Mutant: the order of creation is not kept.
InsertJob_without_order(c) ==
    /\ Handling(c, "insert")
    /\ benchmarks_lock = None
    /\ benchmarks' = benchmarks \cup {request[c].job}
    /\ Proceed(c, "spawn", None)
    /\ UNCHANGED <<counter, bench_order, benchmarks_lock, order_lock, jobVars, worker>>

InsertJob(c) ==
    /\ Handling(c, "insert")
    /\ benchmarks_lock = None
    /\ benchmarks' = benchmarks \cup {request[c].job}
    /\ Proceed(c, "order", None)
    /\ UNCHANGED <<counter, bench_order, benchmarks_lock, order_lock, jobVars, worker>>

PushOrder(c) ==
    /\ Handling(c, "order")
    /\ order_lock = None
    /\ bench_order' = Append(bench_order, request[c].job)
    /\ Proceed(c, "spawn", None)
    /\ UNCHANGED <<counter, benchmarks, benchmarks_lock, order_lock, jobVars, worker>>

SpawnThread(c) ==
    /\ Handling(c, "spawn")
    /\ GoTo(request[c].job, "spawned", None)
    /\ Respond(c, [kind |-> "created", job |-> request[c].job])
    /\ UNCHANGED <<registryVars, jobVars>>

get_job(c) ==
    /\ Handling(c, "get_job")
    /\ benchmarks_lock = None
    /\ IF request[c].job \in benchmarks
       THEN Proceed(c, request[c].op, None)
       ELSE Respond(c, [kind |-> "not found", job |-> request[c].job])
    /\ UNCHANGED <<registryVars, jobVars, worker>>

Row(j, s, r) == [job |-> j, status |-> s, result |-> r]

\* job_summary takes the status first and the result then, each under its own lock.
SummaryStatus(c) ==
    /\ Handling(c, "summary")
    /\ Proceed(c, "summary result", status[request[c].job])
    /\ UNCHANGED <<registryVars, jobVars, worker>>

SummaryResult(c) ==
    LET j == request[c].job IN
    /\ Handling(c, "summary result")
    /\ Respond(c, [kind |-> "jobs", rows |-> <<Row(j, request[c].x, result[j])>>])
    /\ UNCHANGED <<registryVars, jobVars, worker>>

\* list_benchmarks holds both registries while it summarises the jobs, newest first.
ListLockBenchmarks(c) ==
    /\ Handling(c, "lock benchmarks")
    /\ benchmarks_lock = None
    /\ benchmarks_lock' = c
    /\ Proceed(c, "lock order", None)
    /\ UNCHANGED <<counter, benchmarks, bench_order, order_lock, jobVars, worker>>

ListLockOrder(c) ==
    /\ Handling(c, "lock order")
    /\ order_lock = None
    /\ order_lock' = c
    /\ Proceed(c, "list", [left |-> Reverse(bench_order), rows |-> <<>>])
    /\ UNCHANGED <<counter, benchmarks, bench_order, benchmarks_lock, jobVars, worker>>

\* Mutant: looks the job up with get_job, under the lock it already holds.
ListStatus_by_id(c) ==
    LET x == request[c].x IN
    /\ Handling(c, "list")
    /\ x.left # <<>>
    /\ benchmarks_lock = None
    /\ Proceed(c, "list result",
               [x EXCEPT !.rows = Append(@, Row(Head(x.left), status[Head(x.left)], None))])
    /\ UNCHANGED <<registryVars, jobVars, worker>>

\* An id of the order that is not in the map is passed over.
ListStatus(c) ==
    LET x == request[c].x
        j == Head(x.left)
    IN  /\ Handling(c, "list")
        /\ x.left # <<>>
        /\ IF j \in benchmarks
           THEN Proceed(c, "list result",
                        [x EXCEPT !.rows = Append(@, Row(j, status[j], None))])
           ELSE Proceed(c, "list", [x EXCEPT !.left = Tail(@)])
        /\ UNCHANGED <<registryVars, jobVars, worker>>

ListResult(c) ==
    LET x == request[c].x IN
    /\ Handling(c, "list result")
    /\ Proceed(c, "list",
               [left |-> Tail(x.left),
                rows |-> [x.rows EXCEPT ![Len(x.rows)].result = result[Head(x.left)]]])
    /\ UNCHANGED <<registryVars, jobVars, worker>>

ListAnswer(c) ==
    /\ Handling(c, "list")
    /\ request[c].x.left = <<>>
    /\ benchmarks_lock' = None
    /\ order_lock' = None
    /\ Respond(c, [kind |-> "jobs", rows |-> request[c].x.rows])
    /\ UNCHANGED <<counter, benchmarks, bench_order, jobVars, worker>>

\* Mutant: copies the events and lets them go.
EventsLock_released(c) ==
    LET j == request[c].job IN
    /\ Handling(c, "events")
    /\ events_lock[j] = None
    /\ Proceed(c, "events status", Len(events[j]))
    /\ UNCHANGED <<registryVars, jobVars, worker>>

\* benchmark_events reads the status while it holds the events it has copied.  A client
\* asks for the events after those it has: with the answer it has the first `upto`.
EventsLock(c) ==
    LET j == request[c].job IN
    /\ Handling(c, "events")
    /\ events_lock[j] = None
    /\ events_lock' = [events_lock EXCEPT ![j] = c]
    /\ Proceed(c, "events status", Len(events[j]))
    /\ UNCHANGED <<registryVars, mode, status, events, result, cancel, worker>>

EventsStatus(c) ==
    LET j == request[c].job IN
    /\ Handling(c, "events status")
    /\ events_lock' = [events_lock EXCEPT ![j] = None]
    /\ Respond(c, [kind |-> "events", job |-> j, status |-> status[j], upto |-> request[c].x])
    /\ UNCHANGED <<registryVars, mode, status, events, result, cancel, worker>>

\* Mutant: marks the job cancelled at once.
cancel_benchmark_at_once(c) ==
    /\ Handling(c, "cancel")
    /\ cancel' = [cancel EXCEPT ![request[c].job] = TRUE]
    /\ status' = [status EXCEPT ![request[c].job] = "cancelled"]
    /\ Respond(c, [kind |-> "cancelling", job |-> request[c].job])
    /\ UNCHANGED <<registryVars, mode, events, result, events_lock, worker>>

cancel_benchmark(c) ==
    /\ Handling(c, "cancel")
    /\ cancel' = [cancel EXCEPT ![request[c].job] = TRUE]
    /\ Respond(c, [kind |-> "cancelling", job |-> request[c].job])
    /\ UNCHANGED <<registryVars, mode, status, events, result, events_lock, worker>>

\* benchmark_csv and benchmark_json.
download(c) ==
    LET j == request[c].job IN
    /\ Handling(c, "download")
    /\ Respond(c, IF result[j] = None THEN [kind |-> "still running", job |-> j]
                                      ELSE [kind |-> "file", job |-> j, result |-> result[j]])
    /\ UNCHANGED <<registryVars, jobVars, worker>>

Handle(c) ==
    \/ next_id(c)
    \/ InsertJob(c)
    \/ PushOrder(c)
    \/ SpawnThread(c)
    \/ get_job(c)
    \/ SummaryStatus(c)
    \/ SummaryResult(c)
    \/ ListLockBenchmarks(c)
    \/ ListLockOrder(c)
    \/ ListStatus(c)
    \/ ListResult(c)
    \/ ListAnswer(c)
    \/ EventsLock(c)
    \/ EventsStatus(c)
    \/ cancel_benchmark(c)
    \/ download(c)

-----------------------------------------------------------------------------

Next ==
    \/ \E j \in Jobs : WorkerStep(j) \/ WorkerPanics(j)
    \/ \E c \in Clients : Request(c) \/ Handle(c)

\* Threads run and waiting for a mutex ends although others keep taking it; nobody has
\* to ask for anything.
Fairness ==
    /\ \A j \in Jobs : SF_vars(WorkerStep(j))
    /\ \A c \in Clients : SF_vars(Handle(c))

Spec == Init /\ [][Next]_vars /\ Fairness

-----------------------------------------------------------------------------
(* Properties. *)

Agree(s, r) ==
    /\ (s = "completed") <=> r.success
    /\ s = "failed" => r.error # "cancelled"

\* Whoever is told that a job has ended is told its result with it, the one that goes
\* with the status, although the two are written and read under different locks; and a
\* run that gave up because it was cancelled is never reported as a failure.
EndedAnswersCarryResult ==
    \A c \in Clients : answer[c] # None /\ answer[c].kind = "jobs" =>
        \A i \in DOMAIN answer[c].rows :
            LET row == answer[c].rows[i] IN
            row.status # "running" => row.result # None /\ Agree(row.status, row.result)

\* A client that stops polling when an answer says the job has ended has received every
\* event of the job, although the events and the status have locks of their own.
LastAnswerHasAllEvents ==
    \A c \in Clients : answer[c] # None /\ answer[c].kind = "events" =>
        (answer[c].status # "running" => answer[c].upto = Len(events[answer[c].job]))

\* A job somebody was told about is found from then on, by its id and in every list, the
\* lists included that were begun before its creation was finished.
Announced == {j \in Jobs : worker[j].pc # "not spawned"}

AnnouncedJobsAreFound ==
    [][\A c \in Clients : answer[c] = None /\ answer'[c] # None =>
          /\ answer'[c].kind = "not found" => answer'[c].job \notin Announced
          /\ answer'[c].kind = "jobs" /\ request[c].op = "list" =>
                Announced \subseteq {answer'[c].rows[i].job : i \in DOMAIN answer'[c].rows}]_vars

\* What a client has downloaded or read of an ended job stays what it is.
EndedIsFinal ==
    [][\A j \in Jobs : status[j] # "running" =>
          status'[j] = status[j] /\ result'[j] = result[j] /\ events'[j] = events[j]]_vars

\* Every job that is started ends with a result, cancelled or not, under any polling.
JobsEnd == \A j \in Jobs : worker[j].pc = "spawned" ~> status[j] # "running" /\ result[j] # None

\* Every request is answered: handlers and threads never block each other for good.
RequestsAnswered == \A c \in Clients : request[c] # None ~> request[c] = None
=============================================================================
