------------------------------ MODULE UiPolling ------------------------------
(***************************************************************************)
(* The benchmark tab of the web page (app.js) in front of a server: the    *)
(* page asks for the list of jobs, then for the new events of one job      *)
(* after the other, renders, and sets a timer while a job is running.      *)
(* The script runs on one thread, so what it does between two awaits is    *)
(* one step; but refreshBenchmarks is called by the tab, by the Start      *)
(* button and by the timer, and calls overlap at their awaits.             *)
(*                                                                         *)
(* A request is answered by the server in one step and the answer arrives  *)
(* in a later one.  A job is the number of its creation, an event is its   *)
(* seq; rendering keeps the rows; layout is left out.                      *)
(***************************************************************************)
EXTENDS Integers, Sequences, FiniteSets

CONSTANTS
    None,
    Calls,      \* bound: calls of refreshBenchmarks under way at once
    MaxJobs,    \* bound: jobs that get created
    MaxEvents,  \* bound: events of a job
    Scenarios   \* the circumstances to consider: bounds, and whether requests get lost

Jobs == 1..MaxJobs

ASSUME BoundsAssumption == MaxJobs \in Nat /\ MaxEvents \in Nat /\ IsFiniteSet(Calls)

ASSUME ScenariosAssumption ==
    Scenarios \subseteq [calls : SUBSET Calls, jobs : 0..MaxJobs, events : 0..MaxEvents,
                         lossy : BOOLEAN]

\* A list of jobs as the server gives it; a call, with what it awaits and its variables.
JobLists == Seq([job : Jobs, running : BOOLEAN])

CallStates ==
    [await : {"POST", "list"}] \union
    [await : {"POST answer"}, job : Jobs] \union
    [await : {"list answer"}, data : JobLists] \union
    [await : {"events", "events answer"}, data : JobLists, at : Nat, since : Nat,
     upto : Nat \union {None}]

ASSUME NoneAssumption == None \notin Nat \union Seq(Nat) \union CallStates

VARIABLES
    scenario,                 \* chosen once
    created, emitted, ended,  \* the server: jobs; per job, its events and whether it ended
    benchEventSeq,            \* per job: next seq to fetch
    benchEventLog,            \* per job: the seqs of the logged lines
    benchTimer,               \* is the timer set?
    rows,                     \* the jobs as rendered last
    call                      \* per call: its await and its local variables

serverVars == <<scenario, created, emitted, ended>>
logVars == <<benchEventSeq, benchEventLog>>
vars == <<serverVars, logVars, benchTimer, rows, call>>

Init ==
    /\ scenario \in Scenarios
    /\ created = 0
    /\ emitted = [j \in Jobs |-> 0]
    /\ ended = [j \in Jobs |-> FALSE]
    /\ benchEventSeq = [j \in Jobs |-> None]
    /\ benchEventLog = [j \in Jobs |-> None]
    /\ benchTimer = FALSE
    /\ rows = <<>>
    /\ call = [c \in Calls |-> None]

-----------------------------------------------------------------------------
(* The server. *)

push_event(j) ==
    /\ j <= created /\ ~ended[j] /\ emitted[j] < scenario.events
    /\ emitted' = [emitted EXCEPT ![j] = @ + 1]
    /\ UNCHANGED <<scenario, created, ended, logVars, benchTimer, rows, call>>

EndJob(j) ==
    /\ j <= created /\ ~ended[j]
    /\ ended' = [ended EXCEPT ![j] = TRUE]
    /\ UNCHANGED <<scenario, created, emitted, logVars, benchTimer, rows, call>>

Awaits(c, what) == call[c] # None /\ call[c].await = what

create_benchmark(c) ==
    /\ Awaits(c, "POST")
    /\ created' = created + 1
    /\ call' = [call EXCEPT ![c] = [await |-> "POST answer", job |-> created + 1]]
    /\ UNCHANGED <<scenario, emitted, ended, logVars, benchTimer, rows>>

\* Newest first.
list_benchmarks(c) ==
    LET row(j) == [job |-> j, running |-> ~ended[j]] IN
    /\ Awaits(c, "list")
    /\ call' = [call EXCEPT ![c] = [await |-> "list answer",
                                    data  |-> [i \in 1..created |-> row(created + 1 - i)]]]
    /\ UNCHANGED <<serverVars, logVars, benchTimer, rows>>

\* The events from `since` on: those before `upto`.
benchmark_events(c) ==
    /\ Awaits(c, "events")
    /\ call' = [call EXCEPT ![c] = [@ EXCEPT !.await = "events answer",
                                             !.upto = emitted[call[c].data[call[c].at].job]]]
    /\ UNCHANGED <<serverVars, logVars, benchTimer, rows>>

-----------------------------------------------------------------------------
(* The page. *)

\* `if (!(job.benchmark_id in benchEventSeq))`
Known(f, j, x) == IF f[j] = None THEN [f EXCEPT ![j] = x] ELSE f

\* Mutant: a job found in the list starts at its second event.
AskEvents_past_first(c, data, i, seq, log) ==
    LET known == Known(seq, data[i].job, 1) IN
    /\ benchEventSeq' = known
    /\ benchEventLog' = Known(log, data[i].job, <<>>)
    /\ call' = [call EXCEPT ![c] = [await |-> "events", data |-> data, at |-> i,
                                    since |-> known[data[i].job], upto |-> None]]
    /\ UNCHANGED <<benchTimer, rows>>

\* Asks for the new events of the i-th job of the list.
AskEvents(c, data, i, seq, log) ==
    LET known == Known(seq, data[i].job, 0) IN
    /\ benchEventSeq' = known
    /\ benchEventLog' = Known(log, data[i].job, <<>>)
    /\ call' = [call EXCEPT ![c] = [await |-> "events", data |-> data, at |-> i,
                                    since |-> known[data[i].job], upto |-> None]]
    /\ UNCHANGED <<benchTimer, rows>>

\* Mutant: the old timer is cleared after the new one was set.
Render_clearing_last(c, data, seq, log) ==
    /\ benchEventSeq' = seq
    /\ benchEventLog' = log
    /\ rows' = data
    /\ benchTimer' = FALSE
    /\ call' = [call EXCEPT ![c] = None]

\* The end of refreshBenchmarks: the old timer is cleared, a new one set if the list
\* this call was given has a running job.
Render(c, data, seq, log) ==
    /\ benchEventSeq' = seq
    /\ benchEventLog' = log
    /\ rows' = data
    /\ benchTimer' = (\E i \in DOMAIN data : data[i].running)
    /\ call' = [call EXCEPT ![c] = None]

\* Mutant: events of running jobs only.
Continue_running_only(c, data, i, seq, log) ==
    LET left == {k \in i..Len(data) : data[k].running} IN
    IF left # {} THEN AskEvents(c, data, CHOOSE k \in left : \A m \in left : k <= m, seq, log)
                 ELSE Render(c, data, seq, log)

\* The loop over the list.
Continue(c, data, i, seq, log) ==
    IF i <= Len(data) THEN AskEvents(c, data, i, seq, log) ELSE Render(c, data, seq, log)

AskList(c) == call' = [call EXCEPT ![c] = [await |-> "list"]]

activateTab(c) ==
    /\ call[c] = None
    /\ AskList(c)
    /\ UNCHANGED <<serverVars, logVars, benchTimer, rows>>

TimerFires(c) ==
    /\ benchTimer
    /\ call[c] = None
    /\ benchTimer' = FALSE
    /\ AskList(c)
    /\ UNCHANGED <<serverVars, logVars, rows>>

PressStart(c) ==
    /\ call[c] = None
    /\ created + Cardinality({d \in Calls : Awaits(d, "POST")}) < scenario.jobs
    /\ call' = [call EXCEPT ![c] = [await |-> "POST"]]
    /\ UNCHANGED <<serverVars, logVars, benchTimer, rows>>

PostArrives(c) ==
    /\ Awaits(c, "POST answer")
    /\ benchEventSeq' = Known(benchEventSeq, call[c].job, 0)
    /\ benchEventLog' = Known(benchEventLog, call[c].job, <<>>)
    /\ AskList(c)
    /\ UNCHANGED <<serverVars, benchTimer, rows>>

ListArrives(c) ==
    /\ Awaits(c, "list answer")
    /\ Continue(c, call[c].data, 1, benchEventSeq, benchEventLog)
    /\ UNCHANGED serverVars

\* Mutant: the position in the events is not moved on.
EventsArrive_again(c) ==
    LET x   == call[c]
        got == [k \in 1..(x.upto - x.since) |-> x.since + k - 1]
    IN  /\ Awaits(c, "events answer")
        /\ Continue(c, x.data, x.at + 1, benchEventSeq,
                    [benchEventLog EXCEPT ![x.data[x.at].job] = @ \o got])
        /\ UNCHANGED serverVars

\* Logs the events it was given and moves on; with none, the position stays.
EventsArrive(c) ==
    LET x   == call[c]
        j   == x.data[x.at].job
        got == [k \in 1..(x.upto - x.since) |-> x.since + k - 1]
    IN  /\ Awaits(c, "events answer")
        /\ Continue(c, x.data, x.at + 1,
                    IF got = <<>> THEN benchEventSeq ELSE [benchEventSeq EXCEPT ![j] = x.upto],
                    [benchEventLog EXCEPT ![j] = @ \o got])
        /\ UNCHANGED serverVars

\* A failed POST or list ends the call, failed events are ignored.
RequestFails(c) ==
    /\ scenario.lossy
    /\ call[c] # None
    /\ IF call[c].await \in {"events", "events answer"}
       THEN call' = [call EXCEPT ![c] = [@ EXCEPT !.await = "events answer", !.upto = call[c].since]]
       ELSE call' = [call EXCEPT ![c] = None]
    /\ UNCHANGED <<serverVars, logVars, benchTimer, rows>>

-----------------------------------------------------------------------------

Served(c) == create_benchmark(c) \/ list_benchmarks(c) \/ benchmark_events(c)

Arrives(c) == PostArrives(c) \/ ListArrives(c) \/ EventsArrive(c)

Next ==
    \/ \E j \in Jobs : push_event(j) \/ EndJob(j)
    \/ \E c \in scenario.calls :
          \/ activateTab(c)
          \/ TimerFires(c)
          \/ PressStart(c)
          \/ Served(c)
          \/ Arrives(c)
          \/ RequestFails(c)

\* Requests are answered, answers arrive, timers fire; users and jobs do as they please.
Fairness == \A c \in Calls : WF_vars(Served(c)) /\ WF_vars(Arrives(c)) /\ WF_vars(TimerFires(c))

Spec == Init /\ [][Next]_vars /\ Fairness

-----------------------------------------------------------------------------
(* Properties. *)

Logged(j, s) == benchEventLog[j] # None /\ \E i \in DOMAIN benchEventLog[j] : benchEventLog[j][i] = s

\* However calls overlap and requests get lost, and although an old answer can move the
\* position in the events back, no event before the position is missing from the log.
NoEventSkipped ==
    \A j \in Jobs : benchEventSeq[j] # None => \A s \in 0..(benchEventSeq[j] - 1) : Logged(j, s)

Idle == ~benchTimer /\ \A c \in Calls : call[c] = None

\* As long as requests get through, a page that has stopped polling shows no job as
\* running, whichever of the overlapping calls came last.
IdleShowsNothingRunning ==
    ~scenario.lossy /\ Idle => \A i \in DOMAIN rows : ~rows[i].running

\* Only new events are pulled: an event is logged once.
EachEventOnce ==
    \A j \in Jobs : benchEventLog[j] # None =>
        \A i, k \in DOMAIN benchEventLog[j] : benchEventLog[j][i] = benchEventLog[j][k] => i = k

\* Progress is streamed: while a job the page has started runs, the page keeps polling.
StartedJobsAreWatched ==
    \A j \in Jobs : benchEventSeq[j] # None /\ ~ended[j] => ~Idle

\* One call at a time, and requests get through.
Undisturbed == ~scenario.lossy /\ Cardinality(scenario.calls) = 1

\* Without overlaps and losses every event is logged once.
UndisturbedLog == Undisturbed => EachEventOnce

\* Without overlaps and losses started jobs are watched.
UndisturbedWatch == Undisturbed => StartedJobsAreWatched

\* Without overlaps and losses every event gets logged, those a job reports just before
\* it ends included: again and again the page has logged all there is.
EveryEventLogged ==
    []<>(Undisturbed => \A j \in Jobs : \A s \in 0..(emitted[j] - 1) : Logged(j, s))
=============================================================================
