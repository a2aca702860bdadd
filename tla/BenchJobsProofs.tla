--------------------------- MODULE BenchJobsProofs ---------------------------
(***************************************************************************)
(* Proofs about the benchmark jobs, for any clients, any number of jobs    *)
(* and aggregators and any kinds of configuration: types, who holds which  *)
(* lock, what an answer says of the job it is about, that an ended job     *)
(* stays as it is, and that a job somebody was told about is found.        *)
(***************************************************************************)
EXTENDS BenchJobs, SequenceTheorems, TLAPS

-----------------------------------------------------------------------------
(* Types *)

Ended == {"completed", "failed", "cancelled"}
Status == Ended \union {"running"}

Positions == (1..NumAggregators) \X (1..Len(Stages))

\* The states of the thread of a job.
Workers ==
    [pc : {"not spawned"}] \union
    [pc : {"spawned", "generate", "ended"}, x : {None}] \union
    [pc : {"aggregator"}, x : (1..NumAggregators + 1) \X {1}] \union
    [pc : {"stage"}, x : Positions] \union
    [pc : {"failing"}, x : {"cancelled", "library error"}] \union
    [pc : {"returned"}, x : Outcomes] \union
    [pc : {"decided"}, x : [outcome : Outcomes, status : Ended]] \union
    [pc : {"stored"}, x : Ended]

Event == {"voters", "done", "failed"} \union (1..NumAggregators) \X Range(Stages)

Rows == [job : Jobs, status : Status, result : Outcomes \union {None}]

Lists == [left : Seq(Jobs), rows : Seq(Rows)]

\* The last row is that of the first job left, without a result yet.
Begun == {l \in Lists : l.left # <<>> /\ l.rows # <<>> /\ l.rows[Len(l.rows)].job = Head(l.left)}

\* The handlers at work, each with what it has gathered.
Operations == {"summary", "events", "cancel", "download"}

OnJob(pcs, xs) == [op : Operations, job : Jobs, pc : pcs, x : xs]

Requests ==
    [op : {"create"}, job : {None}, pc : {"next_id"}, x : {None}] \union
    [op : {"create"}, job : Jobs, pc : {"insert", "order", "spawn"}, x : {None}] \union
    [op : {"list"}, job : {None}, pc : {"lock benchmarks", "lock order"}, x : {None}] \union
    [op : {"list"}, job : {None}, pc : {"list"}, x : Lists] \union
    [op : {"list"}, job : {None}, pc : {"list result"}, x : Begun] \union
    OnJob({"get_job"}, {None}) \union
    OnJob(Operations, {None}) \union
    OnJob({"summary result"}, Status) \union
    OnJob({"events status"}, Nat)

Answers ==
    [kind : {"created", "not found", "cancelling", "still running"}, job : Jobs] \union
    [kind : {"jobs"}, rows : Seq(Rows)] \union
    [kind : {"events"}, job : Jobs, status : Status, upto : Nat] \union
    [kind : {"file"}, job : Jobs, result : Outcomes]

TypeOK ==
    /\ counter \in 0..MaxJobs
    /\ benchmarks \in SUBSET Jobs
    /\ bench_order \in Seq(Jobs)
    /\ benchmarks_lock \in Clients \union {None}
    /\ order_lock \in Clients \union {None}
    /\ mode \in [Jobs -> Modes \union {None}]
    /\ status \in [Jobs -> Status]
    /\ events \in [Jobs -> Seq(Event)]
    /\ result \in [Jobs -> Outcomes \union {None}]
    /\ cancel \in [Jobs -> BOOLEAN]
    /\ events_lock \in [Jobs -> Clients \union {None}]
    /\ worker \in [Jobs -> Workers]
    /\ request \in [Clients -> Requests \union {None}]
    /\ answer \in [Clients -> Answers \union {None}]

-----------------------------------------------------------------------------
(* The inductive invariant *)

\* A handler holds a mutex, and so keeps the others from it, at each step between taking
\* it and letting it go.
Listing(c) == Handling(c, "list") \/ Handling(c, "list result")

Holds(c) ==
    /\ Handling(c, "lock order") => benchmarks_lock = c
    /\ Listing(c) => benchmarks_lock = c /\ order_lock = c
    /\ Handling(c, "events status") => events_lock[request[c].job] = c

\* A job that is being created has no thread yet, no other handler creates it, and it is
\* in the registries as far as its handler has got.
Creating(c) == \E pc \in {"insert", "order", "spawn"} : Handling(c, pc)

Creates(c) ==
    Creating(c) =>
        /\ request[c].job =< counter
        /\ worker[request[c].job].pc = "not spawned"
        /\ request[c].pc # "insert" => request[c].job \in benchmarks
        /\ request[c].pc = "spawn" => request[c].job \in Range(bench_order)
        /\ \A d \in Clients : Creating(d) /\ request[d].job = request[c].job => d = c

Registered ==
    \A j \in Announced : j =< counter /\ j \in benchmarks /\ j \in Range(bench_order)

\* Fields of a job follow its thread: nothing is stored before the end, the result then
\* comes first, and both agree; who gives up as cancelled has seen the flag.
Progress ==
    \A j \in Jobs :
        LET at == worker[j].pc IN
        /\ status[j] # "running" <=> at = "ended"
        /\ result[j] # None <=> at \in {"stored", "ended"}
        /\ at = "failing" /\ worker[j].x = "cancelled" => cancel[j]
        /\ at = "returned" /\ ~worker[j].x.success /\ worker[j].x.error = "cancelled" => cancel[j]
        /\ at = "decided" => Agree(worker[j].x.status, worker[j].x.outcome)
        /\ at = "stored" => Agree(worker[j].x, result[j])
        /\ at = "ended" => Agree(status[j], result[j])

\* A status other than running that a handler has read of j is still the status of j.
StillSo(s, j) == s # "running" => status[j] = s

Whole(row) == row.status # "running" => row.result # None /\ Agree(row.status, row.result)

\* What a handler has gathered.
KnowsSummary(c) ==
    /\ Handling(c, "summary") \/ Handling(c, "summary result") => request[c].op = "summary"
    /\ Handling(c, "summary result") => StillSo(request[c].x, request[c].job)

KnowsEvents(c) ==
    Handling(c, "events status") => request[c].x = Len(events[request[c].job])

KnowsRows(c) ==
    LET rows == request[c].x.rows
        last == Len(rows)
    IN  /\ Handling(c, "list") => \A i \in DOMAIN rows : Whole(rows[i])
        /\ Handling(c, "list result") =>
              /\ StillSo(rows[last].status, rows[last].job)
              /\ \A i \in DOMAIN rows : i # last => Whole(rows[i])

\* Each job in the registries is in the list or still to come.
KnowsJobs(c) ==
    Listing(c) => \A j \in benchmarks \intersect Range(bench_order) :
        \/ j \in Range(request[c].x.left)
        \/ \E k \in DOMAIN request[c].x.rows : request[c].x.rows[k].job = j

Knows(c) == KnowsSummary(c) /\ KnowsEvents(c) /\ KnowsRows(c) /\ KnowsJobs(c)

\* What a client was told.
ToldRows(c) ==
    answer[c].kind = "jobs" => \A i \in DOMAIN answer[c].rows : Whole(answer[c].rows[i])

ToldEvents(c) ==
    answer[c].kind = "events" /\ answer[c].status # "running" =>
        /\ status[answer[c].job] # "running"
        /\ answer[c].upto = Len(events[answer[c].job])

WasTold(c) == answer[c] # None => ToldRows(c) /\ ToldEvents(c)

OfClient(c) == Holds(c) /\ Creates(c) /\ Knows(c) /\ WasTold(c)

IInv ==
    /\ TypeOK
    /\ Progress
    /\ Registered
    /\ \A c \in Clients : OfClient(c)

-----------------------------------------------------------------------------
(* Types are kept *)

LEMMA InitTypeOK == Init => TypeOK
<1>. SUFFICES ASSUME Init PROVE TypeOK
  OBVIOUS
<1>1. [pc |-> "not spawned"] \in Workers
  BY DEF Workers
<1>2. 0 \in 0..MaxJobs
  BY BoundsAssumption
<1>5. bench_order \in Seq(Jobs)
  BY EmptySeq DEF Init
<1>3. events \in [Jobs -> Seq(Event)]
  BY EmptySeq DEF Init
<1>4. status \in [Jobs -> Status] /\ worker \in [Jobs -> Workers]
  BY <1>1 DEF Init, Status
<1>. QED  BY <1>2, <1>3, <1>4, <1>5 DEF Init, TypeOK

LEMMA JobsAreNumbers == Jobs \subseteq Nat /\ \A n \in Nat : n < MaxJobs => n + 1 \in Jobs
BY BoundsAssumption DEF Jobs

LEMMA StagesFacts ==
    /\ Len(Stages) = 5
    /\ \A s \in 1..5 : Stages[s] \in Range(Stages)
    /\ Positions = (1..NumAggregators) \X (1..5)
<1>1. Len(Stages) = 5 /\ DOMAIN Stages = 1..5
  BY DEF Stages
<1>. QED  BY <1>1 DEF Range, Positions

\* How the states of a thread are made and taken apart.
LEMMA WorkerStates ==
    /\ \A w \in Workers :
        /\ w.pc = "aggregator" => w.x \in (1..NumAggregators + 1) \X {1}
        /\ w.pc = "stage" => w.x \in Positions
        /\ w.pc = "failing" => w.x \in {"cancelled", "library error"}
        /\ w.pc = "returned" => w.x \in Outcomes
        /\ w.pc = "decided" => w.x.outcome \in Outcomes /\ w.x.status \in Ended
        /\ w.pc = "stored" => w.x \in Ended
    /\ \A pc \in {"spawned", "generate", "ended"} : [pc |-> pc, x |-> None] \in Workers
    /\ \A a \in 1..NumAggregators + 1 : [pc |-> "aggregator", x |-> AtAggregator(a)] \in Workers
    /\ \A p \in Positions : [pc |-> "stage", x |-> p] \in Workers
    /\ \A e \in {"cancelled", "library error"} : [pc |-> "failing", x |-> e] \in Workers
    /\ \A o \in Outcomes : [pc |-> "returned", x |-> o] \in Workers
    /\ \A o \in Outcomes, s \in Ended :
          [pc |-> "decided", x |-> [outcome |-> o, status |-> s]] \in Workers
    /\ \A s \in Ended : [pc |-> "stored", x |-> s] \in Workers
BY DEF Workers, AtAggregator

LEMMA AllOutcomes ==
    /\ Outcome(TRUE, None) \in Outcomes
    /\ \A e \in {"nothing to do", "cancelled", "library error", "panic"} :
          Outcome(FALSE, e) \in Outcomes
    /\ \A o \in Outcomes : o.success \in BOOLEAN
BY DEF Outcome, Outcomes

LEMMA WorkerTypeOK ==
    ASSUME TypeOK, NEW j \in Jobs, WorkerStep(j) \/ WorkerPanics(j)
    PROVE  TypeOK'
<1>. USE DEF GoTo, Return
<1>0. worker \in [Jobs -> Workers] /\ worker[j] \in Workers /\ events \in [Jobs -> Seq(Event)]
  BY DEF TypeOK
<1>1. ASSUME UNCHANGED <<registryVars, clientVars>>,
             worker' \in [Jobs -> Workers],
             \/ UNCHANGED jobVars
             \/ \E e \in Event : push_event(j, e)
      PROVE  TypeOK'
  <2>1. CASE UNCHANGED jobVars
    BY <2>1, <1>1 DEF TypeOK, jobVars, registryVars, clientVars
  <2>2. ASSUME NEW e \in Event, push_event(j, e)
        PROVE  TypeOK'
    <3>1. Append(events[j], e) \in Seq(Event)
      BY <1>0, AppendProperties
    <3>2. events' \in [Jobs -> Seq(Event)]
      BY <1>0, <2>2, <3>1 DEF push_event
    <3>. QED  BY <3>2, <2>2, <1>1 DEF TypeOK, push_event, registryVars, clientVars
  <2>. QED  BY <2>1, <2>2, <1>1
<1>2. CASE BeginRun(j) /\ UNCHANGED <<registryVars, clientVars>>
  <2>1. worker' \in [Jobs -> Workers]
    BY <1>0, <1>2, WorkerStates, AllOutcomes DEF BeginRun
  <2>. QED  BY <2>1, <1>1, <1>2 DEF BeginRun, Event
<1>3. CASE GenerateVoters(j) /\ UNCHANGED <<registryVars, clientVars>>
  <2>1. 1 \in 1..NumAggregators + 1
    BY BoundsAssumption
  <2>2. worker' \in [Jobs -> Workers]
    BY <1>0, <2>1, <1>3, WorkerStates, AllOutcomes DEF GenerateVoters
  <2>. QED  BY <2>2, <1>1, <1>3 DEF GenerateVoters
<1>4. CASE NextAggregator(j) /\ UNCHANGED <<registryVars, clientVars>>
  <2>1. worker[j].x \in (1..NumAggregators + 1) \X {1}
    BY <1>0, <1>4, WorkerStates DEF NextAggregator
  <2>2. worker[j].x[1] =< NumAggregators => worker[j].x \in Positions
    BY <2>1, BoundsAssumption, StagesFacts
  <2>3. worker' \in [Jobs -> Workers]
    BY <1>0, <2>2, <1>4, WorkerStates, AllOutcomes DEF NextAggregator
  <2>. QED  BY <2>3, <1>1, <1>4 DEF NextAggregator, Event
<1>5. CASE RunStage(j) /\ UNCHANGED <<registryVars, clientVars>>
  <2>. DEFINE a == worker[j].x[1]
              s == worker[j].x[2]
  <2>1. worker[j].x \in Positions
    BY <1>0, <1>5, WorkerStates DEF RunStage
  <2>2. a \in 1..NumAggregators /\ s \in 1..5
    BY <2>1, StagesFacts
  <2>3. s < 5 => <<a, s + 1>> \in Positions
    BY <2>2, StagesFacts
  <2>4. a + 1 \in 1..NumAggregators + 1
    BY <2>2, BoundsAssumption
  <2>5. worker' \in [Jobs -> Workers]
    BY <1>0, <2>3, <2>4, <1>5, StagesFacts, WorkerStates DEF RunStage
  <2>6. <<a, Stages[s]>> \in Event
    BY <2>2, StagesFacts DEF Event
  <2>. QED  BY <2>5, <2>6, <1>1, <1>5 DEF RunStage
<1>6. CASE ReportFailure(j) /\ UNCHANGED <<registryVars, clientVars>>
  <2>1. worker' \in [Jobs -> Workers]
    BY <1>0, <1>6, WorkerStates, AllOutcomes DEF ReportFailure
  <2>. QED  BY <2>1, <1>1, <1>6 DEF ReportFailure, Event
<1>7. CASE DecideStatus(j) /\ UNCHANGED <<registryVars, clientVars>>
  <2>1. worker' \in [Jobs -> Workers]
    BY <1>0, <1>7, WorkerStates DEF DecideStatus, Ended
  <2>. QED  BY <2>1, <1>1, <1>7 DEF DecideStatus
<1>8. CASE StoreResult(j) /\ UNCHANGED <<registryVars, clientVars>>
  <2>1. worker' \in [Jobs -> Workers] /\ worker[j].x.outcome \in Outcomes
    BY <1>0, <1>8, WorkerStates DEF StoreResult
  <2>. QED  BY <2>1, <1>8 DEF StoreResult, TypeOK, registryVars, clientVars
<1>9. CASE StoreStatus(j) /\ UNCHANGED <<registryVars, clientVars>>
  <2>1. worker' \in [Jobs -> Workers] /\ worker[j].x \in Status
    BY <1>0, <1>9, WorkerStates DEF StoreStatus, Status
  <2>. QED  BY <2>1, <1>9 DEF StoreStatus, TypeOK, registryVars, clientVars
<1>10. CASE WorkerPanics(j)
  <2>1. worker' \in [Jobs -> Workers]
    BY <1>0, <1>10, WorkerStates, AllOutcomes DEF WorkerPanics, Panic
  <2>. QED  BY <2>1, <1>1, <1>10 DEF WorkerPanics, Panic
<1>. QED
  BY <1>2, <1>3, <1>4, <1>5, <1>6, <1>7, <1>8, <1>9, <1>10 DEF WorkerStep

\* How the states of a handler are taken apart ...
LEMMA RequestStates ==
    ASSUME NEW r \in Requests
    PROVE  /\ r.pc \in {"insert", "order", "spawn"} \union Operations \union
                       {"get_job", "summary result", "events status"} => r.job \in Jobs
           /\ r.pc = "get_job" => r.op \in Operations
           /\ r.pc = "summary result" => r.op \in Operations /\ r.x \in Status
           /\ r.pc = "events status" => r.x \in Nat
           /\ r.pc \in {"list", "list result"} => r.op = "list" /\ r.x \in Lists
           /\ r.pc = "list result" => r.x \in Begun
BY DEF Requests, OnJob, Operations, Begun

\* ... and lead to one another.
LEMMA NextRequest ==
    ASSUME NEW r \in Requests
    PROVE  /\ r.pc = "next_id" => \A j \in Jobs :
                 [r EXCEPT !.pc = "insert", !.job = j] \in Requests
           /\ r.pc = "insert" => [r EXCEPT !.pc = "order", !.x = None] \in Requests
           /\ r.pc = "order" => [r EXCEPT !.pc = "spawn", !.x = None] \in Requests
           /\ r.pc = "get_job" => [r EXCEPT !.pc = r.op, !.x = None] \in Requests
           /\ r.pc = "summary" => \A s \in Status :
                 [r EXCEPT !.pc = "summary result", !.x = s] \in Requests
           /\ r.pc = "events" => \A n \in Nat :
                 [r EXCEPT !.pc = "events status", !.x = n] \in Requests
           /\ r.pc = "lock benchmarks" => [r EXCEPT !.pc = "lock order", !.x = None] \in Requests
           /\ r.pc \in {"lock order", "list", "list result"} => \A l \in Lists :
                 [r EXCEPT !.pc = "list", !.x = l] \in Requests
           /\ r.pc = "list" => \A l \in Begun :
                 [r EXCEPT !.pc = "list result", !.x = l] \in Requests
<1>. USE DEF Requests, OnJob, Operations
<1>1. /\ r.pc = "next_id" => \A j \in Jobs : [r EXCEPT !.pc = "insert", !.job = j] \in Requests
      /\ r.pc = "insert" => [r EXCEPT !.pc = "order", !.x = None] \in Requests
      /\ r.pc = "order" => [r EXCEPT !.pc = "spawn", !.x = None] \in Requests
  OBVIOUS
<1>2. /\ r.pc = "get_job" => [r EXCEPT !.pc = r.op, !.x = None] \in Requests
      /\ r.pc = "lock benchmarks" => [r EXCEPT !.pc = "lock order", !.x = None] \in Requests
  OBVIOUS
<1>3. r.pc = "summary" => \A s \in Status :
        [r EXCEPT !.pc = "summary result", !.x = s] \in Requests
  OBVIOUS
<1>4. r.pc = "events" => \A n \in Nat : [r EXCEPT !.pc = "events status", !.x = n] \in Requests
  OBVIOUS
<1>5. r.pc \in {"lock order", "list", "list result"} => \A l \in Lists :
        [r EXCEPT !.pc = "list", !.x = l] \in Requests
  OBVIOUS
<1>6. r.pc = "list" => \A l \in Begun : [r EXCEPT !.pc = "list result", !.x = l] \in Requests
  OBVIOUS
<1>. HIDE DEF Requests
<1>. QED  BY <1>1, <1>2, <1>3, <1>4, <1>5, <1>6

LEMMA ReversedSeq ==
    ASSUME NEW s \in Seq(Jobs)
    PROVE  /\ Reverse(s) \in Seq(Jobs)
           /\ Range(s) \subseteq Range(Reverse(s))
<1>1. Len(s) \in Nat /\ DOMAIN s = 1..Len(s) /\ \A i \in 1..Len(s) : s[i] \in Jobs
  BY LenProperties
<1>2. \A i \in 1..Len(s) : Len(s) - i + 1 \in 1..Len(s)
  BY <1>1
<1>3. Reverse(s) \in Seq(Jobs) /\ DOMAIN Reverse(s) = 1..Len(s)
  BY <1>1, <1>2, IsASeq DEF Reverse
<1>4. \A i \in 1..Len(s) : Reverse(s)[Len(s) - i + 1] = s[i]
  BY <1>1, <1>2 DEF Reverse
<1>. QED  BY <1>1, <1>2, <1>3, <1>4 DEF Range

\* The steps of a list: a row is begun, completed, or an id is passed over.
LEMMA ListSteps ==
    ASSUME NEW l \in Lists, l.left # <<>>
    PROVE  /\ Head(l.left) \in Jobs
           /\ [l EXCEPT !.left = Tail(@)] \in Lists
           /\ \A s \in Status :
                 [l EXCEPT !.rows = Append(@, Row(Head(l.left), s, None))] \in Begun
           /\ \A o \in Outcomes \union {None} : l \in Begun =>
                 [left |-> Tail(l.left),
                  rows |-> [l.rows EXCEPT ![Len(l.rows)].result = o]] \in Lists
<1>1. l = [left |-> l.left, rows |-> l.rows] /\ l.left \in Seq(Jobs) /\ l.rows \in Seq(Rows)
  BY DEF Lists
<1>2. Head(l.left) \in Jobs /\ Tail(l.left) \in Seq(Jobs)
  BY <1>1, HeadTailProperties
<1>3. ASSUME NEW s \in Status
      PROVE  [l EXCEPT !.rows = Append(@, Row(Head(l.left), s, None))] \in Begun
  <2>. DEFINE new == Row(Head(l.left), s, None)
  <2>1. new \in Rows /\ new.job = Head(l.left)
    BY <1>2 DEF Row, Rows
  <2>2. /\ Append(l.rows, new) \in Seq(Rows)
        /\ Append(l.rows, new) # <<>>
        /\ Append(l.rows, new)[Len(Append(l.rows, new))] = new
    BY <1>1, <2>1, AppendProperties
  <2>. HIDE DEF new
  <2>. QED  BY <1>1, <2>1, <2>2 DEF Lists, Begun, new
<1>4. ASSUME NEW o \in Outcomes \union {None}, l \in Begun
      PROVE  [left |-> Tail(l.left),
              rows |-> [l.rows EXCEPT ![Len(l.rows)].result = o]] \in Lists
  <2>1. Len(l.rows) \in 1..Len(l.rows)
    <3>1. l.rows # <<>>
      BY <1>4 DEF Begun
    <3>. QED  BY <1>1, <3>1
  <2>2. [l.rows[Len(l.rows)] EXCEPT !.result = o] \in Rows
    <3>1. l.rows[Len(l.rows)] \in Rows
      BY <1>1, <2>1, ElementOfSeq
    <3>. QED  BY <3>1 DEF Rows
  <2>3. [l.rows EXCEPT ![Len(l.rows)].result = o] \in Seq(Rows)
    BY <1>1, <2>1, <2>2, ExceptSeq
  <2>. QED  BY <1>2, <2>3 DEF Lists
<1>. QED  BY <1>1, <1>2, <1>3, <1>4 DEF Lists

\* What is known of the handler at work for c.
LEMMA Handlers ==
    ASSUME TypeOK, NEW c \in Clients
    PROVE  /\ \A pc : Handling(c, pc) => request[c] \in Requests /\ request[c].pc = pc
           /\ Creating(c) => request[c].job \in Jobs
           /\ Handling(c, "summary result") \/ Handling(c, "events status") =>
                 request[c].job \in Jobs
           /\ Handling(c, "list") \/ Handling(c, "list result") => request[c].x \in Lists
           /\ Handling(c, "list result") =>
                 request[c].x \in Begun /\ Head(request[c].x.left) \in Jobs
<1>1. \A pc : Handling(c, pc) => request[c] \in Requests /\ request[c].pc = pc
  BY DEF TypeOK, Handling
<1>2. CASE Handling(c, "list result")
  <2>1. request[c] \in Requests /\ request[c].pc = "list result"
    BY <1>1, <1>2
  <2>2. request[c].x \in Begun /\ request[c].x \in Lists /\ request[c].x.left # <<>>
    BY <2>1, RequestStates DEF Begun
  <2>3. Head(request[c].x.left) \in Jobs
    BY <2>2, ListSteps
  <2>4. ~Creating(c) /\ ~Handling(c, "list") /\ ~Handling(c, "summary result")
        /\ ~Handling(c, "events status")
    BY <2>1 DEF Creating, Handling
  <2>. QED  BY <1>1, <2>2, <2>3, <2>4
<1>3. CASE ~Handling(c, "list result")
  BY <1>1, <1>3, RequestStates DEF Creating
<1>. QED  BY <1>2, <1>3

\* A handler goes on, or answers.
LEMMA ProceedTypes ==
    ASSUME TypeOK, NEW c \in Clients, NEW pc, NEW x, Proceed(c, pc, x),
           [request[c] EXCEPT !.pc = pc, !.x = x] \in Requests
    PROVE  /\ request' \in [Clients -> Requests \union {None}]
           /\ answer' \in [Clients -> Answers \union {None}]
BY DEF TypeOK, Proceed

LEMMA RespondTypes ==
    ASSUME TypeOK, NEW c \in Clients, NEW response \in Answers \union {None},
           Respond(c, response)
    PROVE  /\ request' \in [Clients -> Requests \union {None}]
           /\ answer' \in [Clients -> Answers \union {None}]
BY DEF TypeOK, Respond

LEMMA AskTypeOK ==
    ASSUME TypeOK, NEW c \in Clients, Request(c)
    PROVE  TypeOK'
<1>1. request' \in [Clients -> Requests \union {None}]
  <2>1. \A op \in Operations, j \in Jobs :
          [op |-> op, job |-> j, pc |-> "get_job", x |-> None] \in Requests
    BY DEF Requests, OnJob
  <2>2. /\ [op |-> "create", job |-> None, pc |-> "next_id", x |-> None] \in Requests
        /\ [op |-> "list", job |-> None, pc |-> "lock benchmarks", x |-> None] \in Requests
    BY DEF Requests
  <2>3. PICK r \in Requests : request' = [request EXCEPT ![c] = r] /\ answer' = [answer EXCEPT ![c] = None]
    BY <2>1, <2>2 DEF Request, Ask, Operations
  <2>. QED  BY <2>3 DEF TypeOK
<1>. QED  BY <1>1 DEF TypeOK, Request, Ask, registryVars, jobVars

LEMMA HandleTypeOK ==
    ASSUME TypeOK, NEW c \in Clients, Handle(c)
    PROVE  TypeOK'
<1>. DEFINE r == request[c]
<1>0. /\ request \in [Clients -> Requests \union {None}]
      /\ \A pc : Handling(c, pc) => r \in Requests /\ r.pc = pc
  BY DEF TypeOK, Handling
<1>1. CASE next_id(c)
  <2>1. counter < MaxJobs => counter + 1 \in Jobs /\ counter + 1 \in 0..MaxJobs
    BY BoundsAssumption DEF TypeOK, Jobs
  <2>2. counter' \in 0..MaxJobs /\ mode' \in [Jobs -> Modes \union {None}]
    BY <1>1, <2>1 DEF next_id, TypeOK
  <2>3. /\ request' \in [Clients -> Requests \union {None}]
        /\ answer' \in [Clients -> Answers \union {None}]
    <3>1. CASE counter < MaxJobs
      <4>1. [r EXCEPT !.pc = "insert", !.job = counter + 1] \in Requests
        BY <1>0, <1>1, <2>1, <3>1, NextRequest DEF next_id
      <4>2. request' \in [Clients -> Requests \union {None}]
        BY <1>0, <1>1, <3>1, <4>1 DEF next_id
      <4>. QED  BY <1>1, <3>1, <4>2 DEF next_id, TypeOK
    <3>2. CASE ~(counter < MaxJobs)
      BY <1>1, <3>2, RespondTypes DEF next_id
    <3>. QED  BY <3>1, <3>2
  <2>. QED  BY <1>1, <2>2, <2>3 DEF next_id, TypeOK
<1>2. CASE InsertJob(c)
  <2>1. r \in Requests /\ r.pc = "insert" /\ r.job \in Jobs
    BY <1>0, <1>2, RequestStates DEF InsertJob
  <2>2. [r EXCEPT !.pc = "order", !.x = None] \in Requests
    BY <2>1, NextRequest
  <2>. QED  BY <1>2, <2>1, <2>2, ProceedTypes DEF InsertJob, TypeOK, jobVars
<1>3. CASE PushOrder(c)
  <2>1. r \in Requests /\ r.pc = "order" /\ r.job \in Jobs
    BY <1>0, <1>3, RequestStates DEF PushOrder
  <2>2. [r EXCEPT !.pc = "spawn", !.x = None] \in Requests
    BY <2>1, NextRequest
  <2>3. bench_order' \in Seq(Jobs)
    BY <1>3, <2>1, AppendProperties DEF PushOrder, TypeOK
  <2>. QED  BY <1>3, <2>2, <2>3, ProceedTypes DEF PushOrder, TypeOK, jobVars
<1>4. CASE SpawnThread(c)
  <2>1. r.job \in Jobs
    BY <1>0, <1>4, RequestStates DEF SpawnThread
  <2>2. [kind |-> "created", job |-> r.job] \in Answers
    BY <2>1 DEF Answers
  <2>3. worker' \in [Jobs -> Workers]
    BY <1>4, WorkerStates DEF SpawnThread, GoTo, TypeOK
  <2>. QED  BY <1>4, <2>2, <2>3, RespondTypes DEF SpawnThread, TypeOK, jobVars, registryVars
<1>5. CASE get_job(c)
  <2>1. r \in Requests /\ r.pc = "get_job" /\ r.job \in Jobs
    BY <1>0, <1>5, RequestStates DEF get_job
  <2>2. [r EXCEPT !.pc = r.op, !.x = None] \in Requests
    BY <2>1, NextRequest
  <2>3. [kind |-> "not found", job |-> r.job] \in Answers
    BY <2>1 DEF Answers
  <2>4. /\ request' \in [Clients -> Requests \union {None}]
        /\ answer' \in [Clients -> Answers \union {None}]
    BY <1>5, <2>2, <2>3, RespondTypes, ProceedTypes DEF get_job
  <2>. QED  BY <1>5, <2>4 DEF get_job, TypeOK, jobVars, registryVars
<1>6. CASE SummaryStatus(c)
  <2>1. r \in Requests /\ r.pc = "summary" /\ r.job \in Jobs
    BY <1>0, <1>6, RequestStates DEF SummaryStatus, Operations
  <2>2. [r EXCEPT !.pc = "summary result", !.x = status[r.job]] \in Requests
    BY <2>1, NextRequest DEF TypeOK
  <2>. QED  BY <1>6, <2>2, ProceedTypes DEF SummaryStatus, TypeOK, jobVars, registryVars
<1>7. CASE SummaryResult(c)
  <2>1. r.job \in Jobs /\ r.x \in Status
    BY <1>0, <1>7, RequestStates DEF SummaryResult
  <2>2. Row(r.job, r.x, result[r.job]) \in Rows
    BY <2>1 DEF Row, Rows, TypeOK
  <2>3. [kind |-> "jobs", rows |-> <<Row(r.job, r.x, result[r.job])>>] \in Answers
    BY <2>2 DEF Answers
  <2>. QED  BY <1>7, <2>3, RespondTypes DEF SummaryResult, TypeOK, jobVars, registryVars
<1>8. CASE ListLockBenchmarks(c)
  <2>1. r \in Requests /\ r.pc = "lock benchmarks"
    BY <1>0, <1>8 DEF ListLockBenchmarks
  <2>2. [r EXCEPT !.pc = "lock order", !.x = None] \in Requests
    BY <2>1, NextRequest
  <2>. QED  BY <1>8, <2>2, ProceedTypes DEF ListLockBenchmarks, TypeOK, jobVars
<1>9. CASE ListLockOrder(c)
  <2>. DEFINE l == [left |-> Reverse(bench_order), rows |-> <<>>]
  <2>1. Reverse(bench_order) \in Seq(Jobs) /\ <<>> \in Seq(Rows)
    BY ReversedSeq, EmptySeq DEF TypeOK
  <2>2. l \in Lists
    BY <2>1 DEF Lists
  <2>3. r \in Requests /\ r.pc = "lock order"
    BY <1>0, <1>9 DEF ListLockOrder
  <2>. HIDE DEF l
  <2>4. [r EXCEPT !.pc = "list", !.x = l] \in Requests
    BY <2>2, <2>3, NextRequest
  <2>. QED  BY <1>9, <2>4, ProceedTypes DEF ListLockOrder, TypeOK, jobVars, l
<1>10. CASE ListStatus(c)
  <2>. DEFINE j == Head(r.x.left)
              longer == [r.x EXCEPT !.rows = Append(@, Row(j, status[j], None))]
              shorter == [r.x EXCEPT !.left = Tail(@)]
  <2>1. r \in Requests /\ r.pc = "list" /\ r.x.left # <<>>
    BY <1>0, <1>10 DEF ListStatus
  <2>2. r.x \in Lists
    BY <2>1, RequestStates
  <2>3. j \in Jobs /\ status[j] \in Status
    BY <2>1, <2>2, ListSteps DEF TypeOK
  <2>4. longer \in Begun /\ shorter \in Lists
    BY <2>1, <2>2, <2>3, ListSteps
  <2>. HIDE DEF longer, shorter
  <2>5. /\ [r EXCEPT !.pc = "list result", !.x = longer] \in Requests
        /\ [r EXCEPT !.pc = "list", !.x = shorter] \in Requests
    BY <2>1, <2>4, NextRequest
  <2>6. /\ request' \in [Clients -> Requests \union {None}]
        /\ answer' \in [Clients -> Answers \union {None}]
    BY <1>10, <2>5, ProceedTypes DEF ListStatus, longer, shorter
  <2>. QED  BY <1>10, <2>6 DEF ListStatus, TypeOK, jobVars, registryVars
<1>11. CASE ListResult(c)
  <2>. DEFINE l == [left |-> Tail(r.x.left),
                    rows |-> [r.x.rows EXCEPT ![Len(r.x.rows)].result = result[Head(r.x.left)]]]
  <2>1. r \in Requests /\ r.pc = "list result"
    BY <1>0, <1>11 DEF ListResult
  <2>2. r.x \in Lists /\ r.x \in Begun /\ r.x.left # <<>>
    BY <2>1, RequestStates DEF Begun
  <2>3. Head(r.x.left) \in Jobs
    BY <2>2, ListSteps
  <2>4. result[Head(r.x.left)] \in Outcomes \union {None}
    BY <2>3 DEF TypeOK
  <2>5. l \in Lists
    BY <2>2, <2>4, ListSteps
  <2>. HIDE DEF l
  <2>6. [r EXCEPT !.pc = "list", !.x = l] \in Requests
    BY <2>1, <2>5, NextRequest
  <2>. QED  BY <1>11, <2>6, ProceedTypes DEF ListResult, TypeOK, jobVars, registryVars, l
<1>12. CASE ListAnswer(c)
  <2>1. r.x \in Lists
    BY <1>0, <1>12, RequestStates DEF ListAnswer
  <2>2. [kind |-> "jobs", rows |-> r.x.rows] \in Answers
    BY <2>1 DEF Answers, Lists
  <2>. QED  BY <1>12, <2>2, RespondTypes DEF ListAnswer, TypeOK, jobVars
<1>13. CASE EventsLock(c)
  <2>1. r \in Requests /\ r.pc = "events" /\ r.job \in Jobs
    BY <1>0, <1>13, RequestStates DEF EventsLock, Operations
  <2>2. Len(events[r.job]) \in Nat
    BY <2>1, LenProperties DEF TypeOK
  <2>3. [r EXCEPT !.pc = "events status", !.x = Len(events[r.job])] \in Requests
    BY <2>1, <2>2, NextRequest
  <2>. QED  BY <1>13, <2>3, ProceedTypes DEF EventsLock, TypeOK, registryVars
<1>14. CASE EventsStatus(c)
  <2>1. r.job \in Jobs /\ r.x \in Nat
    BY <1>0, <1>14, RequestStates DEF EventsStatus
  <2>2. [kind |-> "events", job |-> r.job, status |-> status[r.job], upto |-> r.x] \in Answers
    BY <2>1 DEF Answers, TypeOK
  <2>. QED  BY <1>14, <2>2, RespondTypes DEF EventsStatus, TypeOK, registryVars
<1>15. CASE cancel_benchmark(c)
  <2>1. r.job \in Jobs
    BY <1>0, <1>15, RequestStates DEF cancel_benchmark, Operations
  <2>2. [kind |-> "cancelling", job |-> r.job] \in Answers
    BY <2>1 DEF Answers
  <2>. QED  BY <1>15, <2>2, RespondTypes DEF cancel_benchmark, TypeOK, registryVars
<1>16. CASE download(c)
  <2>1. r.job \in Jobs
    BY <1>0, <1>16, RequestStates DEF download, Operations
  <2>2. /\ [kind |-> "still running", job |-> r.job] \in Answers
        /\ result[r.job] # None =>
              [kind |-> "file", job |-> r.job, result |-> result[r.job]] \in Answers
    BY <2>1 DEF Answers, TypeOK
  <2>3. /\ request' \in [Clients -> Requests \union {None}]
        /\ answer' \in [Clients -> Answers \union {None}]
    BY <1>16, <2>2, RespondTypes DEF download
  <2>. QED  BY <1>16, <2>3 DEF download, TypeOK, jobVars, registryVars
<1>. QED
  BY <1>1, <1>2, <1>3, <1>4, <1>5, <1>6, <1>7, <1>8, <1>9, <1>10, <1>11, <1>12, <1>13,
     <1>14, <1>15, <1>16 DEF Handle

-----------------------------------------------------------------------------
(* Steps of the threads *)

\* A thread at work changes its own job, which has not ended, and reports events when
\* nobody holds them.
LEMMA WorkerChanges ==
    ASSUME TypeOK, Progress, NEW j \in Jobs, WorkerStep(j) \/ WorkerPanics(j)
    PROVE  /\ UNCHANGED <<registryVars, clientVars, cancel, events_lock>>
           /\ worker[j].pc # "not spawned" /\ worker'[j].pc # "not spawned"
           /\ status[j] = "running"
           /\ events_lock[j] = None \/ events'[j] = events[j]
           /\ \A i \in Jobs : i # j =>
                 /\ worker'[i] = worker[i]
                 /\ status'[i] = status[i]
                 /\ result'[i] = result[i]
                 /\ events'[i] = events[i]
<1>. DEFINE Moves == \E pc, x : pc # "not spawned" /\ GoTo(j, pc, x)
            Works == \/ UNCHANGED jobVars
                     \/ \E e : push_event(j, e)
            Stores == \/ \E r : /\ result' = [result EXCEPT ![j] = r]
                                /\ UNCHANGED <<mode, status, events, cancel, events_lock>>
                      \/ \E s : /\ status' = [status EXCEPT ![j] = s]
                                /\ UNCHANGED <<mode, result, events, cancel, events_lock>>
<1>1. UNCHANGED <<registryVars, clientVars>>
  BY DEF WorkerStep, WorkerPanics
<1>2. worker[j].pc \notin {"not spawned", "ended"} /\ Moves /\ (Works \/ Stores)
  <2>1. CASE BeginRun(j)
    BY <2>1 DEF BeginRun, Return
  <2>2. CASE GenerateVoters(j)
    BY <2>2 DEF GenerateVoters, Return
  <2>3. CASE NextAggregator(j)
    BY <2>3 DEF NextAggregator, Return
  <2>4. CASE RunStage(j)
    BY <2>4 DEF RunStage
  <2>5. CASE ReportFailure(j)
    BY <2>5 DEF ReportFailure, Return
  <2>6. CASE DecideStatus(j)
    BY <2>6 DEF DecideStatus
  <2>7. CASE StoreResult(j)
    BY <2>7 DEF StoreResult
  <2>8. CASE StoreStatus(j)
    BY <2>8 DEF StoreStatus
  <2>9. CASE Panic(j)
    BY <2>9 DEF Panic, Return
  <2>. QED
    BY <2>1, <2>2, <2>3, <2>4, <2>5, <2>6, <2>7, <2>8, <2>9 DEF WorkerStep, WorkerPanics
<1>3. /\ DOMAIN worker = Jobs /\ DOMAIN status = Jobs
      /\ DOMAIN result = Jobs /\ DOMAIN events = Jobs
  BY DEF TypeOK
<1>4. worker'[j].pc # "not spawned" /\ \A i \in Jobs : i # j => worker'[i] = worker[i]
  <2>1. PICK p, v : p # "not spawned" /\ worker' = [worker EXCEPT ![j] = [pc |-> p, x |-> v]]
    BY <1>2 DEF GoTo
  <2>. QED  BY <2>1, <1>3
<1>5. /\ UNCHANGED <<cancel, events_lock>>
      /\ events_lock[j] = None \/ events'[j] = events[j]
      /\ \A i \in Jobs : i # j =>
            status'[i] = status[i] /\ result'[i] = result[i] /\ events'[i] = events[i]
  <2>1. CASE Works
    BY <2>1, <1>3 DEF jobVars, push_event
  <2>2. CASE Stores
    BY <2>2, <1>3
  <2>. QED  BY <1>2, <2>1, <2>2
<1>6. status[j] = "running"
  BY <1>2 DEF Progress
<1>. QED  BY <1>1, <1>2, <1>4, <1>5, <1>6

\* The fields of a job keep pace with its thread.
LEMMA WorkerProgress ==
    ASSUME TypeOK, Progress, NEW j \in Jobs, WorkerStep(j) \/ WorkerPanics(j)
    PROVE  Progress'
<1>. DEFINE InStep(i) ==
        LET at == worker[i].pc IN
        /\ status[i] # "running" <=> at = "ended"
        /\ result[i] # None <=> at \in {"stored", "ended"}
        /\ at = "failing" /\ worker[i].x = "cancelled" => cancel[i]
        /\ at = "returned" /\ ~worker[i].x.success /\ worker[i].x.error = "cancelled" => cancel[i]
        /\ at = "decided" => Agree(worker[i].x.status, worker[i].x.outcome)
        /\ at = "stored" => Agree(worker[i].x, result[i])
        /\ at = "ended" => Agree(status[i], result[i])
<1>1. InStep(j) /\ DOMAIN worker = Jobs /\ DOMAIN status = Jobs /\ DOMAIN result = Jobs
  BY DEF Progress, TypeOK
<1>2. InStep(j)'
  <2>. USE <1>1 DEF GoTo, Return, push_event, jobVars
  <2>0. worker[j] \in Workers
    BY DEF TypeOK
  <2>1. CASE BeginRun(j)
    <3>1. UNCHANGED <<status, result, cancel>> /\ worker[j].pc = "spawned"
      BY <2>1 DEF BeginRun
    <3>2. \/ worker' = [worker EXCEPT ![j] = [pc |-> "generate", x |-> None]]
          \/ worker' = [worker EXCEPT ![j] = [pc |-> "returned", x |-> Outcome(TRUE, None)]]
          \/ worker' = [worker EXCEPT ![j] =
                          [pc |-> "returned", x |-> Outcome(FALSE, "nothing to do")]]
      BY <2>1 DEF BeginRun
    <3>3. CASE worker' = [worker EXCEPT ![j] = [pc |-> "generate", x |-> None]]
      BY <3>1, <3>3
    <3>4. CASE worker' = [worker EXCEPT ![j] = [pc |-> "returned", x |-> Outcome(TRUE, None)]]
      BY <3>1, <3>4 DEF Outcome
    <3>5. CASE worker' = [worker EXCEPT ![j] =
                            [pc |-> "returned", x |-> Outcome(FALSE, "nothing to do")]]
      BY <3>1, <3>5 DEF Outcome
    <3>. QED  BY <3>2, <3>3, <3>4, <3>5
  <2>2. CASE GenerateVoters(j)
    BY <2>2 DEF GenerateVoters, Outcome
  <2>3. CASE NextAggregator(j)
    BY <2>3 DEF NextAggregator, Outcome
  <2>4. CASE RunStage(j)
    <3>1. UNCHANGED <<status, result, cancel>> /\ worker[j].pc = "stage"
      BY <2>4 DEF RunStage
    <3>2. PICK v : \/ worker' = [worker EXCEPT ![j] = [pc |-> "stage", x |-> v]]
                   \/ worker' = [worker EXCEPT ![j] = [pc |-> "aggregator", x |-> v]]
                   \/ worker' = [worker EXCEPT ![j] = [pc |-> "failing", x |-> "library error"]]
      BY <2>4 DEF RunStage
    <3>3. /\ worker'[j].pc \in {"stage", "aggregator", "failing"}
          /\ worker'[j].pc = "failing" => worker'[j].x = "library error"
      <4>1. CASE worker' = [worker EXCEPT ![j] = [pc |-> "stage", x |-> v]]
        BY <4>1
      <4>2. CASE worker' = [worker EXCEPT ![j] = [pc |-> "aggregator", x |-> v]]
        BY <4>2
      <4>3. CASE worker' = [worker EXCEPT ![j] = [pc |-> "failing", x |-> "library error"]]
        BY <4>3
      <4>. QED  BY <3>2, <4>1, <4>2, <4>3
    <3>. QED  BY <3>1, <3>3
  <2>5. CASE ReportFailure(j)
    BY <2>5 DEF ReportFailure, Outcome
  <2>6. CASE DecideStatus(j)
    BY <2>0, <2>6, WorkerStates, AllOutcomes DEF DecideStatus, Agree
  <2>7. CASE StoreResult(j)
    BY <2>0, <2>7, WorkerStates, NoneAssumption DEF StoreResult
  <2>8. CASE StoreStatus(j)
    BY <2>0, <2>8, WorkerStates DEF StoreStatus, Ended
  <2>9. CASE Panic(j)
    BY <2>9 DEF Panic, Outcome
  <2>. QED
    BY <2>1, <2>2, <2>3, <2>4, <2>5, <2>6, <2>7, <2>8, <2>9 DEF WorkerStep, WorkerPanics
<1>3. ASSUME NEW i \in Jobs, i # j PROVE InStep(i)'
  <2>1. InStep(i)
    BY DEF Progress
  <2>. QED  BY <1>3, <2>1, WorkerChanges
<1>. QED  BY <1>2, <1>3 DEF Progress

\* What clients and handlers know stays true while threads work.
LEMMA WorkerOthers ==
    ASSUME IInv, NEW j \in Jobs, WorkerStep(j) \/ WorkerPanics(j)
    PROVE  Registered' /\ \A c \in Clients : OfClient(c)'
<1>. USE DEF IInv
<1>1. /\ UNCHANGED <<counter, benchmarks, bench_order, benchmarks_lock, order_lock,
                     events_lock, request, answer>>
      /\ worker[j].pc # "not spawned" /\ worker'[j].pc # "not spawned"
      /\ status[j] = "running"
      /\ events_lock[j] = None \/ events'[j] = events[j]
      /\ \A i \in Jobs : i # j =>
            worker'[i] = worker[i] /\ status'[i] = status[i] /\ events'[i] = events[i]
  BY WorkerChanges DEF registryVars, clientVars
<1>2. \A c \in Clients : /\ \A pc : Handling(c, pc)' <=> Handling(c, pc)
                         /\ Listing(c)' <=> Listing(c)
                         /\ Creating(c)' <=> Creating(c)
  BY <1>1 DEF Handling, Listing, Creating
<1>3. Registered'
  <2>1. Announced' = Announced
    BY <1>1 DEF Announced
  <2>. QED  BY <1>1, <2>1 DEF Registered
<1>4. ASSUME NEW c \in Clients PROVE OfClient(c)'
  <2>. USE DEF OfClient
  <2>1. Holds(c)'
    BY <1>1, <1>2 DEF Holds
  <2>2. Creates(c)'
    <3>1. ASSUME Creating(c)
          PROVE  request[c].job \in Jobs /\ request[c].job # j
      <4>1. worker[request[c].job].pc = "not spawned"
        BY <3>1 DEF Creates
      <4>. QED  BY <1>1, <3>1, <4>1, Handlers
    <3>. QED  BY <1>1, <1>2, <3>1 DEF Creates
  <2>3. \A s, i : i \in Jobs /\ StillSo(s, i) => StillSo(s, i)'
    BY <1>1 DEF StillSo
  <2>4. KnowsSummary(c)'
    BY <1>1, <1>2, <2>3, Handlers DEF Knows, KnowsSummary
  <2>5. KnowsEvents(c)'
    <3>1. ASSUME Handling(c, "events status")
          PROVE  events'[request[c].job] = events[request[c].job]
      <4>1. events_lock[request[c].job] = c /\ c # None /\ request[c].job \in Jobs
        BY <3>1, Handlers, NoneAssumption DEF Holds
      <4>. QED  BY <1>1, <4>1
    <3>. QED  BY <1>1, <1>2, <3>1 DEF Knows, KnowsEvents
  <2>6. KnowsRows(c)'
    <3>1. Handling(c, "list result") =>
            LET rows == request[c].x.rows IN rows[Len(rows)].job \in Jobs
      BY Handlers, ZenonT(60) DEF Begun
    <3>. QED  BY <1>1, <1>2, <2>3, <3>1 DEF Knows, KnowsRows, Whole
  <2>7. KnowsJobs(c)'
    BY <1>1, <1>2 DEF Knows, KnowsJobs
  <2>8. WasTold(c)'
    <3>1. answer[c] # None /\ answer[c].kind = "events" => answer[c].job \in Jobs
      BY DEF TypeOK, Answers
    <3>. QED  BY <1>1, <3>1 DEF WasTold, ToldRows, ToldEvents, Whole
  <2>. QED  BY <2>1, <2>2, <2>4, <2>5, <2>6, <2>7, <2>8 DEF Knows
<1>. QED  BY <1>3, <1>4

-----------------------------------------------------------------------------
(* Steps of the handlers *)

\* Others are not disturbed.
Alone(c) ==
    \A d \in Clients : d # c =>
        /\ request'[d] = request[d]
        /\ answer'[d] = answer[d]
        /\ \A pc : Handling(d, pc)' <=> Handling(d, pc)
        /\ Creating(d)' <=> Creating(d)

After(c, pc, x) ==
    /\ request'[c].pc = pc /\ request'[c].x = x
    /\ request'[c].op = request[c].op /\ request'[c].job = request[c].job
    /\ \A p : Handling(c, p)' => p = pc
    /\ answer' = answer

Answered(c, response) ==
    /\ answer'[c] = response
    /\ \A p : ~Handling(c, p)'
    /\ ~Creating(c)'

LEMMA AfterProceed ==
    ASSUME TypeOK, NEW c \in Clients, NEW p, Handling(c, p), NEW pc, NEW x, Proceed(c, pc, x)
    PROVE  Alone(c) /\ After(c, pc, x)
<1>1. request[c] \in Requests /\ DOMAIN request = Clients
  BY DEF TypeOK, Handling
<1>2. DOMAIN request[c] = {"op", "job", "pc", "x"}
  BY <1>1 DEF Requests, OnJob
<1>3. \A d \in Clients : d # c => request'[d] = request[d] /\ answer'[d] = answer[d]
  BY <1>1 DEF Proceed
<1>4. request'[c] = [request[c] EXCEPT !.pc = pc, !.x = x]
  BY <1>1 DEF Proceed
<1>5. /\ request'[c].pc = pc /\ request'[c].x = x
      /\ request'[c].op = request[c].op /\ request'[c].job = request[c].job
  BY <1>2, <1>4
<1>. QED  BY <1>3, <1>5 DEF Alone, After, Handling, Creating, Proceed

LEMMA AfterRespond ==
    ASSUME TypeOK, NEW c \in Clients, NEW response, Respond(c, response)
    PROVE  Alone(c) /\ Answered(c, response)
BY DEF TypeOK, Respond, Alone, Answered, Handling, Creating

LEMMA AfterAsk ==
    ASSUME TypeOK, NEW c \in Clients, Request(c)
    PROVE  /\ Alone(c)
           /\ answer'[c] = None
           /\ \A p : Handling(c, p)' => p \in {"next_id", "lock benchmarks", "get_job"}
           /\ ~Creating(c)'
           /\ UNCHANGED <<registryVars, jobVars, worker>>
<1>1. PICK pc \in {"next_id", "lock benchmarks", "get_job"} : \E op, j : Ask(c, op, j, pc)
  BY DEF Request
<1>2. PICK op, j : Ask(c, op, j, pc)
  BY <1>1
<1>3. UNCHANGED <<registryVars, jobVars, worker>>
  BY <1>2 DEF Ask
<1>4. DOMAIN request = Clients /\ DOMAIN answer = Clients
  BY DEF TypeOK
<1>5. /\ request'[c].pc = pc
      /\ \A d \in Clients : d # c => request'[d] = request[d] /\ answer'[d] = answer[d]
      /\ answer'[c] = None
  BY <1>2, <1>4 DEF Ask
<1>. QED  BY <1>3, <1>5 DEF Alone, Handling, Creating


\* What a step of a handler may not do to the others.
Mild(c) ==
    /\ Alone(c)
    /\ UNCHANGED <<status, events, result>>
    /\ counter =< counter'
    /\ benchmarks \subseteq benchmarks'
    /\ Range(bench_order) \subseteq Range(bench_order')
    /\ Creating(c)' => \/ request'[c].job > counter
                       \/ Creating(c) /\ request'[c].job = request[c].job
    /\ \A d \in Clients : d # c =>
          /\ Listing(d) => UNCHANGED <<benchmarks, bench_order>>
          /\ benchmarks_lock = d => benchmarks_lock' = d
          /\ order_lock = d => order_lock' = d
          /\ \A j \in Jobs : events_lock[j] = d => events_lock'[j] = d
          /\ Creating(d) => worker'[request[d].job] = worker[request[d].job]

LEMMA OthersKept ==
    ASSUME IInv, NEW c \in Clients, counter' \in Nat, Mild(c), NEW d \in Clients, d # c
    PROVE  OfClient(d)'
<1>1. OfClient(d) /\ OfClient(c) /\ counter \in Nat /\ TypeOK
  BY DEF IInv, TypeOK
<1>2. /\ request'[d] = request[d] /\ answer'[d] = answer[d]
      /\ \A pc : Handling(d, pc)' <=> Handling(d, pc)
      /\ \A e \in Clients : e # c => (Creating(e)' <=> Creating(e)) /\ request'[e] = request[e]
      /\ Listing(d)' <=> Listing(d)
  BY DEF Mild, Alone, Listing
<1>3. UNCHANGED <<status, events>>
  BY DEF Mild
<1>4. Holds(d)'
  <2>1. /\ benchmarks_lock = d => benchmarks_lock' = d
        /\ order_lock = d => order_lock' = d
        /\ \A j \in Jobs : events_lock[j] = d => events_lock'[j] = d
    BY DEF Mild
  <2>2. Handling(d, "events status") => request[d].job \in Jobs
    BY <1>1, Handlers
  <2>. QED  BY <1>1, <1>2, <2>1, <2>2 DEF OfClient, Holds
<1>5. Creates(d)'
  <2>1. CASE ~Creating(d)
    BY <1>2, <2>1 DEF Creates
  <2>2. CASE Creating(d)
    <3>1. /\ request[d].job =< counter /\ request[d].job \in Jobs
          /\ worker[request[d].job].pc = "not spawned"
          /\ request[d].pc # "insert" => request[d].job \in benchmarks
          /\ request[d].pc = "spawn" => request[d].job \in Range(bench_order)
          /\ \A e \in Clients : Creating(e) /\ request[e].job = request[d].job => e = d
      BY <1>1, <2>2, Handlers DEF OfClient, Creates
    <3>2. request[d].job \in Nat /\ request[d].job =< counter
      BY <3>1, JobsAreNumbers
    <3>3. ASSUME Creating(c)', request'[c].job = request[d].job
          PROVE  FALSE
      <4>1. ~(request'[c].job > counter)
        BY <1>1, <3>2, <3>3
      <4>2. Creating(c) /\ request[c].job = request[d].job
        BY <3>3, <4>1 DEF Mild
      <4>. QED  BY <3>1, <4>2
    <3>6. request[d].job =< counter'
      <4>1. counter =< counter'
        BY DEF Mild
      <4>. QED  BY <1>1, <3>2, <4>1
    <3>4. /\ worker'[request[d].job].pc = "not spawned"
          /\ request[d].pc # "insert" => request[d].job \in benchmarks'
          /\ request[d].pc = "spawn" => request[d].job \in Range(bench_order')
      BY <2>2, <3>1 DEF Mild
    <3>5. \A e \in Clients : Creating(e)' /\ request'[e].job = request[d].job => e = d
      BY <1>2, <3>1, <3>3
    <3>. QED  BY <1>2, <3>4, <3>5, <3>6 DEF Creates
  <2>. QED  BY <2>1, <2>2
<1>6. KnowsSummary(d)' /\ KnowsEvents(d)' /\ KnowsRows(d)'
  BY <1>1, <1>2, <1>3 DEF OfClient, Knows, KnowsSummary, KnowsEvents, KnowsRows, StillSo, Whole
<1>7. KnowsJobs(d)'
  BY <1>1, <1>2 DEF OfClient, Knows, KnowsJobs, Mild
<1>8. WasTold(d)'
  BY <1>1, <1>2, <1>3 DEF OfClient, WasTold, ToldRows, ToldEvents, Whole
<1>. QED  BY <1>4, <1>5, <1>6, <1>7, <1>8 DEF OfClient, Knows

\* Handlers other than those that spawn a thread or cancel a job leave the jobs alone.
LEMMA ProgressKept ==
    ASSUME Progress, UNCHANGED <<worker, status, result>>,
           \A j \in Jobs : cancel[j] => cancel'[j]
    PROVE  Progress'
BY DEF Progress

LEMMA RegisteredKept ==
    ASSUME TypeOK, Registered, UNCHANGED worker, counter' \in Nat, NEW c, Mild(c)
    PROVE  Registered'
<1>1. Announced' = Announced
  BY DEF Announced
<1>2. \A j \in Jobs : j =< counter => j =< counter'
  BY DEF TypeOK, Mild, Jobs
<1>3. Announced \subseteq Jobs
  BY DEF Announced
<1>. QED  BY <1>1, <1>2, <1>3 DEF Registered, Mild

\* What is left to show of a step that changes no registry, and of one that disturbs nobody.
LEMMA StepIInv ==
    ASSUME IInv, TypeOK', NEW c \in Clients, Mild(c), UNCHANGED <<worker, status, result>>,
           \A j \in Jobs : cancel[j] => cancel'[j], OfClient(c)'
    PROVE  IInv'
<1>1. TypeOK /\ Progress /\ Registered /\ counter' \in Nat
  BY DEF IInv, TypeOK
<1>2. Progress' /\ Registered'
  BY <1>1, ProgressKept, RegisteredKept
<1>3. \A d \in Clients : OfClient(d)'
  BY <1>1, OthersKept
<1>. QED  BY <1>2, <1>3 DEF IInv

LEMMA CalmIInv ==
    ASSUME IInv, TypeOK', NEW c \in Clients, Alone(c), ~Creating(c)',
           UNCHANGED <<counter, benchmarks, bench_order, status, events, result, worker>>,
           \A d \in Clients : d # c =>
              /\ benchmarks_lock = d => benchmarks_lock' = d
              /\ order_lock = d => order_lock' = d
              /\ \A j \in Jobs : events_lock[j] = d => events_lock'[j] = d,
           \A j \in Jobs : cancel[j] => cancel'[j], OfClient(c)'
    PROVE  IInv'
<1>1. counter \in Nat /\ counter =< counter
  BY DEF IInv, TypeOK
<1>2. Mild(c)
  BY <1>1 DEF Mild
<1>. QED  BY <1>2, StepIInv

\* What an answered request leaves to show.
LEMMA AnsweredClient ==
    ASSUME NEW c \in Clients, NEW response, Answered(c, response),
           response # None /\ response.kind = "jobs" =>
              \A i \in DOMAIN response.rows : Whole(response.rows[i]),
           response # None /\ response.kind = "events" /\ response.status # "running" =>
              status'[response.job] # "running" /\ response.upto = Len(events'[response.job])
    PROVE  OfClient(c)' /\ ~Creating(c)'
<1>1. \A p : ~Handling(c, p)'
  BY DEF Answered
<1>2. /\ ~Creating(c)' /\ ~Listing(c)' /\ ~Handling(c, "lock order")'
      /\ ~Handling(c, "events status")'
      /\ ~Handling(c, "summary")' /\ ~Handling(c, "summary result")'
      /\ ~Handling(c, "list")' /\ ~Handling(c, "list result")'
  BY <1>1 DEF Answered, Listing
<1>3. WasTold(c)'
  BY DEF Answered, WasTold, ToldRows, ToldEvents
<1>. QED
  BY <1>2, <1>3 DEF OfClient, Holds, Creates, Knows, KnowsSummary, KnowsEvents, KnowsRows, KnowsJobs

LEMMA RequestIInv ==
    ASSUME IInv, NEW c \in Clients, Request(c)
    PROVE  IInv'
<1>1. /\ Alone(c) /\ answer'[c] = None
      /\ \A p : Handling(c, p)' => p \in {"next_id", "lock benchmarks", "get_job"}
      /\ ~Creating(c)'
      /\ UNCHANGED <<registryVars, jobVars, worker>>
  BY AfterAsk DEF IInv
<1>2. TypeOK'
  BY AskTypeOK DEF IInv
<1>3. UNCHANGED <<counter, benchmarks, bench_order, benchmarks_lock, order_lock, status, events,
                  result, cancel, events_lock, worker>>
  BY <1>1 DEF registryVars, jobVars
<1>4. /\ ~Handling(c, "lock order")'
      /\ ~Handling(c, "events status")'
      /\ ~Handling(c, "summary")' /\ ~Handling(c, "summary result")'
      /\ ~Handling(c, "list")' /\ ~Handling(c, "list result")'
      /\ ~Listing(c)'
  <2>1. \A p \in {"lock order", "events status", "summary", "summary result", "list",
                  "list result"} : ~Handling(c, p)'
    BY <1>1
  <2>. QED  BY <2>1 DEF Listing
<1>5. OfClient(c)'
  BY <1>1, <1>4 DEF OfClient, Holds, Creates, Knows, KnowsSummary, KnowsEvents, KnowsRows,
                    KnowsJobs, WasTold
<1>. QED  BY <1>1, <1>2, <1>3, <1>5, CalmIInv

LEMMA ReadIInv ==
    ASSUME IInv, NEW c \in Clients,
           \/ get_job(c) \/ SummaryStatus(c) \/ SummaryResult(c)
           \/ cancel_benchmark(c) \/ download(c)
    PROVE  IInv'
<1>0. TypeOK /\ TypeOK' /\ OfClient(c) /\ Progress
  BY HandleTypeOK DEF Handle, IInv
<1>1. UNCHANGED <<counter, benchmarks, bench_order, benchmarks_lock, order_lock, status, events,
                  result, events_lock, worker>>
  BY DEF get_job, SummaryStatus, SummaryResult, cancel_benchmark, download, registryVars, jobVars
<1>2. \A j \in Jobs : cancel[j] => cancel'[j]
  <2>1. CASE UNCHANGED cancel
    BY <2>1
  <2>2. CASE cancel_benchmark(c)
    BY <1>0, <2>2 DEF cancel_benchmark, TypeOK
  <2>. QED
    BY <2>1, <2>2 DEF get_job, SummaryStatus, SummaryResult, download, jobVars
<1>3. SUFFICES Alone(c) /\ ~Creating(c)' /\ OfClient(c)'
  BY <1>0, <1>1, <1>2, CalmIInv
<1>4. CASE get_job(c)
  <2>1. request[c].op \in Operations
    BY <1>0, <1>4, Handlers, RequestStates DEF get_job
  <2>2. CASE request[c].job \in benchmarks
    <3>1. Alone(c) /\ After(c, request[c].op, None)
      BY <1>0, <1>4, <2>2, AfterProceed DEF get_job
    <3>2. \A p \in {"insert", "order", "spawn", "lock order", "list", "list result",
                    "events status", "summary result"} : ~Handling(c, p)'
      BY <2>1, <3>1 DEF After, Operations
    <3>5. Handling(c, "summary")' => request'[c].op = "summary"
      BY <3>1 DEF After
    <3>3. ~Creating(c)' /\ ~Listing(c)'
      BY <3>2 DEF Creating, Listing
    <3>4. WasTold(c)'
      BY <1>0, <1>1, <3>1 DEF After, OfClient, WasTold, ToldRows, ToldEvents, Whole
    <3>. QED
      BY <3>1, <3>2, <3>3, <3>4, <3>5
         DEF OfClient, Holds, Creates, Knows, KnowsSummary, KnowsEvents, KnowsRows, KnowsJobs
  <2>3. CASE request[c].job \notin benchmarks
    <3>1. Alone(c) /\ Answered(c, [kind |-> "not found", job |-> request[c].job])
      BY <1>0, <1>4, <2>3, AfterRespond DEF get_job
    <3>. QED  BY <3>1, AnsweredClient
  <2>. QED  BY <2>2, <2>3
<1>5. CASE SummaryStatus(c)
  <2>1. Alone(c) /\ After(c, "summary result", status[request[c].job])
    BY <1>0, <1>5, AfterProceed DEF SummaryStatus
  <2>2. \A p \in {"insert", "order", "spawn", "lock order", "list", "list result",
                  "events status", "summary"} : ~Handling(c, p)'
    BY <2>1 DEF After
  <2>3. ~Creating(c)' /\ ~Listing(c)'
    BY <2>2 DEF Creating, Listing
  <2>4. KnowsSummary(c)'
    <3>1. request[c].op = "summary"
      BY <1>0, <1>5 DEF SummaryStatus, OfClient, Knows, KnowsSummary
    <3>. QED  BY <1>1, <2>1, <3>1 DEF After, KnowsSummary, StillSo
  <2>5. WasTold(c)'
    BY <1>0, <1>1, <2>1 DEF After, OfClient, WasTold, ToldRows, ToldEvents, Whole
  <2>. QED
    BY <2>1, <2>2, <2>3, <2>4, <2>5 DEF OfClient, Holds, Creates, Knows, KnowsEvents,
                                        KnowsRows, KnowsJobs
<1>6. CASE SummaryResult(c)
  <2>. DEFINE j == request[c].job
              row == Row(j, request[c].x, result[j])
              response == [kind |-> "jobs", rows |-> <<row>>]
  <2>1. Alone(c) /\ Answered(c, response)
    BY <1>0, <1>6, AfterRespond DEF SummaryResult
  <2>2. j \in Jobs /\ StillSo(request[c].x, j) /\ request[c].x \in Status
    BY <1>0, <1>6, Handlers, RequestStates DEF SummaryResult, OfClient, Knows, KnowsSummary
  <2>3. Whole(row)
    <3>1. request[c].x # "running" => result[j] # None /\ Agree(status[j], result[j])
      BY <1>0, <2>2 DEF StillSo, Progress
    <3>2. row.status = request[c].x /\ row.result = result[j]
      BY DEF Row
    <3>. HIDE DEF row
    <3>. QED  BY <2>2, <3>1, <3>2 DEF Whole, StillSo
  <2>4. response.kind = "jobs" /\ \A i \in DOMAIN response.rows : Whole(response.rows[i])
    BY <2>3
  <2>. HIDE DEF response
  <2>. QED  BY <2>1, <2>4, AnsweredClient
<1>7. CASE cancel_benchmark(c)
  <2>1. Alone(c) /\ Answered(c, [kind |-> "cancelling", job |-> request[c].job])
    BY <1>0, <1>7, AfterRespond DEF cancel_benchmark
  <2>. QED  BY <2>1, AnsweredClient
<1>8. CASE download(c)
  <2>. DEFINE j == request[c].job
              response == IF result[j] = None
                          THEN [kind |-> "still running", job |-> j]
                          ELSE [kind |-> "file", job |-> j, result |-> result[j]]
  <2>1. response.kind \in {"still running", "file"} /\ Respond(c, response)
    BY <1>8 DEF download
  <2>. HIDE DEF response
  <2>2. Alone(c) /\ Answered(c, response)
    BY <1>0, <2>1, AfterRespond
  <2>. QED  BY <2>1, <2>2, AnsweredClient
<1>. QED  BY <1>4, <1>5, <1>6, <1>7, <1>8
\* What is left to show of a handler that goes on creating its job.
LEMMA CreatingOn ==
    ASSUME IInv, TypeOK', NEW c \in Clients, Creating(c), Alone(c),
           NEW pc \in {"order", "spawn"}, After(c, pc, None),
           UNCHANGED <<counter, benchmarks_lock, order_lock, jobVars, worker>>,
           benchmarks \subseteq benchmarks', Range(bench_order) \subseteq Range(bench_order'),
           \A d \in Clients : ~Listing(d) \/ UNCHANGED <<benchmarks, bench_order>>,
           request[c].job \in benchmarks',
           pc = "spawn" => request[c].job \in Range(bench_order')
    PROVE  IInv'
<1>0. TypeOK /\ OfClient(c) /\ counter \in Nat
  BY DEF IInv, TypeOK
<1>1. UNCHANGED <<status, events, result, cancel, events_lock>>
  BY DEF jobVars
<1>2. /\ request'[c].pc = pc /\ request'[c].job = request[c].job
      /\ \A p : Handling(c, p)' => p = pc
      /\ answer' = answer
  BY DEF After
<1>3. Mild(c)
  BY <1>0, <1>1, <1>2 DEF Mild
<1>4. Creates(c)'
  <2>1. /\ request[c].job =< counter
        /\ worker[request[c].job].pc = "not spawned"
        /\ \A d \in Clients : Creating(d) /\ request[d].job = request[c].job => d = c
    BY <1>0 DEF OfClient, Creates
  <2>2. \A d \in Clients : Creating(d)' /\ request'[d].job = request[c].job => d = c
    BY <2>1 DEF Alone
  <2>. QED  BY <1>2, <2>1, <2>2 DEF Creates
<1>5. \A p \in {"lock order", "list", "list result", "events status", "summary",
                "summary result"} : ~Handling(c, p)'
  BY <1>2
<1>6. WasTold(c)'
  BY <1>0, <1>1, <1>2 DEF OfClient, WasTold, ToldRows, ToldEvents, Whole
<1>7. OfClient(c)'
  BY <1>4, <1>5, <1>6 DEF OfClient, Holds, Listing, Knows, KnowsSummary, KnowsEvents, KnowsRows,
                          KnowsJobs
<1>. QED  BY <1>1, <1>3, <1>7, StepIInv

LEMMA CreateIInv ==
    ASSUME IInv, NEW c \in Clients,
           next_id(c) \/ InsertJob(c) \/ PushOrder(c) \/ SpawnThread(c)
    PROVE  IInv'
<1>0. /\ TypeOK /\ TypeOK' /\ Progress /\ Registered /\ counter \in Nat
      /\ \A d \in Clients : OfClient(d)
  BY HandleTypeOK DEF Handle, IInv, TypeOK
<1>. DEFINE j == request[c].job
<1>1. CASE next_id(c)
  <2>1. UNCHANGED <<benchmarks, bench_order, benchmarks_lock, order_lock, status, events, result,
                    cancel, events_lock, worker>>
    BY <1>1 DEF next_id
  <2>2. CASE counter < MaxJobs
    <3>1. /\ counter' = counter + 1 /\ answer' = answer
          /\ request' = [request EXCEPT ![c] = [@ EXCEPT !.pc = "insert", !.job = counter + 1]]
      BY <1>1, <2>2 DEF next_id
    <3>2. request[c] \in Requests /\ DOMAIN request = Clients
      BY <1>0, <1>1, Handlers DEF next_id, TypeOK
    <3>3. request'[c].pc = "insert" /\ request'[c].job = counter + 1
      BY <3>1, <3>2 DEF Requests, OnJob
    <3>4. Alone(c)
      BY <3>1, <3>2 DEF Alone, Handling, Creating
    <3>5. Mild(c)
      BY <1>0, <2>1, <3>1, <3>3, <3>4 DEF Mild
    <3>6. Creates(c)'
      <4>1. counter + 1 \in Jobs
        BY <1>0, <2>2, JobsAreNumbers
      <4>2. worker[counter + 1].pc = "not spawned"
        <5>1. counter + 1 \notin Announced
          BY <1>0 DEF Registered
        <5>. QED  BY <4>1, <5>1 DEF Announced
      <4>3. ASSUME NEW d \in Clients, Creating(d)', request'[d].job = counter + 1
            PROVE  d = c
        <5>1. CASE d = c
          BY <5>1
        <5>2. CASE d # c
          <6>1. Creating(d) /\ request[d].job = counter + 1
            BY <3>4, <4>3, <5>2 DEF Alone
          <6>2. counter + 1 =< counter
            BY <1>0, <6>1 DEF OfClient, Creates
          <6>. QED  BY <1>0, <6>2
        <5>. QED  BY <5>1, <5>2
      <4>4. counter' = counter + 1 /\ counter \in Nat
        BY <1>0, <3>1
      <4>5. counter + 1 =< counter'
        BY <4>4
      <4>6. worker'[counter + 1].pc = "not spawned"
        BY <2>1, <4>2
      <4>. QED  BY <3>3, <4>3, <4>5, <4>6 DEF Creates
    <3>7. \A p \in {"lock order", "list", "list result", "events status", "summary",
                    "summary result"} : ~Handling(c, p)'
      BY <3>3 DEF Handling
    <3>8. WasTold(c)'
      BY <1>0, <2>1, <3>1 DEF OfClient, WasTold, ToldRows, ToldEvents, Whole
    <3>9. OfClient(c)'
      BY <3>6, <3>7, <3>8 DEF OfClient, Holds, Listing, Knows, KnowsSummary, KnowsEvents,
                              KnowsRows, KnowsJobs
    <3>. QED  BY <1>0, <2>1, <3>5, <3>9, StepIInv
  <2>3. CASE ~(counter < MaxJobs)
    <3>1. Respond(c, None) /\ UNCHANGED counter
      BY <1>1, <2>3 DEF next_id
    <3>2. Alone(c) /\ Answered(c, None)
      BY <1>0, <3>1, AfterRespond
    <3>3. OfClient(c)' /\ ~Creating(c)'
      BY <3>2, AnsweredClient
    <3>. QED  BY <1>0, <2>1, <3>1, <3>2, <3>3, CalmIInv
  <2>. QED  BY <2>2, <2>3
<1>2. CASE InsertJob(c)
  <2>1. /\ UNCHANGED <<counter, bench_order, benchmarks_lock, order_lock, jobVars, worker>>
        /\ benchmarks' = benchmarks \union {j} /\ benchmarks_lock = None
        /\ Handling(c, "insert") /\ Proceed(c, "order", None)
    BY <1>2 DEF InsertJob
  <2>2. Alone(c) /\ After(c, "order", None) /\ Creating(c)
    BY <1>0, <2>1, AfterProceed DEF Creating
  <2>3. \A d \in Clients : ~Listing(d)
    BY <1>0, <2>1, NoneAssumption DEF OfClient, Holds
  <2>. QED  BY <1>0, <2>1, <2>2, <2>3, CreatingOn
<1>3. CASE PushOrder(c)
  <2>1. /\ UNCHANGED <<counter, benchmarks, benchmarks_lock, order_lock, jobVars, worker>>
        /\ bench_order' = Append(bench_order, j) /\ order_lock = None
        /\ Handling(c, "order") /\ Proceed(c, "spawn", None)
    BY <1>3 DEF PushOrder
  <2>2. Alone(c) /\ After(c, "spawn", None) /\ Creating(c)
    BY <1>0, <2>1, AfterProceed DEF Creating
  <2>3. \A d \in Clients : ~Listing(d)
    BY <1>0, <2>1, NoneAssumption DEF OfClient, Holds
  <2>4. j \in Jobs /\ j \in benchmarks
    BY <1>0, <2>1, <2>2, Handlers DEF OfClient, Creates, Handling
  <2>5. Range(bench_order) \subseteq Range(bench_order') /\ j \in Range(bench_order')
    <3>1. bench_order \in Seq(Jobs)
      BY <1>0 DEF TypeOK
    <3>. QED  BY <2>1, <2>4, <3>1, AppendProperties DEF Range
  <2>. QED  BY <1>0, <2>1, <2>2, <2>3, <2>4, <2>5, CreatingOn
<1>4. CASE SpawnThread(c)
  <2>1. /\ UNCHANGED <<registryVars, jobVars>>
        /\ worker' = [worker EXCEPT ![j] = [pc |-> "spawned", x |-> None]]
        /\ Handling(c, "spawn")
        /\ Respond(c, [kind |-> "created", job |-> j])
    BY <1>4 DEF SpawnThread, GoTo
  <2>2. UNCHANGED <<counter, benchmarks, bench_order, benchmarks_lock, order_lock, status, events,
                    result, cancel, events_lock>>
    BY <2>1 DEF registryVars, jobVars
  <2>3. Alone(c) /\ Answered(c, [kind |-> "created", job |-> j])
    BY <1>0, <2>1, AfterRespond
  <2>4. OfClient(c)' /\ ~Creating(c)'
    BY <2>3, AnsweredClient
  <2>5. /\ j \in Jobs /\ j =< counter /\ j \in benchmarks /\ j \in Range(bench_order)
        /\ worker[j].pc = "not spawned"
        /\ \A d \in Clients : Creating(d) /\ request[d].job = j => d = c
    BY <1>0, <2>1, Handlers DEF OfClient, Creates, Creating, Handling
  <2>6. DOMAIN worker = Jobs
    BY <1>0 DEF TypeOK
  <2>7. Mild(c)
    <3>1. ASSUME NEW d \in Clients, d # c, Creating(d)
          PROVE  worker'[request[d].job] = worker[request[d].job]
      <4>1. request[d].job \in Jobs /\ request[d].job # j
        BY <1>0, <2>5, <3>1, Handlers
      <4>. QED  BY <2>1, <2>6, <4>1
    <3>2. counter =< counter
      BY <1>0
    <3>. QED  BY <2>2, <2>3, <2>4, <3>1, <3>2 DEF Mild
  <2>8. \A d \in Clients : OfClient(d)'
    BY <1>0, <2>2, <2>4, <2>7, OthersKept
  <2>9. Progress'
    <3>1. worker'[j].pc = "spawned" /\ \A i \in Jobs : i # j => worker'[i] = worker[i]
      BY <2>1, <2>5, <2>6
    <3>2. status[j] = "running" /\ result[j] = None
      BY <1>0, <2>5 DEF Progress
    <3>. QED  BY <1>0, <2>2, <3>1, <3>2 DEF Progress
  <2>10. Registered'
    <3>1. Announced' \subseteq Announced \union {j}
      BY <2>1, <2>6 DEF Announced
    <3>. QED  BY <1>0, <2>2, <2>5, <3>1 DEF Registered
  <2>. QED  BY <1>0, <2>8, <2>9, <2>10 DEF IInv
<1>. QED  BY <1>1, <1>2, <1>3, <1>4

LEMMA HeadAndTail ==
    ASSUME NEW S, NEW s \in Seq(S), s # <<>>
    PROVE  Range(s) \subseteq {Head(s)} \union Range(Tail(s))
<1>1. /\ Len(s) \in Nat /\ DOMAIN s = 1..Len(s)
      /\ DOMAIN Tail(s) = 1..Len(s) - 1 /\ Len(s) >= 1
      /\ \A i \in 1..Len(s) - 1 : Tail(s)[i] = s[i + 1]
      /\ Head(s) = s[1]
  BY HeadTailProperties, LenProperties
<1>2. ASSUME NEW i \in 1..Len(s), i # 1
      PROVE  s[i] \in Range(Tail(s))
  <2>1. i - 1 \in 1..Len(s) - 1 /\ Tail(s)[i - 1] = s[i]
    BY <1>1, <1>2
  <2>. QED  BY <1>1, <2>1 DEF Range
<1>. QED  BY <1>1, <1>2 DEF Range

\* What is left to show of a handler that goes on with its list.
LEMMA ListingOn ==
    ASSUME IInv, TypeOK', NEW c \in Clients, Alone(c),
           NEW pc \in {"list", "list result"}, NEW x, After(c, pc, x),
           UNCHANGED <<counter, benchmarks, bench_order, jobVars, worker>>,
           benchmarks_lock' = c, order_lock' = c,
           \A d \in Clients : d # c => benchmarks_lock # d /\ order_lock # d,
           \A i \in DOMAIN x.rows :
              IF pc = "list result" /\ i = Len(x.rows)
              THEN StillSo(x.rows[i].status, x.rows[i].job)
              ELSE Whole(x.rows[i]),
           pc = "list result" => Len(x.rows) \in DOMAIN x.rows,
           \A j \in benchmarks \intersect Range(bench_order) :
              \/ j \in Range(x.left)
              \/ \E k \in DOMAIN x.rows : x.rows[k].job = j
    PROVE  IInv'
<1>0. TypeOK /\ OfClient(c)
  BY DEF IInv
<1>1. UNCHANGED <<status, events, result, cancel, events_lock>>
  BY DEF jobVars
<1>2. /\ request'[c].pc = pc /\ request'[c].x = x
      /\ \A p : Handling(c, p)' => p = pc
      /\ answer' = answer
  BY DEF After
<1>3. \A p \in {"insert", "order", "spawn", "lock order", "events status", "summary",
                "summary result"} : ~Handling(c, p)'
  BY <1>2
<1>4. KnowsRows(c)'
  <2>1. CASE pc = "list"
    BY <1>2, <2>1 DEF KnowsRows, Whole
  <2>2. CASE pc = "list result"
    BY <1>1, <1>2, <2>2 DEF KnowsRows, Whole, StillSo
  <2>. QED  BY <2>1, <2>2
<1>5. KnowsJobs(c)'
  BY <1>2 DEF KnowsJobs
<1>6. WasTold(c)'
  BY <1>0, <1>1, <1>2 DEF OfClient, WasTold, ToldRows, ToldEvents, Whole
<1>7. OfClient(c)' /\ ~Creating(c)'
  BY <1>3, <1>4, <1>5, <1>6 DEF OfClient, Holds, Creates, Creating, Knows, KnowsSummary, KnowsEvents
<1>. QED  BY <1>1, <1>7, CalmIInv

LEMMA ListIInv ==
    ASSUME IInv, NEW c \in Clients,
           \/ ListLockBenchmarks(c) \/ ListLockOrder(c) \/ ListStatus(c)
           \/ ListResult(c) \/ ListAnswer(c)
    PROVE  IInv'
<1>0. TypeOK /\ TypeOK' /\ Progress /\ OfClient(c)
  BY HandleTypeOK DEF Handle, IInv
<1>. DEFINE x == request[c].x
            rows == x.rows
            j == Head(x.left)
<1>1. CASE ListLockBenchmarks(c)
  <2>1. /\ UNCHANGED <<counter, benchmarks, bench_order, order_lock, jobVars, worker>>
        /\ benchmarks_lock = None /\ benchmarks_lock' = c
        /\ Handling(c, "lock benchmarks") /\ Proceed(c, "lock order", None)
    BY <1>1 DEF ListLockBenchmarks
  <2>2. UNCHANGED <<status, events, result, cancel, events_lock>>
    BY <2>1 DEF jobVars
  <2>3. Alone(c) /\ After(c, "lock order", None)
    BY <1>0, <2>1, AfterProceed
  <2>4. \A p \in {"insert", "order", "spawn", "list", "list result", "events status", "summary",
                  "summary result"} : ~Handling(c, p)'
    BY <2>3 DEF After
  <2>5. WasTold(c)'
    BY <1>0, <2>2, <2>3 DEF After, OfClient, WasTold, ToldRows, ToldEvents, Whole
  <2>6. OfClient(c)' /\ ~Creating(c)'
    BY <2>1, <2>4, <2>5 DEF OfClient, Holds, Listing, Creates, Creating, Knows, KnowsSummary,
                            KnowsEvents, KnowsRows, KnowsJobs
  <2>7. \A d \in Clients : benchmarks_lock # d
    BY <2>1, NoneAssumption
  <2>. QED  BY <1>0, <2>1, <2>2, <2>3, <2>6, <2>7, CalmIInv
<1>2. CASE ListLockOrder(c)
  <2>. DEFINE new == [left |-> Reverse(bench_order), rows |-> <<>>]
  <2>1. /\ UNCHANGED <<counter, benchmarks, bench_order, benchmarks_lock, jobVars, worker>>
        /\ order_lock = None /\ order_lock' = c
        /\ Handling(c, "lock order") /\ Proceed(c, "list", new)
    BY <1>2 DEF ListLockOrder
  <2>2. Alone(c) /\ After(c, "list", new)
    BY <1>0, <2>1, AfterProceed
  <2>3. benchmarks_lock = c
    BY <1>0, <2>1 DEF OfClient, Holds
  <2>4. Range(bench_order) \subseteq Range(Reverse(bench_order))
    BY <1>0, ReversedSeq DEF TypeOK
  <2>5. \A d \in Clients : order_lock # d
    BY <2>1, NoneAssumption
  <2>6. new.left = Reverse(bench_order) /\ DOMAIN new.rows = {}
    OBVIOUS
  <2>. HIDE DEF new
  <2>. QED  BY <1>0, <2>1, <2>2, <2>3, <2>4, <2>5, <2>6, ListingOn
<1>3. CASE ListStatus(c)
  <2>1. /\ UNCHANGED <<registryVars, jobVars, worker>>
        /\ Handling(c, "list") /\ x.left # <<>>
    BY <1>3 DEF ListStatus
  <2>2. /\ UNCHANGED <<counter, benchmarks, bench_order>>
        /\ benchmarks_lock' = c /\ order_lock' = c /\ benchmarks_lock = c /\ order_lock = c
    BY <1>0, <2>1 DEF registryVars, OfClient, Holds, Listing
  <2>3. x \in Lists /\ x.left \in Seq(Jobs) /\ rows \in Seq(Rows)
    BY <1>0, <2>1, Handlers DEF Lists
  <2>4. /\ \A i \in DOMAIN rows : Whole(rows[i])
        /\ \A i \in benchmarks \intersect Range(bench_order) :
              i \in Range(x.left) \/ \E k \in DOMAIN rows : rows[k].job = i
    BY <1>0, <2>1 DEF OfClient, Knows, KnowsRows, KnowsJobs, Listing
  <2>5. CASE j \in benchmarks
    <3>. DEFINE row == Row(j, status[j], None)
                new == [x EXCEPT !.rows = Append(@, row)]
    <3>1. Proceed(c, "list result", new)
      BY <1>3, <2>5 DEF ListStatus
    <3>2. Alone(c) /\ After(c, "list result", new)
      BY <1>0, <2>1, <3>1, AfterProceed
    <3>3. new.left = x.left /\ new.rows = Append(rows, row)
      BY <2>3 DEF Lists
    <3>4. row \in Rows /\ row.status = status[j] /\ row.job = j
      <4>1. j \in Jobs
        BY <2>1, <2>3, ListSteps
      <4>. QED  BY <1>0, <4>1 DEF Row, Rows, TypeOK
    <3>. HIDE DEF new, row
    <3>5. /\ Len(rows) \in Nat /\ DOMAIN rows = 1..Len(rows)
          /\ Len(new.rows) = Len(rows) + 1 /\ DOMAIN new.rows = 1..Len(rows) + 1
          /\ \A i \in 1..Len(rows) : new.rows[i] = rows[i]
          /\ new.rows[Len(rows) + 1] = row
      BY <2>3, <3>3, <3>4, AppendProperties, LenProperties, SMTT(30)
    <3>6. \A i \in DOMAIN new.rows : IF i = Len(new.rows)
                                     THEN StillSo(new.rows[i].status, new.rows[i].job)
                                     ELSE Whole(new.rows[i])
      <4>1. StillSo(row.status, row.job)
        BY <3>4 DEF StillSo
      <4>2. ASSUME NEW i \in 1..Len(rows)
            PROVE  i # Len(new.rows) /\ new.rows[i] = rows[i] /\ i \in DOMAIN rows
        BY <3>5
      <4>3. \A i \in 1..Len(rows) : Whole(new.rows[i])
        BY <2>4, <4>2 DEF Whole
      <4>4. \A i \in DOMAIN new.rows : i = Len(new.rows) \/ i \in 1..Len(rows)
        BY <3>5
      <4>5. new.rows[Len(new.rows)] = row
        BY <3>5
      <4>. QED  BY <4>1, <4>2, <4>3, <4>4, <4>5
    <3>7. Len(new.rows) \in DOMAIN new.rows
      BY <3>5
    <3>8. \A i \in benchmarks \intersect Range(bench_order) :
            i \in Range(new.left) \/ \E k \in DOMAIN new.rows : new.rows[k].job = i
      BY <2>4, <3>3, <3>5
    <3>. QED  BY <1>0, <2>1, <2>2, <3>2, <3>6, <3>7, <3>8, ListingOn
  <2>6. CASE j \notin benchmarks
    <3>. DEFINE new == [x EXCEPT !.left = Tail(@)]
    <3>1. Proceed(c, "list", new)
      BY <1>3, <2>6 DEF ListStatus
    <3>2. Alone(c) /\ After(c, "list", new)
      BY <1>0, <2>1, <3>1, AfterProceed
    <3>3. new.left = Tail(x.left) /\ new.rows = rows
      BY <2>3 DEF Lists
    <3>. HIDE DEF new
    <3>4. \A i \in benchmarks \intersect Range(bench_order) :
            i \in Range(new.left) \/ \E k \in DOMAIN new.rows : new.rows[k].job = i
      BY <2>1, <2>3, <2>4, <2>6, <3>3, HeadAndTail
    <3>. QED  BY <1>0, <2>1, <2>2, <2>4, <3>2, <3>3, <3>4, ListingOn
  <2>. QED  BY <2>5, <2>6
<1>4. CASE ListResult(c)
  <2>. DEFINE last == Len(rows)
              new == [left |-> Tail(x.left),
                      rows |-> [rows EXCEPT ![last].result = result[j]]]
  <2>1. /\ UNCHANGED <<registryVars, jobVars, worker>>
        /\ Handling(c, "list result") /\ Proceed(c, "list", new)
    BY <1>4 DEF ListResult
  <2>2. /\ UNCHANGED <<counter, benchmarks, bench_order>>
        /\ benchmarks_lock' = c /\ order_lock' = c /\ benchmarks_lock = c /\ order_lock = c
    BY <1>0, <2>1 DEF registryVars, OfClient, Holds, Listing
  <2>3. /\ x.left \in Seq(Jobs) /\ x.left # <<>> /\ rows \in Seq(Rows) /\ rows # <<>>
        /\ rows[last].job = j /\ j \in Jobs
    BY <1>0, <2>1, Handlers DEF Lists, Begun
  <2>4. /\ StillSo(rows[last].status, j)
        /\ \A i \in DOMAIN rows : i # last => Whole(rows[i])
        /\ \A i \in benchmarks \intersect Range(bench_order) :
              i \in Range(x.left) \/ \E k \in DOMAIN rows : rows[k].job = i
    BY <1>0, <2>1, <2>3 DEF OfClient, Knows, KnowsRows, KnowsJobs, Listing
  <2>5. Alone(c) /\ After(c, "list", new)
    BY <1>0, <2>1, AfterProceed
  <2>6. last \in DOMAIN rows /\ rows[last] \in Rows
    BY <2>3, ElementOfSeq, LenProperties
  <2>7. /\ new.left = Tail(x.left) /\ DOMAIN new.rows = DOMAIN rows
        /\ \A i \in DOMAIN rows : i # last => new.rows[i] = rows[i]
        /\ new.rows[last] = [rows[last] EXCEPT !.result = result[j]]
    BY <2>6
  <2>8. /\ new.rows[last].job = j /\ new.rows[last].status = rows[last].status
        /\ new.rows[last].result = result[j]
    BY <2>3, <2>6, <2>7 DEF Rows
  <2>. HIDE DEF new
  <2>9. Whole(new.rows[last])
    <3>1. status[j] # "running" => result[j] # None /\ Agree(status[j], result[j])
      BY <1>0, <2>3 DEF Progress
    <3>. QED  BY <2>4, <2>8, <3>1 DEF Whole, StillSo
  <2>10. \A i \in DOMAIN new.rows : Whole(new.rows[i])
    BY <2>4, <2>7, <2>9
  <2>11. \A i \in benchmarks \intersect Range(bench_order) :
            i \in Range(new.left) \/ \E k \in DOMAIN new.rows : new.rows[k].job = i
    <3>1. ASSUME NEW k \in DOMAIN rows
          PROVE  new.rows[k].job = rows[k].job
      BY <2>3, <2>7, <2>8
    <3>2. Range(x.left) \subseteq {j} \union Range(new.left)
      BY <2>3, <2>7, HeadAndTail
    <3>3. \E k \in DOMAIN new.rows : new.rows[k].job = j
      BY <2>6, <2>7, <2>8
    <3>. QED  BY <2>4, <2>7, <3>1, <3>2, <3>3
  <2>. QED  BY <1>0, <2>1, <2>2, <2>5, <2>10, <2>11, ListingOn
<1>5. CASE ListAnswer(c)
  <2>. DEFINE response == [kind |-> "jobs", rows |-> rows]
  <2>1. /\ UNCHANGED <<counter, benchmarks, bench_order, jobVars, worker>>
        /\ Handling(c, "list") /\ Respond(c, response)
    BY <1>5 DEF ListAnswer
  <2>2. UNCHANGED <<status, events, result, cancel, events_lock>>
    BY <2>1 DEF jobVars
  <2>3. Alone(c) /\ Answered(c, response)
    BY <1>0, <2>1, AfterRespond
  <2>4. \A i \in DOMAIN rows : Whole(rows[i])
    BY <1>0, <2>1 DEF OfClient, Knows, KnowsRows
  <2>5. response.kind = "jobs" /\ response.rows = rows
    OBVIOUS
  <2>. HIDE DEF response
  <2>6. OfClient(c)' /\ ~Creating(c)'
    BY <2>3, <2>4, <2>5, AnsweredClient
  <2>7. benchmarks_lock = c /\ order_lock = c
    BY <1>0, <2>1 DEF OfClient, Holds, Listing
  <2>. QED  BY <1>0, <2>1, <2>2, <2>3, <2>6, <2>7, CalmIInv
<1>. QED  BY <1>1, <1>2, <1>3, <1>4, <1>5

LEMMA EventsIInv ==
    ASSUME IInv, NEW c \in Clients, EventsLock(c) \/ EventsStatus(c)
    PROVE  IInv'
<1>0. TypeOK /\ TypeOK' /\ OfClient(c)
  BY HandleTypeOK DEF Handle, IInv
<1>. DEFINE j == request[c].job
<1>1. UNCHANGED <<counter, benchmarks, bench_order, benchmarks_lock, order_lock, status, events,
                  result, cancel, worker>>
  BY DEF EventsLock, EventsStatus, registryVars
<1>2. CASE EventsLock(c)
  <2>1. /\ Handling(c, "events") /\ events_lock[j] = None
        /\ events_lock' = [events_lock EXCEPT ![j] = c]
        /\ Proceed(c, "events status", Len(events[j]))
    BY <1>2 DEF EventsLock
  <2>2. Alone(c) /\ After(c, "events status", Len(events[j]))
    BY <1>0, <2>1, AfterProceed
  <2>3. j \in Jobs
    BY <1>0, <2>1, Handlers, RequestStates DEF Operations
  <2>4. /\ events_lock'[j] = c
        /\ \A i \in Jobs : i # j => events_lock'[i] = events_lock[i]
    BY <1>0, <2>1, <2>3 DEF TypeOK
  <2>5. \A d \in Clients, i \in Jobs : d # c /\ events_lock[i] = d => events_lock'[i] = d
    BY <2>1, <2>4, NoneAssumption
  <2>6. \A p \in {"insert", "order", "spawn", "lock order", "list", "list result", "summary",
                  "summary result"} : ~Handling(c, p)'
    BY <2>2 DEF After
  <2>7. WasTold(c)'
    BY <1>0, <1>1, <2>2 DEF After, OfClient, WasTold, ToldRows, ToldEvents, Whole
  <2>8. Holds(c)' /\ KnowsEvents(c)'
    BY <1>1, <2>2, <2>4, <2>6 DEF After, Holds, Listing, KnowsEvents
  <2>9. OfClient(c)' /\ ~Creating(c)'
    BY <2>6, <2>7, <2>8 DEF OfClient, Listing, Creates, Creating, Knows, KnowsSummary, KnowsRows,
                            KnowsJobs
  <2>. QED  BY <1>0, <1>1, <2>2, <2>5, <2>9, CalmIInv
<1>3. CASE EventsStatus(c)
  <2>. DEFINE response == [kind |-> "events", job |-> j, status |-> status[j],
                           upto |-> request[c].x]
  <2>1. /\ Handling(c, "events status")
        /\ events_lock' = [events_lock EXCEPT ![j] = None]
        /\ Respond(c, response)
    BY <1>3 DEF EventsStatus
  <2>2. j \in Jobs /\ events_lock[j] = c /\ request[c].x = Len(events[j])
    BY <1>0, <2>1, Handlers DEF OfClient, Holds, Knows, KnowsEvents
  <2>3. Alone(c) /\ Answered(c, response)
    BY <1>0, <2>1, AfterRespond
  <2>4. /\ response.kind = "events" /\ response.status = status'[response.job]
        /\ response.upto = Len(events'[response.job])
    BY <1>1, <2>2
  <2>. HIDE DEF response
  <2>5. OfClient(c)' /\ ~Creating(c)'
    BY <2>3, <2>4, AnsweredClient
  <2>6. \A d \in Clients, i \in Jobs : d # c /\ events_lock[i] = d => events_lock'[i] = d
    BY <1>0, <2>1, <2>2 DEF TypeOK
  <2>. QED  BY <1>0, <1>1, <2>3, <2>5, <2>6, CalmIInv
<1>. QED  BY <1>2, <1>3

-----------------------------------------------------------------------------
(* The theorems *)

LEMMA InitIInv == Init => IInv
<1>. SUFFICES ASSUME Init PROVE IInv
  OBVIOUS
<1>1. TypeOK
  BY InitTypeOK
<1>2. \A c \in Clients : ~(request[c] # None) /\ ~(answer[c] # None)
  BY DEF Init
<1>3. \A c \in Clients : OfClient(c)
  BY <1>2 DEF OfClient, Holds, Listing, Creates, Creating, Knows, KnowsSummary, KnowsEvents,
              KnowsRows, KnowsJobs, WasTold, Handling
<1>4. \A j \in Jobs : /\ worker[j].pc = "not spawned"
                      /\ status[j] = "running" /\ result[j] = None
  BY DEF Init
<1>5. Progress /\ Registered
  BY <1>4 DEF Progress, Registered, Announced
<1>. QED  BY <1>1, <1>3, <1>5 DEF IInv

LEMMA NextIInv == IInv /\ [Next]_vars => IInv'
<1>. SUFFICES ASSUME IInv, [Next]_vars PROVE IInv'
  OBVIOUS
<1>1. ASSUME NEW j \in Jobs, WorkerStep(j) \/ WorkerPanics(j)
      PROVE  IInv'
  BY <1>1, WorkerTypeOK, WorkerProgress, WorkerOthers DEF IInv
<1>2. ASSUME NEW c \in Clients, Request(c)
      PROVE  IInv'
  BY <1>2, RequestIInv
<1>3. ASSUME NEW c \in Clients, Handle(c)
      PROVE  IInv'
  BY <1>3, CreateIInv, ReadIInv, ListIInv, EventsIInv DEF Handle
<1>4. CASE UNCHANGED vars
  <2>1. /\ UNCHANGED <<counter, benchmarks, bench_order, benchmarks_lock, order_lock>>
        /\ UNCHANGED <<mode, status, events, result, cancel, events_lock>>
        /\ UNCHANGED <<worker, request, answer>>
    BY <1>4 DEF vars, registryVars, jobVars, clientVars
  <2>2. TypeOK' /\ Progress' /\ Registered'
    BY <2>1 DEF IInv, TypeOK, Progress, Registered, Announced
  <2>3. ASSUME NEW c \in Clients PROVE OfClient(c)'
    <3>1. OfClient(c)
      BY DEF IInv
    <3>2. \A d \in Clients : /\ Listing(d)' <=> Listing(d)
                             /\ Creating(d)' <=> Creating(d)
                             /\ \A p : Handling(d, p)' <=> Handling(d, p)
      BY <2>1 DEF Listing, Creating, Handling
    <3>3. Holds(c)' /\ Creates(c)'
      BY <2>1, <3>1, <3>2 DEF OfClient, Holds, Creates
    <3>4. KnowsSummary(c)' /\ KnowsEvents(c)' /\ KnowsRows(c)' /\ KnowsJobs(c)'
      BY <2>1, <3>1, <3>2 DEF OfClient, Knows, KnowsSummary, KnowsEvents, KnowsRows, KnowsJobs,
                              StillSo, Whole
    <3>5. WasTold(c)'
      BY <2>1, <3>1 DEF OfClient, WasTold, ToldRows, ToldEvents, Whole
    <3>. QED  BY <3>3, <3>4, <3>5 DEF OfClient, Knows
  <2>. QED  BY <2>2, <2>3 DEF IInv
<1>. QED  BY <1>1, <1>2, <1>3, <1>4 DEF Next

\* The locks, the threads, what handlers have gathered and what clients were told belong
\* together as IInv says in every reachable state.
THEOREM Invariance == Spec => []IInv
BY InitIInv, NextIInv, PTL DEF Spec

\* Every variable keeps to the values the code's types and control flow allow.
THEOREM TypeCorrect == Spec => []TypeOK
<1>1. IInv => TypeOK
  BY DEF IInv
<1>. QED  BY <1>1, Invariance, PTL

\* No answer of job_summary or list_benchmarks says that a job has ended without the result
\* that goes with the status, although each is read under a lock of its own.
THEOREM EndedAnswersWhole == Spec => []EndedAnswersCarryResult
<1>1. IInv => EndedAnswersCarryResult
  BY DEF IInv, OfClient, WasTold, ToldRows, Whole, EndedAnswersCarryResult
<1>. QED  BY <1>1, Invariance, PTL

\* The answer of benchmark_events that tells a client to stop polling holds every event.
THEOREM LastAnswerComplete == Spec => []LastAnswerHasAllEvents
<1>1. IInv => LastAnswerHasAllEvents
  BY DEF IInv, OfClient, WasTold, ToldEvents, LastAnswerHasAllEvents
<1>. QED  BY <1>1, Invariance, PTL

\* Once a job has ended nothing changes what it shows of itself: neither its thread nor any
\* request, a late cancel included.
THEOREM EndedStaysSo == Spec => EndedIsFinal
<1>. DEFINE Final == \A j \in Jobs : status[j] # "running" =>
                        status'[j] = status[j] /\ result'[j] = result[j] /\ events'[j] = events[j]
<1>1. ASSUME IInv, [Next]_vars PROVE Final
  <2>1. ASSUME NEW i \in Jobs, WorkerStep(i) \/ WorkerPanics(i)
        PROVE  Final
    BY <1>1, <2>1, WorkerChanges DEF IInv
  <2>2. ASSUME NEW c \in Clients, Request(c)
        PROVE  Final
    BY <2>2 DEF Request, Ask, jobVars
  <2>3. ASSUME NEW c \in Clients, Handle(c)
        PROVE  Final
    <3>1. UNCHANGED <<status, result, events>>
      BY <2>3 DEF Handle, next_id, InsertJob, PushOrder, SpawnThread, get_job, SummaryStatus,
                  SummaryResult, ListLockBenchmarks, ListLockOrder, ListStatus, ListResult,
                  ListAnswer, EventsLock, EventsStatus, cancel_benchmark, download, jobVars
    <3>. QED  BY <3>1
  <2>4. CASE UNCHANGED vars
    BY <2>4 DEF vars, jobVars
  <2>. QED  BY <1>1, <2>1, <2>2, <2>3, <2>4 DEF Next
<1>. QED  BY <1>1, Invariance, PTL DEF Spec, EndedIsFinal

\* A client that has been given the id of a job, or has seen it in an answer, does not get
\* "not found" for it and does not get a list without it, whatever the order in which the
\* handlers that create and list jobs take the two registries.
THEOREM AnnouncedFound == Spec => AnnouncedJobsAreFound
<1>. DEFINE Found(c) ==
        answer[c] = None /\ answer'[c] # None =>
           /\ answer'[c].kind = "not found" => answer'[c].job \notin Announced
           /\ answer'[c].kind = "jobs" /\ request[c].op = "list" =>
                 Announced \subseteq {answer'[c].rows[i].job : i \in DOMAIN answer'[c].rows}
<1>1. ASSUME IInv, [Next]_vars PROVE \A c \in Clients : Found(c)
  <2>0. TypeOK /\ Registered /\ \A c \in Clients : OfClient(c)
    BY <1>1 DEF IInv
  <2>1. ASSUME NEW i \in Jobs, WorkerStep(i) \/ WorkerPanics(i)
        PROVE  \A c \in Clients : Found(c)
    BY <2>1 DEF WorkerStep, WorkerPanics, clientVars
  <2>2. ASSUME NEW d \in Clients, Request(d)
        PROVE  \A c \in Clients : Found(c)
    BY <2>0, <2>2, AfterAsk DEF Alone
  <2>3. ASSUME NEW d \in Clients, Handle(d)
        PROVE  \A c \in Clients : Found(c)
    <3>1. ASSUME NEW response, Respond(d, response),
                 response # None => response.kind \notin {"not found", "jobs"}
          PROVE  \A c \in Clients : Found(c)
      BY <2>0, <3>1, AfterRespond DEF Alone, Answered
    <3>2. ASSUME NEW p, Handling(d, p), NEW pc, NEW x, Proceed(d, pc, x)
          PROVE  \A c \in Clients : Found(c)
      BY <2>0, <3>2, AfterProceed DEF After
    <3>3. CASE next_id(d)
      <4>1. CASE counter < MaxJobs
        BY <3>3, <4>1 DEF next_id
      <4>2. CASE ~(counter < MaxJobs)
        BY <3>1, <3>3, <4>2 DEF next_id
      <4>. QED  BY <4>1, <4>2
    <3>4. CASE InsertJob(d) \/ PushOrder(d) \/ SummaryStatus(d) \/ ListLockBenchmarks(d)
               \/ ListLockOrder(d) \/ ListStatus(d) \/ ListResult(d) \/ EventsLock(d)
      <4>1. PICK p, pc, x : Handling(d, p) /\ Proceed(d, pc, x)
        BY <3>4 DEF InsertJob, PushOrder, SummaryStatus, ListLockBenchmarks, ListLockOrder,
                    ListStatus, ListResult, EventsLock
      <4>. QED  BY <3>2, <4>1
    <3>5. CASE SpawnThread(d)
      <4>. DEFINE response == [kind |-> "created", job |-> request[d].job]
      <4>1. Respond(d, response) /\ response.kind = "created"
        BY <3>5 DEF SpawnThread
      <4>. HIDE DEF response
      <4>. QED  BY <3>1, <4>1
    <3>9. CASE EventsStatus(d)
      <4>. DEFINE response == [kind |-> "events", job |-> request[d].job,
                               status |-> status[request[d].job], upto |-> request[d].x]
      <4>1. Respond(d, response) /\ response.kind = "events"
        BY <3>9 DEF EventsStatus
      <4>. HIDE DEF response
      <4>. QED  BY <3>1, <4>1
    <3>10. CASE cancel_benchmark(d)
      <4>. DEFINE response == [kind |-> "cancelling", job |-> request[d].job]
      <4>1. Respond(d, response) /\ response.kind = "cancelling"
        BY <3>10 DEF cancel_benchmark
      <4>. HIDE DEF response
      <4>. QED  BY <3>1, <4>1
    <3>11. CASE download(d)
      <4>. DEFINE response == IF result[request[d].job] = None
                              THEN [kind |-> "still running", job |-> request[d].job]
                              ELSE [kind |-> "file", job |-> request[d].job,
                                    result |-> result[request[d].job]]
      <4>1. Respond(d, response) /\ response.kind \in {"still running", "file"}
        BY <3>11 DEF download
      <4>. HIDE DEF response
      <4>. QED  BY <3>1, <4>1
    <3>6. CASE get_job(d)
      <4>1. CASE request[d].job \in benchmarks
        BY <3>2, <3>6, <4>1 DEF get_job
      <4>2. CASE request[d].job \notin benchmarks
        <5>. DEFINE response == [kind |-> "not found", job |-> request[d].job]
        <5>1. Alone(d) /\ Answered(d, response)
          BY <2>0, <3>6, <4>2, AfterRespond DEF get_job
        <5>3. response.kind = "not found" /\ response.job = request[d].job
          OBVIOUS
        <5>. HIDE DEF response
        <5>2. request[d].job \notin Announced
          BY <2>0, <4>2 DEF Registered
        <5>. QED  BY <5>1, <5>2, <5>3 DEF Alone, Answered
      <4>. QED  BY <4>1, <4>2
    <3>7. CASE SummaryResult(d)
      <4>1. request[d].op = "summary"
        BY <2>0, <3>7 DEF SummaryResult, OfClient, Knows, KnowsSummary
      <4>2. PICK response : Respond(d, response)
        BY <3>7 DEF SummaryResult
      <4>3. Alone(d) /\ Answered(d, response)
        BY <2>0, <4>2, AfterRespond
      <4>4. answer'[d].kind = "jobs"
        BY <2>0, <3>7 DEF SummaryResult, Respond, TypeOK
      <4>. QED  BY <4>1, <4>3, <4>4 DEF Alone
    <3>8. CASE ListAnswer(d)
      <4>. DEFINE rows == request[d].x.rows
                  response == [kind |-> "jobs", rows |-> rows]
      <4>1. Handling(d, "list") /\ request[d].x.left = <<>>
        BY <3>8 DEF ListAnswer
      <4>2. Alone(d) /\ Answered(d, response)
        BY <2>0, <3>8, AfterRespond DEF ListAnswer
      <4>3. Range(request[d].x.left) = {}
        BY <4>1 DEF Range
      <4>4. \A j \in Announced : \E k \in DOMAIN rows : rows[k].job = j
        BY <2>0, <4>1, <4>3 DEF Registered, OfClient, Knows, KnowsJobs, Listing
      <4>5. response.kind = "jobs" /\ response.rows = rows
        OBVIOUS
      <4>. HIDE DEF response
      <4>6. Announced \subseteq {response.rows[i].job : i \in DOMAIN response.rows}
        BY <4>4, <4>5
      <4>. HIDE DEF rows
      <4>7. Found(d)
        BY <4>2, <4>5, <4>6 DEF Answered
      <4>. QED  BY <4>2, <4>7 DEF Alone
    <3>. QED  BY <2>3, <3>3, <3>4, <3>5, <3>6, <3>7, <3>8, <3>9, <3>10,
          <3>11 DEF Handle
  <2>4. CASE UNCHANGED vars
    BY <2>4 DEF vars, clientVars
  <2>. QED  BY <1>1, <2>1, <2>2, <2>3, <2>4 DEF Next
<1>. QED  BY <1>1, Invariance, PTL DEF Spec, AnnouncedJobsAreFound
=============================================================================
