------------------------------ MODULE AppServer ------------------------------
(***************************************************************************)
(* How the server carries out the requests of the election API             *)
(* (aggios-server/src/routes.rs): the tasks of the async runtime, the      *)
(* threads of its blocking pool, and the mutex around DemoState between    *)
(* them.  What a handler does to an election is in DemoElection; here a    *)
(* change is one entry of a log, made between taking and releasing the     *)
(* lock, and an answer is the log it was computed from.                    *)
(*                                                                         *)
(* A handler that panics while it holds the lock poisons it: its change    *)
(* stays half made, and nobody can look at the elections any more.         *)
(***************************************************************************)
EXTENDS Naturals, Sequences, FiniteSets

CONSTANTS
    Changes,    \* requests that go through with_demo
    Reads,      \* requests whose handler locks the mutex on its own task
    Others,     \* requests that do not touch DemoState (static files, benchmarks)
    Workers,    \* number of threads that poll tasks
    MaxTime,    \* bound: largest value of the clock
    None        \* no request, no value

Requests == Changes \union Reads \union Others

\* A change to the elections: the request that made it, and its timestamp.
Entry == [request : Requests, at : Nat]

ASSUME RequestsAssumption ==
    /\ IsFiniteSet(Requests)
    /\ Changes \intersect Reads = {}
    /\ (Changes \union Reads) \intersect Others = {}
ASSUME NoneAssumption ==
    None \notin Requests /\ None \notin Seq(Requests) /\ None \notin Seq(Entry)
ASSUME WorkersAssumption == Workers \in Nat \ {0} /\ MaxTime \in Nat

VARIABLES
    client,     \* [Requests -> what the client knows of its request]
    task,       \* [Requests -> stage of the handler's task]
    closure,    \* [Changes -> stage of the closure given to spawn_blocking]
    view,       \* [Changes -> the log and the time the closure works with]
    value,      \* [Requests -> the log the answer was computed from, or None]
    holder,     \* the closure that holds the demo lock, or None
    poisoned,   \* whether a closure has panicked while it held the lock
    demo,       \* DemoState: the entries made, and whether one is half made
    time        \* the system clock

vars == <<client, task, closure, view, value, holder, poisoned, demo, time>>

\* What a look at elections that are half changed would show.
HalfMade == <<[request |-> None, at |-> 0]>>

NoView == [log |-> <<>>, at |-> 0]

Init ==
    /\ client = [r \in Requests |-> "idle"]
    /\ task = [r \in Requests |-> "none"]
    /\ closure = [r \in Changes |-> "none"]
    /\ view = [r \in Changes |-> NoView]
    /\ value = [r \in Requests |-> None]
    /\ holder = None
    /\ poisoned = FALSE
    /\ demo = [log |-> <<>>, torn |-> FALSE]
    /\ time = 0

-----------------------------------------------------------------------------
(* Tasks *)

Visible == IF demo.torn THEN HalfMade ELSE demo.log

\* A thread that blocks in Mutex::lock polls no other task.
WorkerFree == Cardinality({r \in Requests : task[r] = "blocked"}) < Workers

Ask(r) ==
    /\ client[r] = "idle"
    /\ client' = [client EXCEPT ![r] = "asked"]
    /\ task' = [task EXCEPT ![r] = "ready"]
    /\ UNCHANGED <<closure, view, value, holder, poisoned, demo, time>>

\* with_demo: the closure goes to the blocking pool, the task waits for it.
SpawnBlocking(r) ==
    /\ r \in Changes
    /\ task[r] = "ready" /\ WorkerFree
    /\ task' = [task EXCEPT ![r] = "parked"]
    /\ closure' = [closure EXCEPT ![r] = "waiting"]
    /\ UNCHANGED <<client, view, value, holder, poisoned, demo, time>>

\* The other handlers call lock() where they are.
LockOnWorker(r) ==
    /\ r \in Reads
    /\ task[r] = "ready" /\ WorkerFree
    /\ task' = [task EXCEPT ![r] = "blocked"]
    /\ UNCHANGED <<client, closure, view, value, holder, poisoned, demo, time>>

AnswerWithoutDemo(r) ==
    /\ r \in Others
    /\ task[r] = "ready" /\ WorkerFree
    /\ task' = [task EXCEPT ![r] = "woken"]
    /\ value' = [value EXCEPT ![r] = demo.log]
    /\ UNCHANGED <<client, closure, view, holder, poisoned, demo, time>>

\* lock().unwrap() succeeds, the answer is built, the guard is dropped.
ReadDemo(r) ==
    /\ task[r] = "blocked"
    /\ holder = None /\ ~poisoned
    /\ task' = [task EXCEPT ![r] = "woken"]
    /\ value' = [value EXCEPT ![r] = Visible]
    /\ UNCHANGED <<client, closure, view, holder, poisoned, demo, time>>

\* lock().unwrap() panics: the runtime ends the task, its connection is closed.
UnwrapPanics(r) ==
    /\ task[r] = "blocked"
    /\ holder = None /\ poisoned
    /\ task' = [task EXCEPT ![r] = "ended"]
    /\ client' = [client EXCEPT ![r] = "failed"]
    /\ UNCHANGED <<closure, view, value, holder, poisoned, demo, time>>

\* The task goes on after its await and its answer is sent: the value, or the
\* JoinError of a closure that panicked as an internal error.
Respond(r) ==
    /\ task[r] = "woken" /\ WorkerFree
    /\ task' = [task EXCEPT ![r] = "ended"]
    /\ client' = [client EXCEPT ![r] =
                     IF @ # "asked" THEN @
                     ELSE IF value[r] = None THEN "failed" ELSE "answered"]
    /\ UNCHANGED <<closure, view, value, holder, poisoned, demo, time>>

\* The client closes the connection: the task is dropped at its await, but a closure
\* in the pool, and a thread inside lock(), go on.
Disconnect(r) ==
    /\ client[r] = "asked"
    /\ client' = [client EXCEPT ![r] = "failed"]
    /\ task' = [task EXCEPT ![r] = IF @ = "blocked" THEN @ ELSE "ended"]
    /\ UNCHANGED <<closure, view, value, holder, poisoned, demo, time>>

-----------------------------------------------------------------------------
(* Closures of with_demo *)

Wake(r) == task' = [task EXCEPT ![r] = IF @ = "parked" THEN "woken" ELSE @]

\* A lock that closures share.
LockAndCall_shared(r) ==
    /\ closure[r] = "waiting"
    /\ ~poisoned
    /\ holder' = r
    /\ closure' = [closure EXCEPT ![r] = "running"]
    /\ view' = [view EXCEPT ![r] = [log |-> demo.log, at |-> time]]
    /\ UNCHANGED <<client, task, value, poisoned, demo, time>>

\* The lock is taken, then now_ms() is read, then the handler starts.
LockAndCall(r) ==
    /\ closure[r] = "waiting"
    /\ holder = None /\ ~poisoned
    /\ holder' = r
    /\ closure' = [closure EXCEPT ![r] = "running"]
    /\ view' = [view EXCEPT ![r] = [log |-> Visible, at |-> time]]
    /\ demo' = [demo EXCEPT !.torn = TRUE]
    /\ UNCHANGED <<client, task, value, poisoned, time>>

\* lock().unwrap() panics in the pool thread.
LockFails(r) ==
    /\ closure[r] = "waiting"
    /\ holder = None /\ poisoned
    /\ closure' = [closure EXCEPT ![r] = "panicked"]
    /\ Wake(r)
    /\ UNCHANGED <<client, view, value, holder, poisoned, demo, time>>

\* The handler returns a value or an error; an error has changed nothing.
Return(r) ==
    /\ closure[r] = "running"
    /\ \E entry \in {<<>>, <<[request |-> r, at |-> view[r].at]>>} :
          /\ demo' = [log |-> demo.log \o entry, torn |-> FALSE]
          /\ value' = [value EXCEPT ![r] = view[r].log \o entry]
    /\ holder' = None
    /\ closure' = [closure EXCEPT ![r] = "returned"]
    /\ Wake(r)
    /\ UNCHANGED <<client, view, poisoned, time>>

\* A lock that is not poisoned by a panic.
Panic_unpoisoned(r) ==
    /\ closure[r] = "running"
    /\ holder' = None
    /\ closure' = [closure EXCEPT ![r] = "panicked"]
    /\ Wake(r)
    /\ UNCHANGED <<client, view, value, poisoned, demo, time>>

\* The handler panics; dropping the guard poisons the lock.
Panic(r) ==
    /\ closure[r] = "running"
    /\ poisoned' = TRUE
    /\ holder' = None
    /\ closure' = [closure EXCEPT ![r] = "panicked"]
    /\ Wake(r)
    /\ UNCHANGED <<client, view, value, demo, time>>

Tick ==
    /\ time < MaxTime
    /\ time' = time + 1
    /\ UNCHANGED <<client, task, closure, view, value, holder, poisoned, demo>>

-----------------------------------------------------------------------------
TaskStep(r) ==
    \/ SpawnBlocking(r) \/ LockOnWorker(r) \/ AnswerWithoutDemo(r)
    \/ ReadDemo(r) \/ UnwrapPanics(r) \/ Respond(r)

ClosureStep(r) == LockAndCall(r) \/ LockFails(r) \/ Return(r) \/ Panic(r)

Next ==
    \/ \E r \in Requests : Ask(r) \/ TaskStep(r) \/ Disconnect(r)
    \/ \E r \in Changes : ClosureStep(r)
    \/ Tick

(* The server does not stop while one of its threads can go on; handlers return or
   panic.  Each request is made once here, so no fairness among threads is needed. *)
Fairness ==
    WF_vars(\/ \E r \in Requests : TaskStep(r)
            \/ \E r \in Changes : ClosureStep(r))

Spec == Init /\ [][Next]_vars /\ Fairness

-----------------------------------------------------------------------------
(* Properties *)

RequestsOf(entries) == [i \in DOMAIN entries |-> entries[i].request]

\* The variables of RequestService.
Log == RequestsOf(demo.log)
Seen == [r \in Requests |-> IF value[r] = None THEN None ELSE RequestsOf(value[r])]

Service == INSTANCE RequestService WITH status <- client, log <- Log, seen <- Seen

\* INVARIANT.  The entries of the bulletin board are in the order of their timestamps:
\* the handlers are given now_ms() inside the closure, after the lock is taken.
BoardInTimeOrder ==
    \A i, j \in DOMAIN demo.log : i < j => demo.log[i].at =< demo.log[j].at

TypeOK ==
    /\ client \in [Requests -> {"idle", "asked", "answered", "failed"}]
    /\ task \in [Requests -> {"none", "ready", "parked", "blocked", "woken", "ended"}]
    /\ closure \in [Changes -> {"none", "waiting", "running", "returned", "panicked"}]
    /\ holder \in Changes \union {None}
    /\ poisoned \in BOOLEAN /\ demo.torn \in BOOLEAN
    /\ time \in Nat
=============================================================================
