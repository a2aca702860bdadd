----------------------------- MODULE WasmBridge -----------------------------
(***************************************************************************)
(* The same API in the browser: the page (web/boot.js), a web worker       *)
(* (web/worker.js) and the WebAssembly instance in it                      *)
(* (aggios-wasm/src/lib.rs).  Calls and answers are messages in two FIFO   *)
(* channels, matched by an id; inside the worker every call passes through *)
(* one response buffer in the memory of the instance.                      *)
(*                                                                         *)
(* The instance is built without unwinding: a panic is a trap that leaves  *)
(* the mutex around the app locked, and every later lock() traps too.      *)
(***************************************************************************)
EXTENDS Naturals, Sequences

CONSTANTS
    Requests,   \* calls of aggiosWasmCall
    Reads,      \* those among them that only look (GET)
    Benchmarks, \* those among the others that run a benchmark which reports progress: a
                \* simulation or a refused configuration is a call like any other
    None        \* no call, no value

VARIABLES
    page,       \* [Requests -> what the page knows of its call]
    delivered,  \* [Requests -> the value its promise was resolved with, or None]
    next_id,    \* boot.js: id of the next call
    pending,    \* boot.js: the map from ids to promises
    inbox,      \* messages to the worker
    outbox,     \* messages to the page
    worker,     \* "missing", "loading", "ready" or "failed"
    suspended,  \* calls whose onmessage awaits ready, in order
    call,       \* the call that onmessage is working on, and how far it is
    buffer,     \* RESPONSE_BUF
    app,        \* APP: the entries made, whether one is half made, whether it is locked
    shown       \* calls whose progress events the page has received

vars == <<page, delivered, next_id, pending, inbox, outbox, worker, suspended,
          call, buffer, app, shown>>

\* What a look at an app that is half changed would show.
HalfMade == <<None>>

NoCall == [id |-> 0, request |-> None, at |-> "none"]

Init ==
    /\ page = [r \in Requests |-> "idle"]
    /\ delivered = [r \in Requests |-> None]
    /\ next_id = 1
    /\ pending = {}
    /\ inbox = <<>> /\ outbox = <<>>
    /\ worker \in {"missing", "loading"}
    /\ suspended = <<>>
    /\ call = NoCall
    /\ buffer = <<>>
    /\ app = [log |-> <<>>, torn |-> FALSE, locked |-> FALSE]
    /\ shown = {}

-----------------------------------------------------------------------------
(* The page: boot.js *)

Ask(r) ==
    /\ page[r] = "idle"
    /\ page' = [page EXCEPT ![r] = "asked"]
    /\ pending' = pending \union {[id |-> next_id, request |-> r]}
    /\ inbox' = Append(inbox, [id |-> next_id, request |-> r])
    /\ next_id' = next_id + 1
    /\ UNCHANGED <<delivered, outbox, worker, suspended, call, buffer, app, shown>>

\* worker.onmessage: a progress event, or the response for the promise with this id.
OnMessage ==
    /\ outbox # <<>>
    /\ outbox' = Tail(outbox)
    /\ LET m == Head(outbox)
           resolved == {p \in pending : p.id = m.id}
       IN IF m.type = "progress"
          THEN /\ shown' = shown \union {Head(m.value)}
               /\ UNCHANGED <<page, delivered, pending>>
          ELSE /\ pending' = pending \ resolved
               /\ page' = [r \in Requests |->
                     IF r \in {p.request : p \in resolved}
                     THEN IF m.value = None THEN "failed" ELSE "answered"
                     ELSE page[r]]
               /\ delivered' = [r \in Requests |->
                     IF r \in {p.request : p \in resolved} THEN m.value ELSE delivered[r]]
               /\ UNCHANGED shown
    /\ UNCHANGED <<next_id, inbox, worker, suspended, call, buffer, app>>

-----------------------------------------------------------------------------
(* The worker: worker.js *)

\* The module is fetched and instantiated, or neither way to do so works.
Instantiate ==
    /\ worker = "loading"
    /\ worker' \in {"ready", "failed"}
    /\ UNCHANGED <<page, delivered, next_id, pending, inbox, outbox, suspended,
                   call, buffer, app, shown>>

\* Nothing between two awaits of the worker is interrupted.
WorkerIdle == call = NoCall

\* onmessage starts and awaits ready; once that is settled, what waits for it goes on
\* before another message is taken.
Receive ==
    /\ worker = "loading" \/ (worker # "missing" /\ suspended = <<>>)
    /\ WorkerIdle
    /\ inbox # <<>>
    /\ suspended' = Append(suspended, Head(inbox))
    /\ inbox' = Tail(inbox)
    /\ UNCHANGED <<page, delivered, next_id, pending, outbox, worker, call, buffer,
                   app, shown>>

\* onmessage goes on after its await: it throws when ready was rejected, and when there
\* is no memory for the request (aggios_alloc).
Resume ==
    /\ worker \in {"ready", "failed"} /\ WorkerIdle
    /\ suspended # <<>>
    /\ suspended' = Tail(suspended)
    /\ \E at \in IF worker = "ready" THEN {"lock", "throw"} ELSE {"throw"} :
          call' = [id |-> Head(suspended).id, request |-> Head(suspended).request, at |-> at]
    /\ UNCHANGED <<page, delivered, next_id, pending, inbox, outbox, worker, buffer,
                   app, shown>>

-----------------------------------------------------------------------------
(* The instance: aggios-wasm *)

\* handle_request: app().lock() without another thread traps when it is locked.
LockApp ==
    /\ call.at = "lock"
    /\ IF app.locked
       THEN /\ call' = [call EXCEPT !.at = "throw"]
            /\ UNCHANGED app
       ELSE /\ call' = [call EXCEPT !.at = "route"]
            /\ app' = [app EXCEPT !.locked = TRUE]
    /\ UNCHANGED <<page, delivered, next_id, pending, inbox, outbox, worker, suspended,
                   buffer, shown>>

\* host_progress: a benchmark runs inside the call and reports while it does.
EmitProgress ==
    /\ call.at = "route" /\ call.request \in Benchmarks
    /\ call' = [call EXCEPT !.at = "reported"]
    /\ outbox' = Append(outbox, [type |-> "progress", id |-> 0, value |-> <<call.request>>])
    /\ UNCHANGED <<page, delivered, next_id, pending, inbox, worker, suspended,
                   buffer, app, shown>>

\* A benchmark that goes on after its call has returned.
Handle_in_background ==
    /\ call.at = "route"
    /\ app' = [log |-> Append(app.log, call.request), torn |-> FALSE, locked |-> FALSE]
    /\ buffer' = Append(app.log, call.request)
    /\ call' = [call EXCEPT !.at = "read"]
    /\ UNCHANGED <<page, delivered, next_id, pending, inbox, outbox, worker, suspended,
                   shown>>

\* What a call leaves in the app: an error changes nothing, a benchmark is always kept.
MayAdd(r) ==
    IF r \in Reads THEN {<<>>} ELSE IF r \in Benchmarks THEN {<<r>>} ELSE {<<>>, <<r>>}

\* route returns a value or an error and the guard is dropped; then the response is
\* built and stored, unless there is no memory for it.  A benchmark has reported.
Handle ==
    /\ call.at = IF call.request \in Benchmarks THEN "reported" ELSE "route"
    /\ \E entry \in MayAdd(call.request) :
          /\ app' = [log |-> app.log \o entry, torn |-> FALSE, locked |-> FALSE]
          /\ \/ /\ buffer' = IF app.torn THEN HalfMade ELSE app.log \o entry
                /\ call' = [call EXCEPT !.at = "read"]
             \/ /\ call' = [call EXCEPT !.at = "throw"]
                /\ UNCHANGED buffer
    /\ UNCHANGED <<page, delivered, next_id, pending, inbox, outbox, worker, suspended,
                   shown>>

\* A panic inside route: the lock is never released and the change stays half made.
Trap ==
    /\ call.at \in {"route", "reported"}
    /\ call' = [call EXCEPT !.at = "throw"]
    /\ app' = [app EXCEPT !.torn = TRUE]
    /\ UNCHANGED <<page, delivered, next_id, pending, inbox, outbox, worker, suspended,
                   buffer, shown>>

-----------------------------------------------------------------------------
(* The worker again: the answer *)

Post(m) ==
    /\ outbox' = Append(outbox, m)
    /\ call' = NoCall

\* The response is read from the buffer and posted.
PostResponse ==
    /\ call.at = "read"
    /\ Post([type |-> "response", id |-> call.id, value |-> buffer])
    /\ UNCHANGED <<page, delivered, next_id, pending, inbox, worker, suspended,
                   buffer, app, shown>>

\* No catch: an exception ends onmessage without an answer.
PostError_uncaught ==
    /\ call.at = "throw"
    /\ call' = NoCall
    /\ UNCHANGED <<page, delivered, next_id, pending, inbox, outbox, worker, suspended,
                   buffer, app, shown>>

\* catch (err): status 500.
PostError ==
    /\ call.at = "throw"
    /\ Post([type |-> "response", id |-> call.id, value |-> None])
    /\ UNCHANGED <<page, delivered, next_id, pending, inbox, worker, suspended,
                   buffer, app, shown>>

-----------------------------------------------------------------------------
WorkerStep ==
    \/ Instantiate \/ Receive \/ Resume
    \/ LockApp \/ EmitProgress \/ Handle \/ Trap
    \/ PostResponse \/ PostError

Next == (\E r \in Requests : Ask(r)) \/ OnMessage \/ WorkerStep

(* Both event loops run, loading ends one way or the other, and a call into the
   instance returns or traps. *)
Fairness == WF_vars(OnMessage) /\ WF_vars(WorkerStep)

Spec == Init /\ [][Next]_vars /\ Fairness

-----------------------------------------------------------------------------
(* Properties *)

Entries(r) == {i \in DOMAIN app.log : app.log[i] = r}

Responses(r) ==
    {m \in {outbox[i] : i \in DOMAIN outbox} :
        m.type = "response" /\ [id |-> m.id, request |-> r] \in pending}

\* Where the value of a call is: with the page, on its way, in the buffer, or lost
\* although the call has taken effect.
Value(r) ==
    IF delivered[r] # None THEN delivered[r]
    ELSE IF \E m \in Responses(r) : m.value # None
    THEN (CHOOSE m \in Responses(r) : m.value # None).value
    ELSE IF call.request = r /\ call.at = "read" THEN buffer
    ELSE IF Entries(r) # {}
    THEN SubSeq(app.log, 1, CHOOSE i \in Entries(r) : TRUE)
    ELSE None

\* The variables of RequestService.
Log == app.log
Seen == [r \in Requests |-> Value(r)]

Service == INSTANCE RequestService WITH status <- page, log <- Log, seen <- Seen

\* INVARIANT.  The page is answered in the order of its calls, and the promise of a
\* benchmark is resolved after the page has been told of its progress: app.js shows the
\* log of a run while its POST is open and closes it when the promise is resolved.
MessagesInOrder ==
    /\ \A p \in pending : \A id \in p.id..(next_id - 1) : \E q \in pending : q.id = id
    /\ \A r \in Benchmarks : page[r] = "answered" => r \in shown
=============================================================================
