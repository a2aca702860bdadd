---------------------------- MODULE MCDeployments ----------------------------
(* The two deployments of the demo, each a small instance of its module: the server    *)
(* and the page that carries its own instance.  One behaviour has one of them.         *)
EXTENDS AppServer

CONSTANTS
    Calls,      \* calls of the page; those that only look, and the benchmarks, among them
    Looks,
    Benchmarks

ASSUME CallsAssumption ==
    /\ Looks \subseteq Calls /\ Benchmarks \subseteq Calls
    /\ None \notin Calls /\ None \notin Seq(Calls)

VARIABLES deployment,
    page, delivered, next_id, pending, inbox, outbox, worker,
    suspended, call, buffer, app, shown

Browser == INSTANCE WasmBridge WITH Requests <- Calls, Reads <- Looks

browserVars == <<page, delivered, next_id, pending, inbox, outbox, worker, suspended,
                 call, buffer, app, shown>>

DeploymentInit ==
    /\ Init /\ Browser!Init
    /\ \/ deployment = "server" /\ worker = "missing"
       \/ deployment = "browser"

DeploymentNext ==
    \/ deployment = "server" /\ Next /\ UNCHANGED <<deployment, browserVars>>
    \/ deployment = "browser" /\ Browser!Next /\ UNCHANGED <<deployment, vars>>

\* What the other deployment could do is never enabled.
DeploymentSpec ==
    /\ DeploymentInit
    /\ [][DeploymentNext]_<<deployment, vars, browserVars>>
    /\ Fairness /\ Browser!Fairness

-----------------------------------------------------------------------------
\* PROPERTY (refinement).  Both deployments implement RequestService: with_demo
\* (routes.rs) and its blocking threads, or the worker and its shared response buffer.
\* Each request takes effect at most once, at one moment after it was asked, on elections
\* that are not half changed, and a client is only ever shown the elections as its own
\* request left them, also after a handler has panicked.
ImplementsService == Service!Spec /\ Browser!Service!Spec

\* INVARIANT.  The page is answered in the order of its calls, and told of the progress
\* of a benchmark before the promise of its POST is resolved.
MessagesInOrder == Browser!MessagesInOrder

\* PROPERTY (liveness).  Every request gets its answer, an error, or a closed connection:
\* the lock is released by handlers that panic, and handlers that block worker threads in
\* lock() do not keep the holder from going on.  In the browser this needs worker.js
\* itself to load: boot.js only logs a worker that did not.
RequestsEnd ==
    /\ \A r \in Requests : client[r] = "asked" ~> client[r] # "asked"
    /\ \A r \in Calls : page[r] = "asked" /\ worker # "missing" ~> page[r] # "asked"
=============================================================================
