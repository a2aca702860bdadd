--------------------------- MODULE RequestService ---------------------------
(***************************************************************************)
(* What both deployments of the demo promise a client of the election API, *)
(* whatever they are made of: requests take effect one at a time, each at  *)
(* most once and after it was asked, and an answer shows the elections as  *)
(* that request left them.  An internal error promises nothing about the   *)
(* effect of its own request.                                              *)
(***************************************************************************)
EXTENDS Sequences

CONSTANTS
    Requests,   \* requests, each asked at most once
    None        \* no answer yet

VARIABLES
    status,     \* [Requests -> what the client knows]
    log,        \* the changes made so far, in order
    seen        \* [Requests -> the log as the request left it, or None]

vars == <<status, log, seen>>

Init ==
    /\ status = [r \in Requests |-> "idle"]
    /\ log = <<>>
    /\ seen = [r \in Requests |-> None]

Ask(r) ==
    /\ status[r] = "idle"
    /\ status' = [status EXCEPT ![r] = "asked"]
    /\ UNCHANGED <<log, seen>>

\* The request changes the elections, or only looks at them.
TakeEffect(r) ==
    /\ status[r] \notin {"idle", "answered"}
    /\ seen[r] = None
    /\ log' \in {log, Append(log, r)}
    /\ seen' = [seen EXCEPT ![r] = log']
    /\ UNCHANGED status

Answer(r) ==
    /\ status[r] = "asked"
    /\ seen[r] # None
    /\ status' = [status EXCEPT ![r] = "answered"]
    /\ UNCHANGED <<log, seen>>

\* An internal error, a dropped connection, or a client that no longer waits.
GiveUp(r) ==
    /\ status[r] = "asked"
    /\ status' = [status EXCEPT ![r] = "failed"]
    /\ UNCHANGED <<log, seen>>

Next == \E r \in Requests : Ask(r) \/ TakeEffect(r) \/ Answer(r) \/ GiveUp(r)

Spec == Init /\ [][Next]_vars
=============================================================================
