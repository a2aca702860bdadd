----------------------------- MODULE UiElections -----------------------------
(***************************************************************************)
(* The election tabs of the page (static/app.js): which election is        *)
(* selected, whose summary and whose bulletin board are displayed, while   *)
(* clicks, the 4 s timer and answers to earlier requests interleave at the *)
(* awaits.  Requests to the server are answered in any order; a page that  *)
(* carries its own instance (WasmBridge) is answered in the order of its   *)
(* requests.  Elections are numbered in the order of their creation.       *)
(***************************************************************************)
EXTENDS Naturals, Sequences, SequencesExt

CONSTANTS
    MaxMoves,   \* bound: clicks of the user
    MaxCalls,   \* bound: requests under way at the same time
    MaxLosses,  \* bound: requests that fail
    None        \* nothing: no election, no answer, no data

VARIABLES
    in_order,   \* whether requests are answered in order (AGGIOS_WASM)
    elections,  \* the service: version of each election
    calls,      \* requests under way, in the order they were sent
    current,    \* currentElection
    options,    \* number of elections the selector offers
    data,       \* electionData: the election and the version of the summary, or None
    rendered,   \* lastRenderedState: what the page displays, or <<>>
    board,      \* the election whose bulletin board is displayed, or None
    choice,     \* history: the election the user selected or created last, or None
    moves,      \* clicks so far
    losses      \* failed requests so far

vars == <<in_order, elections, calls, current, options, data, rendered, board,
          choice, moves, losses>>

Call(kind, eid) == [kind |-> kind, eid |-> eid, answer |-> None]

\* The page is loaded (refreshAll at its end); there may be elections already.
Init ==
    /\ in_order \in BOOLEAN
    /\ elections \in {<<>>, <<0, 0>>}
    /\ calls = <<Call("list", None)>>
    /\ current = None
    /\ options = 0
    /\ data = None
    /\ rendered = <<>>
    /\ board = None
    /\ choice = None
    /\ moves = 0
    /\ losses = 0

page == <<current, options, data, rendered, board, choice>>

-----------------------------------------------------------------------------
(* The service *)

\* The answer to a request and the elections after it.
Response(c) ==
    CASE c.kind = "list"    -> Len(elections)
      [] c.kind = "create"  -> Len(elections) + 1
      [] c.kind = "act"     -> c.eid
      [] c.kind = "summary" -> [id |-> c.eid, version |-> elections[c.eid]]
      [] c.kind = "board"   -> c.eid

Effect(c) ==
    CASE c.kind = "create" -> Append(elections, 0)
      [] c.kind = "act"    -> [elections EXCEPT ![c.eid] = @ + 1]
      [] OTHER             -> elections

Serve(i) ==
    /\ calls[i].answer = None
    /\ in_order => \A j \in 1..(i - 1) : calls[j].answer # None
    /\ calls' = [calls EXCEPT ![i].answer = Response(calls[i])]
    /\ elections' = Effect(calls[i])
    /\ UNCHANGED <<in_order, page, moves, losses>>

-----------------------------------------------------------------------------
(* The page *)

Finish(i) == RemoveAt(calls, i)

\* refreshElection sends a request for the summary of the election that is current now;
\* without one the page is cleared.  The other calls are those that remain.
refreshElection(eid, others) ==
    IF eid = None
    THEN /\ data' = None /\ rendered' = <<>> /\ board' = None
         /\ calls' = others
    ELSE /\ calls' = Append(others, Call("summary", eid))
         /\ UNCHANGED <<data, rendered, board>>

\* Rendered only when another election is to be displayed.
ShowSummary_by_id(i, summary) ==
    /\ data' = summary
    /\ calls' = Finish(i)
    /\ rendered' = IF summary # None /\ rendered \notin {<<>>, <<None>>}
                      /\ rendered[1].id = summary.id
                   THEN rendered ELSE <<summary>>
    /\ UNCHANGED <<current, options, board, choice>>

\* refreshElection after its await.  Nothing is rendered again when nothing changed;
\* renderValidator asks for the board of the election that is current by then.
ShowSummary(i, summary) ==
    /\ data' = summary
    /\ IF rendered = <<summary>>
       THEN /\ calls' = Finish(i)
            /\ UNCHANGED <<rendered, board>>
       ELSE /\ rendered' = <<summary>>
            /\ IF summary = None
               THEN board' = None /\ calls' = Finish(i)
               ELSE /\ calls' = IF current = None THEN Finish(i)
                                ELSE Append(Finish(i), Call("board", current))
                    /\ UNCHANGED board
    /\ UNCHANGED <<current, options, choice>>

\* The newest election is selected, without a look at the one that was.
ShowList_newest(i, n) ==
    /\ options' = n
    /\ current' = IF n > 0 THEN n ELSE None
    /\ refreshElection(current', Finish(i))
    /\ UNCHANGED choice

\* refreshElectionList after its await, then refreshElection (refreshAll).
ShowList(i, n) ==
    /\ options' = n
    /\ current' = IF current # None /\ current <= n THEN current
                  ELSE IF n > 0 THEN n ELSE None
    /\ refreshElection(current', Finish(i))
    /\ UNCHANGED choice

\* The create button after its await: refreshAll.
ShowCreated(i, eid) ==
    /\ current' = eid
    /\ choice' = eid
    /\ calls' = Append(Finish(i), Call("list", None))
    /\ UNCHANGED <<options, data, rendered, board>>

ShowBoard(i, eid) ==
    /\ board' = eid
    /\ calls' = Finish(i)
    /\ UNCHANGED <<current, options, data, rendered, choice>>

\* A phase button after its await.
ActDone(i) ==
    /\ refreshElection(current, Finish(i))
    /\ UNCHANGED <<current, options, choice>>

Arrive(i) ==
    /\ calls[i].answer # None
    /\ in_order => i = 1
    /\ LET c == calls[i]
       IN \/ c.kind = "list"    /\ ShowList(i, c.answer)
          \/ c.kind = "summary" /\ ShowSummary(i, c.answer)
          \/ c.kind = "create"  /\ ShowCreated(i, c.answer)
          \/ c.kind = "board"   /\ ShowBoard(i, c.answer)
          \/ c.kind = "act"     /\ ActDone(i)
    /\ UNCHANGED <<in_order, elections, moves, losses>>

\* A request fails, before or after it was served: only a summary changes the page.
Lose(i) ==
    /\ losses < MaxLosses
    /\ losses' = losses + 1
    /\ IF calls[i].kind = "summary"
       THEN ShowSummary(i, None)
       ELSE calls' = Finish(i) /\ UNCHANGED page
    /\ UNCHANGED <<in_order, elections, moves>>

-----------------------------------------------------------------------------
(* The user and the timer *)

Click ==
    /\ moves < MaxMoves /\ Len(calls) < MaxCalls
    /\ moves' = moves + 1
    /\ UNCHANGED <<in_order, elections, losses>>

Select ==
    /\ Click
    /\ \E eid \in 1..options :
          /\ current' = eid /\ choice' = eid
          /\ refreshElection(eid, calls)
    /\ UNCHANGED options

\* Refresh, or the part of it that asks for the list.
Refresh == Click /\ calls' = Append(calls, Call("list", None)) /\ UNCHANGED page

Create == Click /\ calls' = Append(calls, Call("create", None)) /\ UNCHANGED page

\* Any button that changes the election that is current.
Act ==
    /\ Click
    /\ current # None
    /\ calls' = Append(calls, Call("act", current))
    /\ UNCHANGED page

\* setInterval: a refresh every 4 s while an election is selected.
Timer ==
    /\ \/ /\ current # None
          /\ Len(calls) < MaxCalls
          /\ refreshElection(current, calls)
       \/ /\ current = None
          /\ UNCHANGED <<calls, data, rendered, board>>
    /\ UNCHANGED <<in_order, elections, current, options, choice, moves, losses>>

-----------------------------------------------------------------------------
Next ==
    \/ \E i \in DOMAIN calls : Serve(i) \/ Arrive(i) \/ Lose(i)
    \/ Select \/ Refresh \/ Create \/ Act
    \/ Timer

\* Requests are answered, oldest first if nothing else decides, and the timer runs.
Fairness ==
    /\ WF_vars(calls # <<>> /\ Serve(1))
    /\ WF_vars(calls # <<>> /\ Arrive(1))
    /\ WF_vars(Timer)

Spec == Init /\ [][Next]_vars /\ Fairness

-----------------------------------------------------------------------------
(* Properties *)

\* INVARIANT.  When answers come in order, nothing but the user changes the selection:
\* not the list of an earlier refresh that misses a new election (refreshElectionList).
\* To a server, such a list moves the page away from the election just created.
UserChoiceKept == in_order /\ choice # None => current = choice

\* PROPERTY (liveness).  When the user has stopped clicking, the page comes to display
\* the selected election as it is, whatever was answered late or failed: every summary
\* is replaced by a newer one (the timer of app.js), and a page that is not rendered
\* again shows the data it has (lastRenderedState).
PageSettles ==
    <>[](current # None =>
           /\ data = [id |-> current, version |-> elections[current]]
           /\ rendered = <<data>>)

\* PROPERTY (liveness, violated).  The same for the bulletin board, when nothing is lost:
\* it too comes to be that of the selected election.  It does not, because it is asked
\* for only when a summary differs from the one displayed.
BoardSettles ==
    <>[](current # None /\ losses = 0 => board = current)
=============================================================================
