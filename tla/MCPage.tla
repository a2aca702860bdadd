------------------------------- MODULE MCPage -------------------------------
(* The page: either its benchmark tab or its election tabs are used.  They share no    *)
(* state, so a behaviour of the page is one of each, and each is taken by itself.       *)
EXTENDS MCUiPolling

CONSTANTS MaxMoves, MaxCalls, MaxLosses

VARIABLES tab,
    in_order, elections, calls, current, options, data, rendered, board, choice, moves, losses

E == INSTANCE UiElections

electionVars == <<in_order, elections, calls, current, options, data, rendered, board,
                  choice, moves, losses>>

\* Before the page asks for anything: nothing of the election tabs is enabled.
NotLoaded ==
    /\ in_order = FALSE /\ elections = <<>> /\ calls = <<>> /\ current = None /\ options = 0
    /\ data = None /\ rendered = <<>> /\ board = None /\ choice = None
    /\ moves = 0 /\ losses = 0

PageInit ==
    /\ Init
    /\ \/ tab = "benchmark" /\ NotLoaded
       \/ tab = "elections" /\ E!Init /\ scenario = Scenario({r1}, 2, 2, FALSE)

PageNext ==
    \/ tab = "benchmark" /\ Next /\ UNCHANGED <<tab, electionVars>>
    \/ tab = "elections" /\ E!Next /\ UNCHANGED <<tab, vars>>

PageSpec == PageInit /\ [][PageNext]_<<tab, vars, electionVars>> /\ Fairness /\ E!Fairness

\* INVARIANT.  When answers come in order, nothing but the user changes the selection
\* (see UiElections).
UserChoiceKept == E!UserChoiceKept

\* PROPERTY (liveness).  When the user has stopped clicking, the page comes to display the
\* selected election as it is (see UiElections).
PageSettles == E!PageSettles
=============================================================================
