---------------------------- MODULE MCUiPolling ----------------------------
(* Small instances of UiPolling for TLC. *)
EXTENDS UiPolling

CONSTANTS r1, r2

Scenario(calls, jobs, events, lossy) ==
    [calls |-> calls, jobs |-> jobs, events |-> events, lossy |-> lossy]

AllScenarios ==
    {Scenario({r1}, 2, 2, FALSE), Scenario({r1, r2}, 2, 1, FALSE), Scenario({r1, r2}, 1, 3, TRUE)}

Overlapping == {Scenario({r1, r2}, 1, 1, FALSE)}
=============================================================================
