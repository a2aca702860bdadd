------------------------------ MODULE SrsCache ------------------------------
(***************************************************************************)
(* The cache of proof parameters (epa_adapter.rs 60-126): one bundle per   *)
(* domain size in a map behind a mutex, and in each bundle a Lagrange      *)
(* basis that the first thread to ask computes while the others wait.      *)
(* Threads that miss at the same time build at the same time, without the  *)
(* mutex, and the first to store wins.                                     *)
(*                                                                         *)
(* A bundle is named by its size and the thread that built it: the content *)
(* depends on the size only (fixed seed), but each has a basis of its own. *)
(***************************************************************************)
EXTENDS Integers

CONSTANTS
    None,
    Threads,
    Sizes     \* the sizes that are asked for

VARIABLES
    cache,       \* per size: the bundle in the map
    lagrange_g1, \* per bundle: "unset", "computing" or "set"
    thread       \* per thread: its position and the size or bundle it works on

vars == <<cache, lagrange_g1, thread>>

Bundles == [size : Sizes, builder : Threads]

is_power_of_two(n) == \E k \in 0..n : n = 2^k

Working(t, pc) == thread[t].pc = pc

\* t goes to pc with x.
Goes(t, pc, x) == thread' = [thread EXCEPT ![t] = [pc |-> pc, x |-> x]]

Init ==
    /\ cache = [n \in Sizes |-> None]
    /\ lagrange_g1 = [b \in Bundles |-> "unset"]
    /\ thread = [t \in Threads |-> [pc |-> "idle", x |-> None]]

-----------------------------------------------------------------------------

\* get_or_create_srs up to the end of the lookup; other sizes are an error.
get_or_create_srs(t, n) ==
    /\ Working(t, "idle")
    /\ is_power_of_two(n)
    /\ IF cache[n] # None THEN Goes(t, "holds", cache[n])
                          ELSE Goes(t, "builds", n)
    /\ UNCHANGED <<cache, lagrange_g1>>

\* The setup fails, or memory does.
BuildFails(t) ==
    /\ Working(t, "builds")
    /\ Goes(t, "idle", None)
    /\ UNCHANGED <<cache, lagrange_g1>>

\* Mutant: the last to store wins.
Store_last(t) ==
    LET n == thread[t].x
        b == [size |-> n, builder |-> t]
    IN  /\ Working(t, "builds")
        /\ cache' = [cache EXCEPT ![n] = b]
        /\ Goes(t, "holds", b)
        /\ UNCHANGED lagrange_g1

\* Mutant: one cell for all sizes.
Store_one_cell(t) ==
    LET n      == thread[t].x
        cached == {cache[m] : m \in Sizes} \ {None}
        b      == IF cached # {} THEN CHOOSE c \in cached : TRUE ELSE [size |-> n, builder |-> t]
    IN  /\ Working(t, "builds")
        /\ cache' = [cache EXCEPT ![n] = b]
        /\ Goes(t, "holds", b)
        /\ UNCHANGED lagrange_g1

\* cache.entry(n).or_insert(bundle).clone(): a bundle that came first is kept and used.
Store(t) ==
    LET n == thread[t].x
        b == IF cache[n] # None THEN cache[n] ELSE [size |-> n, builder |-> t]
    IN  /\ Working(t, "builds")
        /\ cache' = [cache EXCEPT ![n] = b]
        /\ Goes(t, "holds", b)
        /\ UNCHANGED lagrange_g1

\* get_or_init: the basis is there, or this thread computes it; others wait.
lagrange_basis(t) ==
    LET b == thread[t].x IN
    /\ Working(t, "holds")
    /\ \/ /\ lagrange_g1[b] = "set"
          /\ Goes(t, "has basis", b)
          /\ UNCHANGED lagrange_g1
       \/ /\ lagrange_g1[b] = "unset"
          /\ lagrange_g1' = [lagrange_g1 EXCEPT ![b] = "computing"]
          /\ Goes(t, "computes", b)
    /\ UNCHANGED cache

BasisDone(t) ==
    LET b == thread[t].x IN
    /\ Working(t, "computes")
    /\ lagrange_g1' = [lagrange_g1 EXCEPT ![b] = "set"]
    /\ Goes(t, "has basis", b)
    /\ UNCHANGED cache

\* Mutant: the cell stays taken.
BasisPanics_poisoned(t) ==
    /\ Working(t, "computes")
    /\ Goes(t, "idle", None)
    /\ UNCHANGED <<cache, lagrange_g1>>

\* A panic of the initializer leaves the cell empty.
BasisPanics(t) ==
    LET b == thread[t].x IN
    /\ Working(t, "computes")
    /\ lagrange_g1' = [lagrange_g1 EXCEPT ![b] = "unset"]
    /\ Goes(t, "idle", None)
    /\ UNCHANGED cache

\* The caller is done with its bundle; it need not have asked for the basis.
Drop(t) ==
    /\ Working(t, "holds") \/ Working(t, "has basis")
    /\ Goes(t, "idle", None)
    /\ UNCHANGED <<cache, lagrange_g1>>

Proceeds(t) == Store(t) \/ lagrange_basis(t) \/ BasisDone(t)

Next ==
    \E t \in Threads :
        \/ \E n \in Sizes : get_or_create_srs(t, n)
        \/ BuildFails(t)
        \/ Proceeds(t)
        \/ BasisPanics(t)
        \/ Drop(t)

\* Threads that work go on, and of those that wait for a cell each gets its turn.
Fairness == \A t \in Threads : SF_vars(Proceeds(t))

Spec == Init /\ [][Next]_vars /\ Fairness

-----------------------------------------------------------------------------
(* Properties. *)

Positions ==
    [pc : {"idle"}, x : {None}]
        \cup [pc : {"builds"}, x : Sizes]
        \cup [pc : {"holds", "computes", "has basis"}, x : Bundles]

\* The map has under each size nothing or a bundle of that size.
TypeOK ==
    /\ cache \in [Sizes -> Bundles \cup {None}]
    /\ \A n \in Sizes : cache[n] # None => cache[n].size = n
    /\ lagrange_g1 \in [Bundles -> {"unset", "computing", "set"}]
    /\ thread \in [Threads -> Positions]

\* All users of a size share one bundle, the one in the map, whoever built it and however
\* many built one at the same time.
OneBundlePerSize ==
    \A t \in Threads : thread[t].pc \in {"holds", "computes", "has basis"} =>
        thread[t].x = cache[thread[t].x.size]

\* "computed once per size": no two bundles of a size have a basis or get one, no two
\* threads compute one for the same size, and none computes a basis that is there.
BasisOncePerSize ==
    /\ \A b, c \in Bundles :
          lagrange_g1[b] # "unset" /\ lagrange_g1[c] # "unset" /\ b.size = c.size => b = c
    /\ \A t, u \in Threads : Working(t, "computes") /\ Working(u, "computes")
                                 /\ thread[t].x.size = thread[u].x.size => t = u
    /\ \A t \in Threads : Working(t, "computes") => lagrange_g1[thread[t].x] = "computing"

\* A thread that waits for a basis somebody else computes is not left waiting.
WaitersGoOn == \A t \in Threads : Working(t, "holds") ~> ~Working(t, "holds")
=============================================================================
