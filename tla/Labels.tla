-------------------------------- MODULE Labels --------------------------------
(***************************************************************************)
(* The labels of an election (labels.rs, hash.rs): one scalar per          *)
(* candidate in display order, then NO_VOTE, then PAD, each by hashing,    *)
(* and by hashing again with a counter while the digest is zero or taken.  *)
(*                                                                         *)
(* The hash is a random oracle onto a set of scalars small enough for      *)
(* collisions: an input may be given any digest, and keeps it.  Candidates *)
(* of a benchmark are taken as they are configured, the same one twice     *)
(* included.                                                               *)
(***************************************************************************)
EXTENDS Naturals, Sequences

CONSTANTS
    CandidateIds,
    NO_VOTE, PAD,
    Scalars,       \* the scalar field, zero included
    MaxCandidates, \* bound
    MaxCounter     \* bound: hashing again

VARIABLES
    candidates,
    hashed,   \* what has been hashed so far: input and digest
    counter,
    labels    \* the labels derived so far

vars == <<candidates, hashed, counter, labels>>

\* What the labels are derived from, in the order of partition_labels.
sources == candidates \o <<NO_VOTE, PAD>>

Init ==
    /\ candidates \in UNION {[1..m -> CandidateIds] : m \in 1..MaxCandidates}
    /\ hashed = {}
    /\ counter = 0
    /\ labels = <<>>

\* The digests that hash_to_fr may give: the one it gave before, or any.
hash_to_fr(input) ==
    LET before == {h.digest : h \in {g \in hashed : g.input = input}}
    IN  IF before = {} THEN Scalars ELSE before

\* Mutant: only the candidates' labels are taken.
taken_by_candidates == {labels[i] : i \in {k \in DOMAIN labels : k <= Len(candidates)}}

taken == {labels[i] : i \in DOMAIN labels}

\* One round of the loop of derive_distinct, for the next label.  Without a counter the
\* input is the plain one.
derive_distinct ==
    LET input == [source |-> sources[Len(labels) + 1], counter |-> counter] IN
    /\ Len(labels) < Len(sources)
    /\ \E w \in hash_to_fr(input) :
          /\ hashed' = hashed \cup {[input |-> input, digest |-> w]}
          /\ IF w # 0 /\ w \notin taken
             THEN /\ labels' = Append(labels, w)
                  /\ counter' = 0
             ELSE /\ counter < MaxCounter
                  /\ counter' = counter + 1
                  /\ UNCHANGED labels
    /\ UNCHANGED candidates

Next == derive_distinct

Spec == Init /\ [][Next]_vars

-----------------------------------------------------------------------------
(* Properties. *)

\* "All labels must be nonzero and pairwise distinct", whatever collides with what, and
\* when a candidate is configured twice.
LabelsDistinct ==
    /\ \A i \in DOMAIN labels : labels[i] # 0
    /\ \A i, j \in DOMAIN labels : i # j => labels[i] # labels[j]
=============================================================================
