----------------------------- MODULE MCMediaStreams -----------------------------
(* Instances of MediaStreams for TLC. *)
EXTENDS MediaStreams, FiniteSets, TLC

CONSTANTS l1, l2

Symmetry == Permutations(Line)

\* Each mishap weakens what is claimed, and none is forgotten but at rest: after two of
\* them behaviours are not followed further.
FewMishaps == Cardinality(mishaps) <= 2

=============================================================================
