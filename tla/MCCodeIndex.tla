---------------------------- MODULE MCCodeIndex ----------------------------
(* CodeIndex on small sets.                                                *)
EXTENDS CodeIndex, MCRouteSources, TLC

CONSTANTS gateway, views, models, handlers, initial

\* The file read from source may be there or not.
MCInitially == {[f \in File |-> IF f \in missing THEN None ELSE initial] : missing \in SUBSET {handlers}}

\* Processes are interchangeable.
Symmetry == Permutations(Proc)

\* What the passes over the source put in the index: an endpoint that reading a file says
\* there is, is one the program serves, and a route whose path cannot be told is told of
\* (golang/routes.go, "reported, never emitted: an invented endpoint gets tests drafted that
\* 404"; mount.go, "a route is only returned when every prefix above it is known").
ReadRoutesAreServed == passes > 0 => GoRoutesAreServed /\ MountedRoutesAreServed
=============================================================================
