---------------------------- MODULE MCUserGraph -----------------------------
(* Instances of UserGraph for TLC. *)
EXTENDS UserGraph

E(call, next) == [libcallid |-> call, next_progstate |-> next]

\* A leaf; one edge, to a node or to itself or to a node that does not exist,
\* depending on where it is added; two edges with one label.
MCEdgeLists == { <<>>, <<E(1, 1)>>, <<E(1, 1), E(1, 2)>> }
MCManyNodes == { <<>> }

=============================================================================
