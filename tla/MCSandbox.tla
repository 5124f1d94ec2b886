----------------------------- MODULE MCSandbox ------------------------------
(* Instances of Sandbox for TLC. *)
EXTENDS Sandbox, TLC

CONSTANTS a, b, c, d, b1, b2

E(call, next) == [libcallid |-> call, next_progstate |-> next]

\* Three states each, no edge back to state 0.  One is a chain that then loops,
\* the other a choice between two calls.
Chain  == << <<E(1, 1)>>, <<E(2, 2)>>, <<E(2, 2)>> >>
Choice == << <<E(2, 2), E(1, 1)>>, <<E(1, 1)>>, <<>> >>
MCPolicy == (a :> Chain @@ b :> Choice)

\* A loop back to the root.
MCLoop == (a :> << <<E(1, 1)>>, <<E(2, 0)>> >> @@ b :> Chain)

\* Two states each, for the runs in which system calls overlap.
Step2 == << <<E(1, 1)>>, <<>> >>
Loop2 == << <<E(2, 1)>>, <<E(1, 1)>> >>
MCSmall == [t \in Task |-> IF t = b THEN Loop2 ELSE Step2]

\* Memory that was never written holds no policy.
MCLeftover == {ZeroBlock}

\* A program calls sandbox_init once, or a does so again.
Once == [t \in Task |-> 1]
MCAgain == [Once EXCEPT ![a] = 2]

AllFull == [t \in Task |-> "full"]

\* Two programs with policies, one that hands over a text and one nothing.
MCMixed == [t \in Task |-> IF t \in {b, d} THEN Choice ELSE Chain]
MixedInputs == [t \in Task |-> CASE t = c -> "short" [] t = d -> "empty" [] OTHER -> "full"]

=============================================================================
