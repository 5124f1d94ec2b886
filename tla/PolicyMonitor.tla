---------------------------- MODULE PolicyMonitor ---------------------------
(***************************************************************************)
(* What the sandbox promises: every process is followed through the policy *)
(* graph generated from its own code, whatever other processes do, and is  *)
(* killed at its first library call that no path of that graph allows.  A  *)
(* process that failed to hand its graph over runs unguarded: nothing is   *)
(* promised of it, and nothing it does may show in the others.  It may     *)
(* hand its graph over again: a failure then leaves it where it was.       *)
(***************************************************************************)
EXTENDS Integers, Sequences

CONSTANTS Task,     \* processes
          Call,     \* ids of library calls
          Policy    \* Policy[t][s + 1]: the edges that leave state s of t's graph

VARIABLES status,   \* "new", "running", "unguarded", "killed" or "gone"
          at        \* the states t may be in, after the calls it has made

mvars == <<status, at>>

\* The states reached from those in S by an edge labelled call.
After(policy, S, call) ==
    UNION {{policy[s + 1][j].next_progstate :
              j \in {k \in 1..Len(policy[s + 1]) : policy[s + 1][k].libcallid = call}} :
           s \in {s \in S : s < Len(policy)}}

MInit == /\ status = [t \in Task |-> "new"]
         /\ at = [t \in Task |-> {}]

\* The first sandbox_init returns, with a graph or without, or its caller dies in
\* it; a later one that succeeds takes the process back to the root.
Start(t, outcome) == /\ \/ status[t] = "new"
                        \/ status[t] \in {"unguarded", "running"} /\ outcome = "running"
                     /\ status' = [status EXCEPT ![t] = outcome]
                     /\ at' = [at EXCEPT ![t] = IF outcome = "running" THEN {0} ELSE {}]

Accept(t, call) == /\ status[t] = "running"
                   /\ After(Policy[t], at[t], call) # {}
                   /\ at' = [at EXCEPT ![t] = After(Policy[t], at[t], call)]
                   /\ UNCHANGED status

Kill(t, call) == /\ status[t] = "running"
                 /\ After(Policy[t], at[t], call) = {}
                 /\ status' = [status EXCEPT ![t] = "killed"]
                 /\ UNCHANGED at

\* An unguarded process may be killed for any call.
Leave(t) == /\ \/ status[t] = "running"   /\ status' = [status EXCEPT ![t] = "gone"]
               \/ status[t] = "unguarded" /\ \E o \in {"gone", "killed"} : status' = [status EXCEPT ![t] = o]
            /\ UNCHANGED at

MNext == \E t \in Task : \/ \E outcome \in {"running", "unguarded", "killed"} : Start(t, outcome)
                         \/ \E call \in Call : Accept(t, call) \/ Kill(t, call)
                         \/ Leave(t)

MSpec == MInit /\ [][MNext]_mvars

=============================================================================
