--------------------------- MODULE MCCallGraphGen ---------------------------
(* Instances of CallGraphGen for TLC. *)
EXTENDS CallGraphGen, TLC

CONSTANTS f, syscall_log

Libc(n) == [kind |-> "libc", name |-> n]
Other   == [kind |-> "other", name |-> 9]
User(n) == [kind |-> "user", name |-> n]

\* A function of n blocks, entered at the first, left at the last.
Blocks(n, succ, calls) ==
    [blocks |-> 1..n, entry |-> 1, exit |-> n, succ |-> succ, calls |-> calls]

Leaf == Blocks(1, {}, << <<>> >>)

\* Every control flow over three blocks the last of which returns, with at most
\* one of two library calls in each block: branches, one-armed branches, loops
\* with and without calls.
Flows == {s \in SUBSET {<<1, 2>>, <<1, 3>>, <<2, 2>>, <<2, 3>>} :
            \A b \in 2..3 : \E d \in s : d[2] = b}
Calls1 == {<<>>, <<Libc(1)>>, <<Libc(2)>>}
MCOneFunction == {(main :> Blocks(3, s, <<c1, c2, c3>>) @@ f :> Leaf) :
                     s \in Flows, c1 \in Calls1, c2 \in Calls1, c3 \in Calls1}

\* main calls f, once or twice, between library calls of its own; f branches.
MCTwoFunctions ==
    {(main :> Blocks(2, {<<1, 2>>}, <<c1, c2>>) @@ f :> Blocks(2, s, <<d1, d2>>)) :
        c1 \in {<<User(f)>>, <<Libc(1), User(f)>>, <<User(f), User(f)>>},
        c2 \in {<<>>, <<Libc(1)>>, <<User(f)>>, <<Other>>},
        s \in {{<<1, 2>>}, {<<1, 2>>, <<2, 2>>}},
        d1 \in {<<>>, <<Libc(1)>>}, d2 \in {<<>>, <<Libc(2)>>}}

\* The call of f is one of two arms that make the same library call, so that the
\* vertex of the call has several neighbours.
MCArms ==
    {(main :> Blocks(4, {<<1, 2>>, <<1, 3>>, <<2, 4>>, <<3, 4>>},
                     << <<>>, <<User(f), Libc(1)>>, <<Libc(1)>>, c4 >>)
      @@ f :> Blocks(1, {}, << <<Libc(2)>> >>)) : c4 \in {<<>>, <<Libc(2)>>}}

\* f loops without a call, so that its entry may be merged away; main calls a
\* function the pass skips; main calls itself.
MCEntry == {(main :> Blocks(1, {}, << <<User(f), Libc(1)>> >>)
             @@ f :> Blocks(4, {<<1, 2>>, <<2, 3>>, <<3, 2>>, <<3, 4>>}, << <<>>, <<>>, <<>>, c4 >>)) :
               c4 \in {<<>>, <<Libc(2)>>}}
           \cup {(main :> Blocks(1, {}, << <<User(syscall_log), Libc(1)>> >>))}
           \cup {(main :> Blocks(3, {<<1, 2>>, <<1, 3>>, <<2, 3>>}, << c1, <<User(main)>>, <<Libc(2)>> >>)) :
                    c1 \in {<<>>, <<Libc(1)>>}}

\* f does not return, or has a block that cannot be reached, which is taken for its
\* entry.
Die       == [Blocks(2, {<<1, 2>>}, << <<>>, <<Libc(2)>> >>) EXCEPT !.exit = NULL]
Orphan(c) == [Blocks(3, {<<1, 2>>, <<3, 2>>}, << <<Libc(2)>>, <<>>, c >>) EXCEPT !.entry = 3, !.exit = 2]
MCOdd == {(main :> Blocks(2, {<<1, 2>>}, << <<User(f)>>, <<Libc(1)>> >>) @@ f :> g) :
             g \in {Die, Orphan(<<>>), Orphan(<<Libc(1)>>)}}

MCAll == MCOneFunction \cup MCTwoFunctions \cup MCArms \cup MCEntry \cup MCOdd

\* if (...) printf(); else puts();
IfElse == Blocks(4, {<<1, 2>>, <<1, 3>>, <<2, 4>>, <<3, 4>>},
                 << <<>>, <<Libc(1)>>, <<Libc(2)>>, <<>> >>)
MCIfElse == {(main :> IfElse)}

=============================================================================
