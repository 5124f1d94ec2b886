------------------------------- MODULE Sandbox ------------------------------
(***************************************************************************)
(* The kernel side: the system calls of sandboxing.c and the kernel build  *)
(* of memgraph.c.  The policy graph, the listing, the cursor and the copy  *)
(* buffer are single globals with no lock; tasks run preemptively and on   *)
(* several processors, so a step of one task may fall between any two      *)
(* steps of another, and within a memset or a copy.                        *)
(*                                                                         *)
(* A program that was instrumented by the LLVM pass calls sandbox_init on  *)
(* entry to main, ignores what it returns, calls sandbox_dummycall before  *)
(* every library call, and sandbox_cleanup on its way out of main.  The    *)
(* busybox applet hands over a text, then makes the calls 1, 2, 3... until *)
(* one of them returns an error.                                           *)
(*                                                                         *)
(* One step: finding no pool and creating it; finding no listing and       *)
(* allocating it; a node in verify_graph; a search for an edge; the        *)
(* assignments to the two halves of the cursor.                            *)
(***************************************************************************)
EXTENDS MemGraph, FiniteSets

CONSTANTS Task, Call, Policy,
          Input,        \* Input[t]: what t hands to sandbox_init: "full", the
                        \* image of its policy; "short", a 60-byte text as the
                        \* busybox applet does; "empty", size 0
          Buffer,       \* where kmalloc may find room
          Leftover,     \* what memory that was never written may hold
          Stops,        \* cells before which a memset or a copy may be interrupted
          Failures,     \* the failures that may happen: "kmalloc", "copy", "pool"
          MaxRunning,   \* how many tasks run at a time
          MaxInKernel,  \* how many of them are inside a system call at a time
          MaxInits,     \* MaxInits[t]: bound on the sandbox_init calls of t
          MaxCalls      \* bound: library calls of a task

VARIABLES
    kernel_buffer,                    \* global of sandboxing.c
    pool, nodes,                      \* statics of memgraph.c
    current_progstate, start_node,
    allocated, size, contents,        \* the kernel's heap: the buffers in use,
                                      \* for whose input, and what they hold
    pc,       \* where each task is
    data,     \* the buffer handed to its copy_from_user or initialize_graph
    done,     \* the cell its memset or copy has come to, -1 before the metadata
    i, at,    \* its loop variables in verify_graph
    arg,      \* its pending library call
    inits,    \* sandbox_init calls it has made
    calls,    \* library calls it has made
    faults,   \* history: memory errors that have happened
    own       \* history: the states of its own policy the task may be in, none
              \* for a task that has not given the kernel its policy

graph  == <<pool, nodes>>
cursor == <<current_progstate, start_node>>
frame  == <<data, done, i, at>>
memory == <<kernel_buffer, allocated, size, contents, faults>>
count  == <<inits, calls>>
vars   == <<graph, cursor, frame, memory, count, pc, arg, own>>

-----------------------------------------------------------------------------
(* A megabyte of memory, read as struct memory_pool.  The offset of the node *)
(* table is given as the cell it leads to, -1 for the metadata itself.       *)

Block == [magic : {"graph", "other"}, graph_finalized : {0, 1}, num_nodes : Nat,
          nodes_table_offset : -1..PoolCells, cells : [Address -> Cell]]

\* All zero.
ZeroBlock == [magic |-> "other", graph_finalized |-> 0, num_nodes |-> 0,
              nodes_table_offset |-> -1, cells |-> [a \in Address |-> ZeroCell]]

\* The pool as create_pool leaves it.
NewPool == [ZeroBlock EXCEPT !.magic = "graph", !.nodes_table_offset = 0]

\* The image of a policy, as alloc_node and finalize_graph build it when given
\* its states in order: node s at Start(policy)[s], its edges after it.
Start(policy) ==
    LET f[s \in 0..Len(policy)] == IF s = 0 THEN 0 ELSE f[s - 1] + 1 + Len(policy[s])
    IN  f

Image(policy) ==
    LET f == Start(policy)
        Node(a) == CHOOSE s \in 0..(Len(policy) - 1) : f[s] <= a /\ a < f[s + 1]
    IN  [magic |-> "graph", graph_finalized |-> 1, num_nodes |-> Len(policy),
         nodes_table_offset |-> 0,
         cells |-> [a \in Address |->
            IF a >= f[Len(policy)] THEN ZeroCell
            ELSE IF a = f[Node(a)] THEN NodeCell(Node(a), Len(policy[Node(a) + 1]))
            ELSE EdgeCell(policy[Node(a) + 1][a - f[Node(a)]])]]

\* A policy is a graph with its nodes and edges as alloc_node lays them out.
ASSUME SandboxAssumption ==
    /\ Failures \subseteq {"kmalloc", "copy", "pool"}
    /\ Input \in [Task -> {"full", "short", "empty"}]
    /\ Call \subseteq Nat /\ NULL \notin Buffer /\ NULL \notin Block
    /\ Leftover \subseteq Block /\ Stops \subseteq Address
    /\ Policy \in [Task -> Seq(Seq(Edge(Nat, Nat)))]
    /\ \A t \in Task : Start(Policy[t])[Len(Policy[t])] <= PoolCells
    /\ MaxRunning \in Nat /\ MaxInKernel \in Nat /\ MaxCalls \in Nat
    /\ MaxInits \in [Task -> Nat]

\* The tasks that hand a policy over.
Full == {t \in Task : Input[t] = "full"}

\* What t hands over: its image, or a text with bytes other than 0 in the place
\* of graph_finalized.
Data(t) == IF t \in Full THEN Image(Policy[t]) ELSE [ZeroBlock EXCEPT !.graph_finalized = 1]

\* Mutant: the size handed over is one cell short.
End_short(t) == IF t \in Full THEN PoolCells - 1 ELSE 0

\* Where a memset or a copy of t's size ends.  60 bytes reach up to, and not into,
\* num_nodes: only the metadata is touched.
End(t) == IF t \in Full THEN PoolCells ELSE 0

\* How far a memset or a copy of t may come from p without being interrupted.
Reach(t, p) == {q \in Stops \cup {End(t)} : p < q /\ q <= End(t)}

\* The block old after the part from p up to q of a copy of new, of t's size.
Piece(old, new, t, p, q) ==
    LET table == [a \in Address |-> IF p <= a /\ a < q THEN new.cells[a] ELSE old.cells[a]]
    IN  IF p # -1 THEN [old EXCEPT !.cells = table]
        ELSE IF t \in Full THEN [new EXCEPT !.cells = table]
        ELSE [old EXCEPT !.magic = new.magic, !.graph_finalized = new.graph_finalized]

\* What the monitor sees of a task at label l that may be in the states S and has
\* called sandbox_init n times.
StatusAt(l, S, n) ==
    CASE l \in {"killed", "oops"} -> "killed"
      [] l = "gone"               -> "gone"
      [] OTHER -> IF n = 0 \/ (n = 1 /\ l \notin {"user", "check", "advance"}) THEN "new"
                  ELSE IF S = {} THEN "unguarded" ELSE "running"

Monitor == INSTANCE PolicyMonitor WITH
    status <- [t \in Task |-> StatusAt(pc[t], own[t], inits[t])],
    at <- own

-----------------------------------------------------------------------------
\* Labels inside a system call.
KernelPC == {"init", "alloc", "copy", "fill", "dump", "call", "memset", "memcpy",
             "entry", "list", "loop", "reset", "check", "advance"}
TaskPC == KernelPC \cup {"new", "user", "killed", "oops", "gone"}

\* The listing verify_graph allocates; kzalloc fills it with null pointers.
NoListing == [cap |-> -1, slot |-> <<>>]
NewListing(c) == [cap |-> c, slot |-> [k \in 0..(c - 1) |-> NULL]]
Slot(l, k) == IF k \in 0..(l.cap - 1) THEN l.slot[k] ELSE WILD
Listing(l) == /\ l.cap \in Nat
              /\ l \in [cap : {l.cap}, slot : [0..(l.cap - 1) -> -1..PoolCells \cup {NULL}]]

\* However system calls overlap, globals and locals keep their types: the listing
\* and the cursor point at the pool, at its metadata where a memset cleared the
\* offset of the node table, or are NULL or stray; and no task gets to the pool
\* before there is one, or copies through NULL.
TypeOK ==
    /\ kernel_buffer \in Buffer \cup {NULL}
    /\ pool \in Block \cup {NULL}
    /\ nodes # NoListing => Listing(nodes) /\ pool # NULL
    /\ current_progstate \in Nat
    /\ start_node \in -1..PoolCells \cup {NULL, WILD}
    /\ allocated \subseteq Buffer
    /\ size \in [Buffer -> {"full", "short"}]
    /\ contents \in [Buffer -> Block]
    /\ pc \in [Task -> TaskPC]
    /\ data \in [Task -> Buffer \cup {NULL}]
    /\ done \in [Task -> -1..PoolCells]
    /\ i \in [Task -> Nat] /\ at \in [Task -> -1..PoolCells]
    /\ arg \in [Task -> Call \cup {NULL}]
    /\ inits \in [Task -> Nat] /\ calls \in [Task -> 0..MaxCalls]
    /\ faults \subseteq {"double free", "use after free", "overrun", "listing"}
    /\ own \in [Task -> SUBSET Nat]
    /\ \A t \in Task : /\ pc[t] = "fill" => data[t] # NULL
                       /\ pc[t] \in {"memset", "memcpy", "entry", "list", "loop"} => pool # NULL

Init ==
    /\ kernel_buffer = NULL
    /\ pool = NULL /\ nodes = NoListing
    /\ current_progstate = 0 /\ start_node = NULL
    /\ allocated = {} /\ size = [b \in Buffer |-> "short"]
    /\ contents \in [Buffer -> Leftover]
    /\ pc = [t \in Task |-> "new"]
    /\ data = [t \in Task |-> NULL] /\ done = [t \in Task |-> -1]
    /\ i = [t \in Task |-> 0] /\ at = [t \in Task |-> 0]
    /\ arg = [t \in Task |-> NULL]
    /\ inits = [t \in Task |-> 0] /\ calls = [t \in Task |-> 0]
    /\ faults = {}
    /\ own = [t \in Task |-> {}]

Goto(t, label) == pc' = [pc EXCEPT ![t] = label]

\* A task enters a system call.
Inside == {t \in Task : pc[t] \in KernelPC}
Enter(t, label) == Cardinality(Inside) < MaxInKernel /\ Goto(t, label)

\* kfree(kernel_buffer): nothing for NULL, an error for a buffer already freed.
\* S is what else goes wrong in the step.
kfree(S) ==
    /\ allocated' = allocated \ {kernel_buffer}
    /\ faults' = faults \cup S \cup
          (IF kernel_buffer \in allocated \cup {NULL} THEN {} ELSE {"double free"})

\* What goes wrong when t reads or writes as many bytes as it handed over in the
\* buffer b.
Access(t, b) ==
    (IF b \in allocated THEN {} ELSE {"use after free"}) \cup
    (IF t \in Full /\ size[b] = "short" THEN {"overrun"} ELSE {})

-----------------------------------------------------------------------------
(* sandbox_init(data, size) *)

Running == {t \in Task : pc[t] \notin {"new", "killed", "oops", "gone"}}

\* A task starts and enters main; or it enters another function whose name begins
\* with "main", where the pass inserts the call again.
exec(t) ==
    /\ \/ pc[t] = "new" /\ Cardinality(Running) < MaxRunning
       \/ pc[t] = "user" /\ Input[t] # "short"
    /\ inits[t] < MaxInits[t]
    /\ inits' = [inits EXCEPT ![t] = @ + 1]
    /\ Enter(t, "init")
    /\ UNCHANGED <<graph, cursor, frame, memory, calls, arg, own>>

\* Mutant: the buffer of the program before is forgotten.
free_existing_not == UNCHANGED <<allocated, faults>>

\* if (kernel_buffer) kfree(kernel_buffer)
free_existing == kfree({})

\* The argument check, then the free of an existing allocation.
init_free(t) ==
    /\ pc[t] = "init"
    /\ IF Input[t] = "empty"
       THEN Goto(t, "user") /\ UNCHANGED <<allocated, faults>>
       ELSE Goto(t, "alloc") /\ free_existing
    /\ UNCHANGED <<graph, cursor, frame, kernel_buffer, size, contents, count, arg, own>>

\* kmalloc: room that is not in use, with whatever it held before.  The program
\* goes on whatever sandbox_init returns.
init_alloc(t) ==
    /\ pc[t] = "alloc"
    /\ \/ \E b \in Buffer \ allocated :
             /\ kernel_buffer' = b
             /\ allocated' = allocated \cup {b}
             /\ size' = [size EXCEPT ![b] = IF t \in Full THEN "full" ELSE "short"]
             /\ Goto(t, "copy")
       \/ /\ "kmalloc" \in Failures \/ Buffer \subseteq allocated
          /\ kernel_buffer' = NULL
          /\ Goto(t, "user") /\ UNCHANGED <<allocated, size>>
    /\ UNCHANGED <<graph, cursor, frame, contents, faults, count, arg, own>>

\* The call of copy_from_user with the buffer kernel_buffer points at now.
init_copy(t) ==
    /\ pc[t] = "copy"
    /\ data' = [data EXCEPT ![t] = kernel_buffer]
    /\ Goto(t, IF kernel_buffer = NULL THEN "oops" ELSE "fill")
    /\ UNCHANGED <<graph, cursor, done, i, at, memory, count, arg, own>>

\* A memset or copy of t goes on as far as q; next is where t is after it.
GoesOn(t, q, next) ==
    /\ done' = [done EXCEPT ![t] = IF q = End(t) THEN -1 ELSE q]
    /\ IF q = End(t) THEN Goto(t, next) ELSE UNCHANGED pc

\* Mutant: the return after the free is forgotten.
AfterFailedCopy_on == "dump"

\* return -EFAULT, which the program does not look at
AfterFailedCopy == "user"

\* copy_from_user.  When it fails it clears what it has not copied; the buffer
\* kernel_buffer points at then is freed and the pointer kept.
copy_from_user(t) ==
    /\ pc[t] = "fill"
    /\ \/ \E q \in Reach(t, done[t]) :
             /\ contents' = [contents EXCEPT ![data[t]] = Piece(@, Data(t), t, done[t], q)]
             /\ faults' = faults \cup Access(t, data[t])
             /\ GoesOn(t, q, "dump") /\ UNCHANGED allocated
       \/ /\ "copy" \in Failures
          /\ contents' = [contents EXCEPT ![data[t]] = Piece(@, ZeroBlock, t, done[t], End(t))]
          /\ kfree(Access(t, data[t]))
          /\ done' = [done EXCEPT ![t] = -1] /\ Goto(t, AfterFailedCopy)
    /\ UNCHANGED <<graph, cursor, data, i, at, kernel_buffer, size, count, arg, own>>

\* The first bytes of kernel_buffer are printed; an oops for NULL.
init_dump(t) ==
    /\ pc[t] = "dump"
    /\ IF kernel_buffer = NULL THEN Goto(t, "oops") /\ UNCHANGED faults
       ELSE /\ Goto(t, "call")
            /\ faults' = faults \cup (Access(t, kernel_buffer) \ {"overrun"})
    /\ UNCHANGED <<graph, cursor, frame, kernel_buffer, allocated, size, contents, count, arg, own>>

\* Mutant: create_pool is forgotten.
ThePool_not == pool

\* if (pool == NULL) create_pool()
ThePool == IF pool = NULL THEN NewPool ELSE pool

\* initialize_graph(kernel_buffer, size) up to its memset.  When create_pool cannot
\* allocate, its PRINT_ERROR_AND_EXIT returns to initialize_graph, which clears
\* through NULL.
init_call(t) ==
    /\ pc[t] = "call"
    /\ data' = [data EXCEPT ![t] = kernel_buffer]
    /\ \/ pool' = ThePool /\ Goto(t, "memset")
       \/ pool = NULL /\ "pool" \in Failures /\ Goto(t, "oops") /\ UNCHANGED pool
    /\ UNCHANGED <<nodes, cursor, done, i, at, memory, count, arg, own>>

\* MEMSET(pool, 0, size)
init_memset(t) ==
    /\ pc[t] = "memset"
    /\ \E q \in Reach(t, done[t]) :
          /\ pool' = Piece(pool, ZeroBlock, t, done[t], q)
          /\ GoesOn(t, q, "memcpy")
    /\ UNCHANGED <<nodes, cursor, data, i, at, memory, count, arg, own>>

\* MEMCPY(pool, data, size): as many bytes as t handed over, of what the buffer
\* holds now.  A NULL argument (another task's failed kmalloc) skips the copy and
\* the verification, and drops the listing.
init_memcpy(t) ==
    /\ pc[t] = "memcpy"
    /\ IF data[t] = NULL
       THEN nodes' = NoListing /\ Goto(t, "reset") /\ UNCHANGED <<pool, done, faults>>
       ELSE \E q \in Reach(t, done[t]) :
              /\ pool' = Piece(pool, contents[data[t]], t, done[t], q)
              /\ faults' = faults \cup Access(t, data[t])
              /\ GoesOn(t, q, "entry") /\ UNCHANGED nodes
    /\ UNCHANGED <<cursor, data, i, at, kernel_buffer, allocated, size, contents, count, arg, own>>

-----------------------------------------------------------------------------
(* verify_graph and reset_progstate, called by sandbox_init.  A listing that *)
(* exists is reused, whatever the number of nodes it was allocated for.      *)

\* Whatever verify_graph finds, initialize_graph returns to sandbox_init.
VerifyReturns(t) ==
    /\ Goto(t, "reset")
    /\ data' = [data EXCEPT ![t] = NULL]
    /\ i' = [i EXCEPT ![t] = 0] /\ at' = [at EXCEPT ![t] = 0]

verify_entry(t) ==
    /\ pc[t] = "entry"
    /\ IF HeaderVerdict(pool) = 1
       THEN Goto(t, "list") /\ UNCHANGED <<data, i, at>>
       ELSE VerifyReturns(t)
    /\ UNCHANGED <<graph, cursor, done, memory, count, arg, own>>

\* The node table, or what a memset that runs at the same time has made of its
\* offset.
FirstNode == pool.nodes_table_offset

verify_list(t) ==
    /\ pc[t] = "list"
    /\ nodes' = IF nodes = NoListing THEN NewListing(pool.num_nodes) ELSE nodes
    /\ at' = [at EXCEPT ![t] = FirstNode]
    /\ Goto(t, "loop")
    /\ UNCHANGED <<pool, cursor, data, done, i, memory, count, arg, own>>

\* Mutant: continue before the loop variables are moved on.
NextTurn_same(t) == UNCHANGED <<i, at>>

NextTurn(t) == /\ i' = [i EXCEPT ![t] = @ + 1]
               /\ at' = [at EXCEPT ![t] = NextNode(pool, at[t])]

\* One node; a write past the listing is recorded and lost.
verify_loop(t) ==
    /\ pc[t] = "loop"
    /\ IF i[t] >= pool.num_nodes
       THEN VerifyReturns(t) /\ UNCHANGED <<nodes, faults>>
       ELSE IF nodes = NoListing
       THEN Goto(t, "oops") /\ UNCHANGED <<nodes, faults, data, i, at>>
       ELSE /\ IF i[t] < nodes.cap
               THEN nodes' = [nodes EXCEPT !.slot[i[t]] = at[t]] /\ UNCHANGED faults
               ELSE faults' = faults \cup {"listing"} /\ UNCHANGED nodes
            /\ IF NodeOK(pool, at[t]) /\ EdgesOK(pool, at[t])
               THEN NextTurn(t) /\ UNCHANGED <<pc, data>>
               ELSE VerifyReturns(t)
    /\ UNCHANGED <<pool, cursor, done, kernel_buffer, allocated, size, contents, count, arg, own>>

\* Mutant: the state is set and the node pointer is not.
NodeOf_before(s) == start_node

\* start_node = nodes[s]
NodeOf(s) == Slot(nodes, s)

\* reset_progstate runs also when the graph was refused; a NULL listing faults.
init_reset(t) ==
    /\ pc[t] = "reset"
    /\ IF nodes = NoListing \/ nodes.cap = 0
       THEN Goto(t, "oops") /\ UNCHANGED <<cursor, own>>
       ELSE /\ current_progstate' = 0
            /\ start_node' = NodeOf(0)
            /\ Goto(t, "user")
            /\ own' = [own EXCEPT ![t] = IF t \in Full THEN {0} ELSE {}]
    /\ UNCHANGED <<graph, frame, memory, count, arg>>

-----------------------------------------------------------------------------
(* sandbox_dummycall(number) *)

dummycall(t, call) ==
    /\ pc[t] = "user" /\ calls[t] < MaxCalls
    /\ Input[t] = "short" => call = calls[t] + 1
    /\ arg' = [arg EXCEPT ![t] = call]
    /\ calls' = [calls EXCEPT ![t] = @ + 1]
    /\ Enter(t, "check")
    /\ UNCHANGED <<graph, cursor, frame, memory, inits, own>>

\* is_state_transition_valid; reading through a null or stray pointer kills the
\* task with an oops.
dummycall_check(t) ==
    /\ pc[t] = "check"
    /\ IF start_node \in {NULL, WILD} THEN Goto(t, "oops")
       ELSE IF StateTransition(pool, start_node, arg[t]) # 0 THEN Goto(t, "advance")
       ELSE Goto(t, "killed")
    /\ UNCHANGED <<graph, cursor, frame, memory, count, arg, own>>

\* What a program does about ERROR_INVALID_STATE: the applet gives up, an
\* instrumented program does not look at it.
AfterError(t) == IF Input[t] = "short" THEN "gone" ELSE "user"

\* transition_to_state looks the call up again, and may now fail.
dummycall_advance(t) ==
    /\ pc[t] = "advance"
    /\ IF \/ current_progstate >= pool.num_nodes
          \/ start_node \notin {NULL, WILD} /\ StateTransition(pool, start_node, arg[t]) = 0
       THEN Goto(t, AfterError(t)) /\ UNCHANGED cursor
       ELSE IF start_node \in {NULL, WILD} \/ nodes = NoListing
       THEN Goto(t, "oops") /\ UNCHANGED cursor
       ELSE /\ current_progstate' = StateTransition(pool, start_node, arg[t])
            /\ start_node' = NodeOf(current_progstate')
            /\ Goto(t, "user")
    /\ own' = [own EXCEPT ![t] = Monitor!After(Policy[t], own[t], arg[t])]
    /\ arg' = [arg EXCEPT ![t] = NULL]
    /\ UNCHANGED <<graph, frame, memory, count>>

-----------------------------------------------------------------------------
(* sandbox_cleanup, and the end of the process. *)

\* The buffer is freed, kernel_buffer and the graph are left as they are.  The
\* pass inserts the call in every function whose name begins with "main", so it
\* may come more than once; the busybox applet never makes it.
sandbox_cleanup(t) ==
    /\ pc[t] = "user" /\ Input[t] # "short" /\ Cardinality(Inside) < MaxInKernel
    /\ kfree({})
    /\ UNCHANGED <<graph, cursor, frame, kernel_buffer, size, contents, count, pc, arg, own>>

\* The process ends, by way of the end of main or not, the applet after its last
\* call; the kernel does nothing.
exit(t) ==
    /\ pc[t] = "user" /\ (Input[t] = "short" => calls[t] = MaxCalls)
    /\ Goto(t, "gone")
    /\ UNCHANGED <<graph, cursor, frame, memory, count, arg, own>>

InKernel(t) ==
    \/ init_free(t) \/ init_alloc(t) \/ init_copy(t) \/ copy_from_user(t)
    \/ init_dump(t) \/ init_call(t) \/ init_memset(t) \/ init_memcpy(t)
    \/ verify_entry(t) \/ verify_list(t) \/ verify_loop(t) \/ init_reset(t)
    \/ dummycall_check(t) \/ dummycall_advance(t)

Next == \E t \in Task :
    \/ exec(t) \/ InKernel(t)
    \/ \E call \in Call : dummycall(t, call)
    \/ sandbox_cleanup(t) \/ exit(t)

\* A task inside a system call is scheduled again; a program need not call.
Spec == Init /\ [][Next]_vars /\ \A t \in Task : WF_vars(InKernel(t))

-----------------------------------------------------------------------------
(* Properties. *)

\* With one program at a time, policies of one size and no edge back to state 0,
\* the three system calls implement the per-process monitor, whatever failed in
\* the sandbox_init of the programs before or in an earlier one of its own,
\* whatever text they handed over and wherever they stopped: what they left behind
\* never shows through, and the only programs that run unguarded are those that
\* gave the kernel no policy.
ImplementsMonitor == Monitor!MSpec

\* While a program that gave its policy runs, the pool holds that policy and the
\* cursor points at the node of a state the program may be in.
CursorOnOwnState ==
    \A t \in Task : pc[t] \in {"user", "check", "advance"} /\ own[t] # {} =>
        /\ pool = Image(Policy[t])
        /\ current_progstate \in own[t]
        /\ start_node = Start(Policy[t])[current_progstate]

\* One program after the other, failures included, no copy buffer is ever lost:
\* a buffer that was not freed is the one the next sandbox_init frees.
NoBufferLeak == allocated \subseteq {kernel_buffer}

\* When system calls do not overlap, the cursor moves only along an edge of some
\* task's policy labelled with the call just checked, or back to the root, however
\* the programs interleave their calls.
MovesAlongSomeEdge ==
    [][current_progstate' \notin {0, current_progstate} =>
          \E t, u \in Task : \E s \in 1..Len(Policy[u]) : \E j \in 1..Len(Policy[u][s]) :
             /\ pc[t] = "advance"
             /\ Policy[u][s][j] = [libcallid |-> arg[t],
                                    next_progstate |-> current_progstate']]_vars

\* When system calls do not overlap, sandbox_init copies to, prints and loads memory
\* that is allocated and large enough, although kernel_buffer is left dangling by
\* sandbox_cleanup and by a copy that failed: the memory errors that remain are a
\* buffer freed twice and a listing that is too short.
BuffersLive == faults \subseteq {"double free", "listing"}

\* However system calls overlap, every one ends: it returns, or the task dies.
SyscallsEnd ==
    \A t \in Task : pc[t] \in KernelPC ~> pc[t] \in {"user", "killed", "oops", "gone"}

\* README "per-process sandbox": a task is killed only for a call that its own
\* policy does not allow where the task stands.
KillOnlyOffPolicy ==
    [][\A t \in Task : pc[t] = "check" /\ pc'[t] = "killed" =>
          Monitor!After(Policy[t], own[t], arg[t]) = {}]_vars

-----------------------------------------------------------------------------
(* What the proofs rest on. *)

\* The block holds new as far as p, in a memset or copy of t's size.
Copied(block, new, t, p) ==
    /\ p # -1 => /\ block.magic = new.magic /\ block.graph_finalized = new.graph_finalized
                 /\ t \in Full => /\ block.num_nodes = new.num_nodes
                                  /\ block.nodes_table_offset = new.nodes_table_offset
    /\ t \in Full => \A a \in Address : a < p => block.cells[a] = new.cells[a]

\* A node table that is all zero or that of one policy, never a mixture.
Whole(cells) == cells = ZeroBlock.cells \/ \E u \in Task : cells = Image(Policy[u]).cells

\* On its way through sandbox_init the task meets its own data in its own buffer
\* and then in the pool, whatever was in memory before.
LoadInv(t) ==
    /\ pc[t] \notin {"fill", "memset", "memcpy"} => done[t] = -1
    /\ pc[t] \in {"copy", "fill", "dump", "call"} => kernel_buffer # NULL
    /\ pc[t] = "fill" => data[t] = kernel_buffer /\ Copied(contents[data[t]], Data(t), t, done[t])
    /\ pc[t] \in {"dump", "call"} => Copied(contents[kernel_buffer], Data(t), t, End(t))
    /\ pc[t] \in {"memset", "memcpy"} =>
          data[t] # NULL /\ Copied(contents[data[t]], Data(t), t, End(t))
    /\ pc[t] = "memset" => Copied(pool, ZeroBlock, t, done[t])
    /\ pc[t] = "memcpy" => Copied(pool, Data(t), t, done[t])
    /\ pc[t] \in {"entry", "list", "loop", "reset"} /\ t \in Full => pool = Image(Policy[t])
    /\ pc[t] = "entry" /\ t \notin Full => pool.magic # "graph"
    /\ pc[t] \in {"list", "loop"} => t \in Full

\* When system calls do not overlap, the node table is whole except while a task
\* clears or copies it: the strengthening behind MovesAlongSomeEdge.
SerialInv ==
    /\ \A t, u \in Inside : t = u
    /\ \/ pool = NULL
       \/ \E t \in Full : pc[t] \in {"memset", "memcpy"}
       \/ Whole(pool.cells)
    /\ \A t \in Task : LoadInv(t)

\* The buffer a task works on is its own from kmalloc to the end of the copy.
LiveAt(t) == /\ pc[t] \in {"copy", "fill", "dump", "call"} => Access(t, kernel_buffer) = {}
             /\ pc[t] \in {"memset", "memcpy"} => Access(t, data[t]) = {}

\* When system calls do not overlap: the strengthening behind BuffersLive.
LiveInv == BuffersLive /\ \A t \in Task : LiveAt(t)

\* With one program at a time: the strengthening behind NoBufferLeak.
AloneInv ==
    /\ \A t, u \in Running : t = u
    /\ NoBufferLeak
    /\ \A t \in Task : pc[t] = "alloc" => allocated = {}

\* The conditions under which the system calls implement PolicyMonitor: one
\* program at a time, policies of one size whose edges lead to states other than
\* 0, and no two edges of one label out of a state.
Sequential ==
    /\ MaxRunning = 1 /\ MaxInKernel = 1
    /\ \A t, u \in Full : Len(Policy[t]) = Len(Policy[u])
    /\ \A t \in Full : \A s \in 1..Len(Policy[t]) : \A j, k \in 1..Len(Policy[t][s]) :
          /\ Policy[t][s][j].next_progstate \in 1..(Len(Policy[t]) - 1)
          /\ Policy[t][s][j].libcallid = Policy[t][s][k].libcallid =>
                Policy[t][s][j] = Policy[t][s][k]

\* The listing is as large as t's policy and its first n entries are its nodes.
ListingOf(t, n) ==
    /\ nodes # NoListing /\ nodes.cap = Len(Policy[t])
    /\ \A k \in 0..(n - 1) : nodes.slot[k] = Start(Policy[t])[k]

\* verify_graph lists the nodes of that image one by one.
ScanInv(t) ==
    /\ pc[t] \notin {"loop", "oops"} => i[t] = 0
    /\ pc[t] = "loop" => /\ i[t] <= Len(Policy[t]) /\ at[t] = Start(Policy[t])[i[t]]
                         /\ ListingOf(t, i[t])
    /\ pc[t] = "reset" /\ t \in Full => ListingOf(t, Len(Policy[t]))

\* The cursor is the one state the program may be in, and stays so in a further
\* sandbox_init up to the point where the memset begins, from where on the call
\* cannot fail.
WalkInv(t) ==
    /\ pc[t] = "new" \/ (inits[t] = 1 /\ pc[t] \in KernelPC \ {"check", "advance"}) => own[t] = {}
    /\ (pc[t] = "new") = (inits[t] = 0)
    /\ own[t] # {} => t \in Full /\ pool # NULL /\ Len(Policy[t]) # 0
    /\ pc[t] \in {"user", "init", "alloc", "copy", "fill", "check", "advance"} /\ own[t] # {} =>
          /\ pool = Image(Policy[t]) /\ ListingOf(t, Len(Policy[t]))
          /\ current_progstate < Len(Policy[t]) /\ own[t] = {current_progstate}
          /\ start_node = Start(Policy[t])[current_progstate]
    /\ pc[t] \in {"check", "advance"} => arg[t] \in Call
    /\ pc[t] = "advance" /\ own[t] # {} => StateTransition(pool, start_node, arg[t]) # 0

\* The strengthening behind CursorOnOwnState and ImplementsMonitor.
SequentialInv ==
    /\ TypeOK /\ SerialInv /\ AloneInv
    /\ nodes # NoListing => \A u \in Full : nodes.cap = Len(Policy[u])
    /\ \A t \in Task : ScanInv(t) /\ WalkInv(t)

=============================================================================
