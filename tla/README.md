# Verification of the in-kernel library-call sandbox

A TLA+ model of the sandbox in this repository, model-checked with TLC. The
safety of the graph library, of the system calls, of the pass up to the embedded
graph and of the instrumented program is also proved with TLAPS, for instances of
every size.

## 1. The system

A program is compiled with an LLVM pass that derives from its code a directed
graph of library calls, embeds the graph in the executable and injects system
calls. At run time the kernel loads the graph and follows the program through
it; a library call that the graph does not allow ends the program.

| Component | Source | State | Operations |
|---|---|---|---|
| Graph library `memgraphlib` (user space and kernel build) | `kernel/e0256-sandboxing/memgraphlib/` | `pool`, `pool_edge`, `nodes`, `num_nodes_listings`, `current_progstate`, `start_node`, all static | `initialize_graph`, `destroy_graph`, `store_graph`, `load_graph`, `alloc_node`, `finalize_graph`, `verify_graph`, `reset_progstate`, `is_state_transition_valid`, `transition_to_state` |
| System calls | `kernel/e0256-sandboxing/sandboxing.c` | global `kernel_buffer`; the statics above | `sandbox_init`, `sandbox_dummycall`, `sandbox_cleanup` |
| Graph container `LibcCallgraph` | `GraphLib/` | vertices, labelled edges | `add_vertex`, `add_edge`, `remove_edge`, `combine_vertex`, `insert_graph`, queries |
| LLVM pass, graph | `LLVM/` | graphs of every function, final graph | `ExpandBBGraph`, `ConvertBBGraphToLibcCallGraph`, `CombineLibcgGraph`, `GenerateInMemoryGraph` |
| LLVM pass, instrumentation | `LLVM/` | the module, the calls recorded per block | `runOnModule`, `SectionAddressHandler`, `MemoryCleanupHandler` |
| Library listing | `LibcListGen/`, `FileToMapReader` in `LLVM/LibcCallGraphUtils.h` | file of `index:name` lines, name to id map | `extractFunctionNames`, `readFileToMap`, lookups |
| Test applet `syscalltest` | `busybox/` | none | `sandbox_init` with a text, then `sandbox_dummycall` 1, 2, 3... |
| Images, build | `cmake/`, `kernel/*.patch` | none | - |

They interact as follows. `LibcListGen` lists the functions of the C library; the
pass reads the listing, records the calls of every block and injects an
announcement before each listed call. The pass builds its final graph in `LibcCallgraph`
objects, serializes it through `memgraphlib` in user space, and places the pool
in a data section. `main` hands that section to `sandbox_init`, which copies it
to a kernel buffer, copies the buffer to the pool of the kernel build of
`memgraphlib`, verifies it and resets the cursor. Before each library call the
program calls `sandbox_dummycall`, which looks the call up from the current node
and either advances the cursor or calls `do_exit(SIGKILL)`.

What is hard here:

* **Concurrency.** Pool, listing, cursor and copy buffer are global and unlocked,
  and the kernel is configured for several processors and preemption
  (`CONFIG_SMP`, `PREEMPT_DYNAMIC`): system calls of several tasks interleave, also
  within a memset or a copy of the megabyte, `kernel_buffer` and
  `nodes_table_offset` are read again after they were checked, and
  `sandbox_dummycall` looks a call up twice.
* **Leftovers.** All state outlives the program it belongs to: the listing keeps
  its size, `kernel_buffer` its value, the graph its content.
* **Partial failure.** `sandbox_init` can fail at four places; the injected code
  ignores its result.
* **Bookkeeping in the library.** `pool_edge`, `num_nodes_listings` and the
  listing are updated in different functions, under different conditions.
* **Order of hash tables.** Which vertex absorbs which in the pass depends on the
  iteration order of `std::unordered_map`, and a table that is rehashed while it is
  iterated over passes edges by.
* **Arrays without a bound of their own.** The serialization fills local arrays,
  the listing and the pool; one `assert` on one counter is all that limits it.
* **Two walks of one program.** The graph and the announcements come from separate
  walks of code that is being changed meanwhile.

What makes each component correct:

* graph library: what is built is what is stored, loaded, accepted by
  `verify_graph` and walked;
* system calls: each program is held to its own policy and to nothing else, no
  buffer is leaked or used after it was freed, every call ends;
* graph of the pass: every path of library calls of the program is a path of the
  graph, and the merging ends;
* serialization: it overruns nothing and embeds a graph the kernel accepts;
* instrumentation: each call of a listed function by name is announced with its own
  id right before it is made, after `sandbox_init` and before `sandbox_cleanup`.

## 2. Modules

| Module | Models |
|---|---|
| `MemGraph` | layout of the pool and the pure functions on it: what `alloc_node` writes, the checks of `verify_graph`, the lookup of `is_state_transition_valid` |
| `UserGraph` | `memgraphlib` in user space: one action per exported function, any order of calls, process exit and restart |
| `MemGraphProofs`, `UserGraphProofs` | lemmas about the pool, theorems about `UserGraph` |
| `PolicyMonitor` | abstract specification: a monitor that holds each process to its own policy |
| `Sandbox` | the three system calls with the kernel build of `memgraphlib`, for several preemptive tasks; refines `PolicyMonitor` where one program runs at a time |
| `SandboxProofs`, `SequentialProofs` | theorems about `Sandbox`: any overlap, and calls that take turns; one program at a time, with the refinement |
| `LibcCallgraph` | the graph container of the pass, as functions on a graph |
| `CallGraphGen` | expansion, conversion and combination of graphs in the pass |
| `CallGraphGenProofs`, `FinalGraphProofs` | theorems about `CallGraphGen`: each function; the final graph |
| `GraphImage` | `GenerateInMemoryGraph`: composes `LibcCallgraph` (the graph it reads) and `UserGraph` (the library it calls) |
| `GraphImageProofs` | theorems about `GraphImage` |
| `Instrument` | the listing, its reader, the rewriting of the program, and the run of what results |
| `InstrumentProofs` | theorems about `Instrument` |
| `MC...` | instances for TLC; `MCSequential` also evaluates the hypothesis of `SequentialProofs` |

### Pool (`MemGraph`)

A node header and an edge are both three `unsigned long`s, so the pool after the
metadata is an array of `PoolCells` cells; an address is the index of a cell. A
cell has a magic number (`"node"`, `"edge"` or neither) and two values. Reading
past the end gives a cell with neither magic number. `StateTransition` returns,
like the C function, the next state of the *first* matching edge, and 0 for
"invalid". A pointer is an address, `NULL`, or `WILD` when it points at no cell
of the live pool. Sums, indices and states are natural numbers: the 1 MB pool
keeps them far below the width of `unsigned long` and of `int`.

### Library in user space (`UserGraph`)

The variables `pool` ... `start_node` are the statics of `memgraph.c`. `saved`
is the file `store_graph` wrote. `verify_graph` is stepped node by node with its
loop variables `i` and `at`; `pc` says where the process is and, after a memory
error, which array was overrun: the model stops there. `nodes` is a record of
its size and its entries, with `NoListing` for the null pointer.

`initialize_empty` is `initialize_graph(NULL, 0)`, as the pass and the tests call
it: on a pool that exists it clears *nothing*, because it clears `size` = 0 bytes.
`initialize_from_image` is `load_graph`, and `initialize_graph` on a buffer that
holds a stored graph. `file_or_memory_error` stands for every
`PRINT_ERROR_AND_EXIT`, and for a `store_graph` that leaves the file cut short.
The client keeps the contract the C functions rely on: it does not build, store,
finalize or query without a pool, nor query without a listing, since each would
dereference a null pointer.

Histories: `table` (where the nodes really are), `origin` (built here, loaded, or
nodes added to a loaded graph), `fresh` (first graph of the process, ids in
order), `walk` (cursor reset on a verified graph).

### System calls (`Sandbox`)

Each task has a `pc`; each step is the code between two points at which another
task can be seen to interfere: the free, the allocation, the call of
`copy_from_user`, the copy, the printing of the buffer, the call of
`initialize_graph`, its memset and its copy, the header checks, the listing, each
node of the loop, the reset; the check and the advance of `sandbox_dummycall`.
A memset or a copy of a pool may be interrupted before each of the cells in `Stops`
(`done` is how far it has come). These are one step: finding no pool and creating
it, finding no listing and allocating it, one node of `verify_graph`, one search for
an edge, the two assignments to the cursor, the metadata (five words) and one cell.

The heap has the places of `Buffer`: `allocated` says which are in use, `size` for how
much, `contents` what they hold, at first anything of `Leftover`. A task copies its
own data to whatever `kernel_buffer` points at when it calls `copy_from_user`, loads
whatever that pointer leads to when it calls `initialize_graph`, and frees it when a
copy fails. `nodes_table_offset` is part of the pool, and -1 (the metadata) where a
memset has cleared it. A double free, a use after free, an access past a smaller
buffer and a write past the listing are recorded in `faults`, and the run goes on, as
a kernel without a sanitizer would. `"oops"` is a read through `NULL` or a stray
pointer.

Two bounds say how much runs at a time: `MaxRunning` programs, `MaxInKernel` of them
inside a system call. `MaxInits` bounds the calls of `sandbox_init` of a program: one
with a second function whose name begins with `main` makes several.

In the kernel build `PRINT_ERROR_AND_EXIT` is `return`, so nothing that goes
wrong in `initialize_graph` stops `sandbox_init` from resetting the cursor.
`Input` says what a task hands over: the image of its policy, the 60-byte text of
the busybox applet, or nothing. The applet (`"short"`) makes the calls 1, 2, 3...,
gives up when `sandbox_dummycall` returns an error and never calls
`sandbox_cleanup`; an instrumented program ignores every result and may call
`sandbox_cleanup` more than once. `Image` is the layout `alloc_node` and
`finalize_graph` give a policy whose states are added in order; the images the pass
really writes have calls and successors exchanged (`image_edges`) and k * n edges at
node k. The policies of the model are those a repaired pass, or another client of the
library, would hand over: what is said of the kernel is said of a kernel that gets a
policy in the format it expects. `own` is a
history: the states of its own policy in which a task may be, none for a task
whose `sandbox_init` gave the kernel no policy.

`PolicyMonitor` promises nothing of such a task (`"unguarded"`), and everything of
the others: they are followed through their own policy and killed at exactly the
first call it does not allow.

### The pass (`LibcCallgraph`, `CallGraphGen`)

Vertex `<<f, b, k>>` is block `b` of function `f` after `k` of its calls, the
vertex the code names `[f]b-libc_k`. `Expanded` is what `runOnModule` and
`ExpandBBGraph` leave for a function. Both merging loops are the actions `scan`,
`visit`, `combine`, `combined`; they walk snapshots of vertices and neighbours, as
the code does, in any order. graaf (external) keeps the first of two edges
between the same vertices. `combine_vertex` inserts into the table it iterates
over; whether the loop reaches an edge it inserted itself is a free choice
(`late`). When the insertions give the table new buckets, the iterator goes on in the
new order, and any of the edges of the absorbed vertex that it had not come to may be
passed over (`missed`) and are deleted with the vertex. `Buckets` are the sizes at
which that happens: 13 is the first of libstdc++, which then takes 29. `front()` of the neighbours in `CombineLibcgGraph` is any neighbour.

A program is the set of functions the pass visits: a function whose name begins
with `syscall` or `llvm.` is absent, and `operator[]` makes an empty entry for it
when it is called (`MetaOf`). As in the code, the entry of a function is its last block
without predecessors, which is not the real one when there are blocks that cannot be
reached, and a function without a `ReturnInst` has no exit (`NULL`).

Histories: `rep` (into which vertex a vertex was merged) and `lost` (the graphs in
which a merge passed an edge over in a rehash or met a *clash*: a vertex merged with itself, a self loop on the
absorbed vertex, or two edges with different labels falling together; for the
final graph also a call that could not be tied to the function inserted for it,
because the entry was merged away, the function has no graph, control was returned
to another neighbour, or another edge was in the place of the tie already).

### Serialization (`GraphImage`)

An input is a final graph with the three things the code takes from hash tables:
the order of the vertices, the hash of each name modulo 1000 (any value,
collisions included), and the neighbour listed last, the only one whose edge
stays in the arrays. `generate`, `emit`, `finalize` and `embed` take the steps
`initialize_empty`, `alloc_node`, `finalize_graph` and `destroy_graph` of
`UserGraph`; `gather` is one turn of the inner loop. `numOutEdges` is not reset,
so with n vertices node k has k * n edges, and the `assert` (active: the build
does not define `NDEBUG`) ends the pass at 1000. `alloc_node` is called with its two lists
exchanged, as in the code. Entries that were never written hold any value of `Junk`.

### Instrumentation (`Instrument`)

A program is a function from names to blocks in layout order, a block its
instructions and its successors. The compiled `code` stays as it is; `inserted` holds,
for every instruction, the system calls the pass has placed before it, in order, so
that `<<k, j>>` is a place of a block: system call `j` before instruction `k`, or, one
past them, the instruction. `listing` maps the index of a symbol to its name, line by
line; `extractFunctionNames` leaves the complete listing, one cut off after any
symbol, or what was there before (a failed run still exits with 0): nothing, or the
listing of one of `OldTables`. The actions up to `MemoryCleanupHandler` are the tool
chain; `enter`, `external_call`, `system_call` and `local` are the instrumented
program, each frame of whose `stack` is at a place of a block. An external function
returns or ends the process. A call through a pointer (`"indirect"`) has no
`getCalledFunction()`: neither walk of the pass sees it, and when the program runs it
reaches any of `Pointees`. `announced` is what `sandbox_dummycall` was given and the
program has not called yet.

## 3. Runs

| Run | Shows | Bounds |
|---|---|---|
| `user_graph` | `TableWellFormed`, `EdgeAtEnd`: the pool is a row of well-formed nodes and `pool_edge` is at its end. `VerifyAcceptsBuilt`: a graph the library built and finalized is never refused. `VerifiedListingMatches`: after acceptance the listing is right. `WalkInGraph`: a walk is always at a node. | 4 cells, 2 nodes, chunk 2: the pool overflows, edges dangle, loop or clash, a graph is stored, reloaded and added to |
| `user_growth` | `FirstGraphFitsListing`: the listing of a first graph grows in time. `IndInv`: the invariant of the proofs. | 3 nodes with chunk 2: the listing must grow |
| `sandbox_sequential` | `ImplementsMonitor`, `CursorOnOwnState`, `NoBufferLeak`: for one program at a time the system calls implement `PolicyMonitor`, whatever failed before and whatever was left behind. `SequentialInv`: the invariant of the proofs. | four programs in any order: two with policies of three states, of which one calls `sandbox_init` twice, the applet, one that hands over nothing; every failure of `sandbox_init`; one place in the heap; two calls each |
| `sandbox_serial` | `MovesAlongSomeEdge`: programs that run at the same time, and whose system calls do not overlap, never leave the edges of the policies. `BuffersLive`: `sandbox_init` uses no buffer that was freed or is too small. `SerialInv`: outside a memset or copy the node table is zero or that of one policy; the invariant of the proofs. | two programs with policies of three states, one calls `sandbox_init` twice, every failure, copies interrupted at cells 0 and 2, two calls each |
| `sandbox_concurrent` | `TypeOK`: however system calls overlap, the listing and the cursor stay pointers to the pool or its metadata, and no task works on a pool or through a buffer that does not exist. `SyscallsEnd`: every system call ends. | two programs with policies of two states, 4 cells, copies interrupted at cells 0 and 2, every failure, one call each |
| `callgraph` | `ConvertSimulates`, `ExitTracked`, `FinalSimulates`: without a clash or a missed edge nothing is lost. `InternalEdgesTrimmed`, `PassEnds`: always. `PassInv`: the invariant of the proofs. | all control flows of three blocks with at most one call each (243), 96 programs of two functions, some with two arms, a lost entry, a skipped function, a function that does not return or has a block that cannot be reached, or a `main` that calls itself; a rehash at the fifth edge |
| `image` | `ImageInBounds`, `EmbeddedVerifies`: the serialization stays inside the arrays, the listing and the pool, and embeds a graph `verify_graph` accepts. `GenerationInv`: the invariant of the proofs. | every graph of two vertices, some of none and of three to five; every order, hash modulo 2 and last neighbour; arrays of 16, so that four and five vertices run into the `assert` |
| `instrument` | `AnnouncedBeforeCall`, `RecordedMatchesAnnounced`, `InitBeforeAnnounce`, `CleanupLast`: the program announces what it calls by name, with the index the listing has for it, calls what it announces and what the graph was made from, between `sandbox_init` and `sandbox_cleanup`. `InstrumentInv`: the invariant of the proofs. | ten programs, one with calls through a pointer to the library and to itself; the listing complete, cut off after any line, old or missing; three nested calls |

Runs that are expected to find a violation, each against a statement of the
repository:

| Run | The code does | It is said |
|---|---|---|
| `sandbox_two_tasks` | a second program's `sandbox_init` replaces policy and cursor of the first, which is killed for an allowed call | "per-process sandbox" (`README.md:6`) |
| `sandbox_root_loop` | an edge back to state 0 reads as "invalid" and the program is killed | terminated "if it is not following the expected library-call-flow path" (`README.md:84`) |
| `callgraph_if_else` | of two calls in the arms of an if/else one disappears | "edges form library calls between abstract states" (`README.md:37`) |
| `image_edges` | `alloc_node` is given the call ids as successors and the successors as call ids: every embedded edge is the wrong way round | "Generates the In-memory graph, which is to be embedded in executable" (`README.md:62`) |

`CHECK_DEADLOCK FALSE` is set where the system may stop: a process that overran
an array, programs that have all ended, a pass that is done or aborted.

Every property of a passing run has a mutant of the model, a plausible slip in
the code, that violates it (`PROJECT.json`, "mutants").

**Why the bounds are enough.** The library treats nodes one at a time and its
listing in chunks; two nodes and three nodes with chunks of two reach every
relation between `num_nodes`, `num_nodes_listings` and the size of the listing,
and the proofs remove the bounds. Two tasks suffice for a race on the cursor, on the
pool and on the buffer, two places in the heap for a buffer that another task has
replaced; a copy that stops after the metadata and in the middle of the table leaves
every kind of half-written pool; four programs reach failed and foreign ones between
two good ones. Memory that was never written is all zero (`MCLeftover`); the proofs are
for any contents. Three blocks give branches, one-armed branches, loops with and
without calls; two calls distinguish labels. With five edges to a rehash instead of 14
(`Buckets = {4}`), graphs of three blocks have merges that miss edges; the proofs are
for any `Buckets`.
In `image` the pool has 33 cells for arrays of 16, in the code 43687 for arrays of
1000; `ImageAssumption` states what both satisfy: whatever number of nodes the
`assert` lets through fits the pool (in the code at most 16031 cells). In
`instrument` only a `main` that is called by its own helper reaches the bound on
nested calls; the proofs are for every bound.

**Fairness.** `Sandbox` assumes weak fairness of each task inside a system call:
the kernel schedules a runnable task again. A program outside the kernel need not
do anything. `CallGraphGen` assumes that the single thread of the pass goes on.
`UserGraph`, `GraphImage` and `Instrument` assume none.

## 4. Proofs

Every theorem below holds for every value of the constants that satisfies the named
assumptions; the runs evaluate those assumptions. Each proof follows one scheme: an
invariant strong enough to be inductive (stated in the module of the component,
under "What the proofs rest on", and checked by TLC in a run), one lemma per action,
and the property as a consequence.

| Module | Theorem | Statement |
|---|---|---|
| `UserGraphProofs` | `Inductive` | `Spec => []IndInv` |
| | `TypeCorrect`, `TableCorrect`, `EdgeCorrect`, `VerifyCorrect`, `ListingCorrect`, `FirstGraphSafe`, `WalkCorrect` | `TypeOK`, `TableWellFormed`, `EdgeAtEnd`, `VerifyAcceptsBuilt`, `VerifiedListingMatches`, `FirstGraphFitsListing`, `WalkInGraph` |
| `SandboxProofs` | `SandboxTypeCorrect` | `TypeOK`, for any number of tasks and any overlap of their system calls |
| | `SerialInductive`, `MovesCorrect`, `BuffersCorrect` | `Spec => []SerialInv`, `MovesAlongSomeEdge`, `BuffersLive`, for any number of tasks, if `MaxInKernel = 1` |
| | `NoLeakAlone` | `NoBufferLeak`, if `MaxRunning = 1` |
| `SequentialProofs` | `SequentialInductive` | `Spec => []SequentialInv`, if `Sequential` |
| | `CursorCorrect` | `CursorOnOwnState`, if `Sequential` |
| | `RefinesMonitor` | `Spec => ImplementsMonitor`: every step is one of `PolicyMonitor` or stutters, if `Sequential` |
| `GraphImageProofs` | `GenerationInductive` | `ImageSpec => []GenerationInv` |
| | `ImageSafe`, `EmbeddedCorrect` | `ImageInBounds`, `EmbeddedVerifies` |
| `CallGraphGenProofs` | `MergeInductive` | `Spec => []MergeInv` |
| | `MergeTypeCorrect`, `ConvertCorrect`, `ExitCorrect`, `TrimmedCorrect` | `TypeOK`, `ConvertSimulates`, `ExitTracked`, `InternalEdgesTrimmed` |
| `FinalGraphProofs` | `PassInductive` | `Spec => []PassInv` |
| | `FinalCorrect` | `FinalSimulates` |
| `InstrumentProofs` | `InstrumentInductive` | `Spec => []InstrumentInv` |
| | `AnnounceCorrect`, `RecordCorrect`, `InitCorrect`, `CleanupCorrect` | `AnnouncedBeforeCall`, `RecordedMatchesAnnounced`, `InitBeforeAnnounce`, `CleanupLast` |

`MemGraphProofs` holds the lemmas about the pool that several of them use: what
`alloc_node` writes and leaves alone, what an answer of `is_state_transition_valid`
means. Where a sum or a search over positions needs induction, the lemmas take the
least counterexample (`LeastNatural`), which first-order reasoning finds.

### Library (`PoolAssumption`, `ClientAssumption`)

Sizes are natural numbers, a chunk has at least two entries, pointer values differ
from addresses. None of the properties is inductive alone. `IndInv` adds where the
loop of `verify_graph` stands (`LoopInv`: at node `i`, with the entries before it
right), how the listing of a first graph relates to the stale count
`num_nodes_listings` (`FreshInv`: the count is 0 until the second node, although the
listing already has a chunk; that is where a chunk of two entries is needed), and
what file and walk rest on (`StatusInv`). The argument about the pool is
`WellFormedExtend`: a node written at the end of a well-formed row disturbs no
earlier node and makes a row one longer. The argument about the walk is
`StateTransitionEdge`: a non-zero answer is the target of an edge of the node.

### System calls (`SandboxAssumption`)

Policies have natural numbers as labels and states, and their images fit the pool.
*Any overlap.* `TypeOK` is inductive on its own once it says that a task at work on the
pool found one and that a copy in progress has a buffer. Nothing stronger survives an
overlap: two tasks may clear and copy at the same time, and the pool then holds cells
of both policies (section 5).

*Calls that take turns.* `SerialInv` has `MaxInKernel = 1` as its condition. `LoadInv`
follows the caller's own data, cell by cell, into its buffer and into the pool
(`Copied`), whatever was in memory before and wherever the copy was interrupted; so
the table is `Whole`, all zero or that of one policy, except while a task with a policy
clears or copies it. Hence whatever node the cursor is at, of whichever program, an
answer other than 0 is an edge of some policy, which is `MovesAlongSomeEdge`.
`LiveInv` adds that the buffer is the caller's own from `kmalloc` to the end of the
copy, which gives `BuffersLive`. The lemmas from `StartExists` to `ImageTransition` compute the
layout of an image: where node k starts, and that a lookup in it is a lookup in the
policy.

*One program at a time.* `AloneInv` needs only `MaxRunning = 1`: a task that is about
to allocate meets no live buffer. `SequentialInv` is `SerialInv` with more, and needs `Sequential`: also policies of
one size without edges to state 0 and without two edges of one label from a state.
Each of these conditions is necessary (section 5), and `MCSequential` evaluates
`Sequential` on the instance of the run. The invariant says, label by label of
`sandbox_init`, which parts of the memory are already the caller's own (`ScanInv` with
`LoadInv`) and that afterwards the cursor, the listing and the pool agree with the
history `own` (`WalkInv`), whatever was in memory before. `RefinesMonitor` maps each
task to what the monitor sees (`StatusAt`); the steps inside a system call stutter,
the reset is the step that puts a program under its policy, check and advance are the
steps that kill it or follow it. The safety part is the whole of `PolicyMonitor`, which states no
fairness.

### Serialization (`ImageAssumption`)

The pass as a client of the library: `GenerationInv` is `IndInv` with the two loops of
`GenerateInMemoryGraph`. Since `numOutEdges` is never reset, the pool after r of n
nodes holds r + n + 2n + ... + rn cells, which is `2 * pool_edge = TwiceSize(r, n)`, and
`RoomInPool` derives from the `assert` (rn less than `MAX_NEIGHBORS`) that the next node
fits. The listing is safe because hashes are below 1000, the size of a chunk.

### Graph construction (`ProgramAssumption`)

Functions are well formed: the blocks between which control flows, the entry and, if
there is one, the exit of a function are its own.
*One function.* `MergeInv` relates the graph to the stale lists the loops walk: what is
left of the neighbours is still tied to the vertex by the edge it was found with
(`LeftInv`), and in a scan that has merged nothing the visited vertices have nothing to
merge (`TrimInv`). The core is `MergeKeeps`: a merge that neither clashes nor misses an
edge keeps every edge,
with its label, between the vertices its ends were merged into, except the merged edge
itself. Neither depends on the order of the tables nor on `late`. A merge after
which the graph is not in `lost` missed nothing (`CombineMissed`); types and
`InternalEdgesTrimmed` hold through a rehash as well.

*Final graph.* `PassInv` adds that a converted function is not touched by the conversion
of the others (`MetaInv`; two functions share no vertex, `VertexOf`), and that each call
of `main` that was dealt with leads into the inserted function and back
(`CallTied`), until the last loop has merged the ties (`FinalInv`). `FinalCorrect` holds
while nothing was lost; the proof showed that the history `lost` has to include a tie
that is not made because another edge is already there, as with a `main` that calls
itself.

### Instrumentation (`InstrumentAssumption`)

Programs have a `main`, blocks end in a return, a branch or unreachable code, and no
branch leads to an entry block, as LLVM requires; the symbol tables are any sequences.
`InstrumentInv` has two halves. *What is placed where.* `ReaderInv`: the index the map
gives a name is one at which the listing has that name, also for a name that is listed
twice (`MapOfListing`). `PlacedInv`: a call of a listed function by name, in a visited function, is announced exactly once before it,
nothing but a `sandbox_cleanup` comes between, and no other instruction is announced;
it survives both handlers because each inserts one system call before everything, or at
the place of `lastInst` (`PlaceSequence`, `LastInstFacts`). `RecordInv`: recorded are the
calls of the block as compiled. `InitInv` and `CleanupInv` say where `sandbox_init`
and, in a usual main, `sandbox_cleanup` are. *Where the program is.* `RunInv`: every
frame is at a place of the program, a caller is between two instructions, and something
is announced exactly when the frame on top is past the announcement of its next call.
`StartInv`: before `sandbox_init` the program has not left the first instruction of
`main`. `EndInv`: `sandbox_cleanup` was called exactly when `main` is past it, and then
no other function is active. The theorems hold for every program and every depth of
calls.

The proof of `CleanupLast` showed that it is false of a `main` whose last instruction
before the return calls a function of the program, and of a `main` that is called
itself: the callee announces after `sandbox_cleanup`. `UsualMain` excludes both, and the
run has a program of each kind.

### Only model-checked

Liveness: `SyscallsEnd` and `PassEnds`. It needs fairness and is outside
the prover's reach.

## 5. Limits, and what is not modelled

A property says no more than its condition. `ImplementsMonitor` holds for one
program at a time, with policies of one size and no edge to state 0; the violation
runs show that two of the conditions matter, the size is the second point below,
and a policy with two edges of one label from a state also breaks it, as
`StateTransition` makes plain (the first edge is taken).

When system calls overlap, only `TypeOK` and `SyscallsEnd` are claimed: two
`sandbox_init` calls can leave a table with cells of two policies, since `verify_graph`
looks at magic numbers and counts only, and a task can be followed along such a
mixture. `FinalSimulates`, `ConvertSimulates` and `ExitTracked`
are claimed of graphs in which no merge clashed or missed an edge; `AnnouncedBeforeCall`
of calls by name.

Read off the models, without a run of their own:

* An edge table that gets new buckets inside `combine_vertex` (`GraphLib.cpp:71`, from
  the fourteenth edge on) loses edges that no clash explains.
* A library function called through a pointer is neither announced nor in the graph
  (`if (Callee)`, `LibcCallGraphGen.cpp:604`, `LibcCallGraphUtils.h:104`).
* `sandbox_cleanup` (`sandboxing.c:66`) and a failed copy free the buffer and keep the
  pointer; the next `sandbox_init` or `sandbox_cleanup` frees it again (`kfree`, `"double
  free"` in `faults`), where the comment at `sandboxing.c:21` speaks of an existing
  allocation.
* Under overlap, a task copies into or loads from a buffer another task has replaced or
  freed (`faults`).
* A program whose `sandbox_init` fails (`sandboxing.c:37`) runs under whatever
  policy the program before left: the `"unguarded"` tasks of `Sandbox`.
* The listing allocated for the first program is reused for a later, larger graph
  and overrun (`memgraph.c:271`, recorded in `faults`).
* The applet as the first client of a machine dies in `reset_progstate`: no graph,
  no listing (`init_reset`).
* `alloc_node` does not compare with the size of the pool (`pc = "pool"`); the
  pass is safe from it only through the `assert` on its arrays (`ImageInBounds`).
* A verified graph may have edges to nodes that do not exist (the condition
  `Closed` of `WalkInGraph`).
* After `destroy_graph` or a load the listing may be overrun because
  `num_nodes_listings` is stale (the condition `fresh` of `FirstGraphFitsListing`).
* Functions called at depth two are not inserted into the final graph
  (`inline_call`), and the entry vertex may be merged away while `entryNode` keeps
  its name.
* The nodes of an image are in the order of a hash table and their ids are hashes,
  while after `verify_graph` the listing is by position.
* Every function whose name begins with `main` gets a `sandbox_init` and a
  `sandbox_cleanup`, so the graph is handed over each time one is entered
  (`README.md:112` speaks of copying it once).
* `CleanupLast` has the condition `UsualMain`: otherwise `sandbox_cleanup` may be on
  a path that is not taken, on one of several returns, before `sandbox_init` when
  `main` is a single return, or before a last call of a function of the program,
  which then announces to a kernel that has already been cleaned up.

Not modelled:

* dot and debug output, naming of blocks, the layout of ELF files, the text of the
  listing beyond its lines (a line cut in the middle), build scripts and patches:
  input, output or text; constructors and `atexit` handlers of the program;
* functions of the program that a library function calls back, and `InvokeInst`, which
  only C++ code has and which the `dyn_cast<CallInst>` of both walks passes over;
* weak memory effects between tasks, torn metadata or cells, allocation failure of the listing, sizes
  above the pool's (no client passes one), a racing `create_pool`, the unused
  `"long"` text of the applet;
* a state whose low 32 bits are 0 (`memgraph.c:313`): no graph that fits the pool
  has one.

## 6. Plan

1. Done: all modules of section 2; the theorems of section 4, which state every
   invariant, every action property and the refinement the runs check.
2. Open: what the graph promises the monitor as one statement, that a program
   instrumented by `Instrument` and followed through the final graph of `CallGraphGen`
   is never refused while nothing was lost. It needs `Instrument` and `CallGraphGen` on
   one program, and it fails in the code as it stands because of the exchanged lists
   (`image_edges`).
