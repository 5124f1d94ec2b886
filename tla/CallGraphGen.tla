---------------------------- MODULE CallGraphGen ----------------------------
(***************************************************************************)
(* The LLVM pass: from the basic blocks of the functions of a module to    *)
(* one graph of library calls.  Every function's control-flow graph is     *)
(* expanded with the calls of its blocks, vertices joined by control flow  *)
(* are merged, the functions called from main are inserted into main's     *)
(* graph, and vertices are merged again.                                   *)
(*                                                                         *)
(* The merging loops walk hash tables, whose order no code fixes, so every *)
(* order of vertices and of neighbours is a behaviour here.                *)
(***************************************************************************)
EXTENDS LibcCallgraph, FiniteSets

CONSTANTS Func,       \* functions with a body
          main,
          Programs,   \* the modules the pass may be given: the functions it visits,
                      \* all but those whose names begin with "syscall" or "llvm."
          NULL

\* A direct call: of a function in the library listing ("libc"), of a function
\* with a body ("user"), of an LLVM intrinsic or another declaration ("other").
Call == [kind : {"libc", "other"}, name : Nat] \cup [kind : {"user"}, name : Func]

\* A function: its blocks, the last one without predecessors, the last one that
\* returns, if any does, the control flow between blocks and the calls each block
\* makes, in order.  A block that cannot be reached may be taken for the entry.
Function(fn) ==
    /\ fn.entry \in fn.blocks /\ fn.exit \in fn.blocks \cup {NULL} /\ NULL \notin fn.blocks
    /\ fn.succ \subseteq fn.blocks \X fn.blocks
    /\ fn.entry \in {b \in fn.blocks : \A d \in fn.succ : d[2] # b}
    /\ \A b \in fn.blocks : fn.calls[b] \in Seq(Call)

VARIABLES
    prog,      \* the module under compilation
    meta,      \* funcBBToMetaMap: entryNode, exitNode and libcCallGraph
    cur,       \* the function being converted, NULL for the final graph
    graph,     \* the graph being merged: its libcCallGraph, or finalGraph
    exitNode,  \* and its exit node
    pc,        \* "convert", "scan", "control", "user", "inline", "call", "done"
    waiting,   \* functions not yet converted
    todo,      \* vertices of the current scan not yet visited
    vertex,    \* the vertex being visited
    left,      \* its neighbours not yet dealt with
    merged,    \* ~noMergeFound
    rep,       \* history: the vertex every vertex was merged into
    lost       \* history: values of cur for which a merge lost or could lose an edge,
               \* NULL also when a call could not be tied to the function inserted

loop == <<todo, vertex, left, merged>>
vars == <<prog, meta, cur, graph, exitNode, pc, waiting, loop, rep, lost>>

-----------------------------------------------------------------------------
(* Expansion: vertex <<f, b, k>> stands for block b of f after k calls.    *)

Last(p, f, b) == <<f, b, Len(p[f].calls[b])>>

Vertices(p, f) == UNION {{<<f, b, k>> : k \in 0..Len(p[f].calls[b])} : b \in p[f].blocks}

\* NULL, the empty name in the code, is the name of nothing.
ASSUME ProgramAssumption ==
    /\ main \in Func /\ NULL \notin Func
    /\ \A p \in Programs : /\ main \in DOMAIN p /\ DOMAIN p \subseteq Func
                           /\ \A f \in DOMAIN p : Function(p[f]) /\ NULL \notin Vertices(p, f)

CallEdges(p, f) ==
    {e \in Vertices(p, f) \X Vertices(p, f) : e[1][2] = e[2][2] /\ e[2][3] = e[1][3] + 1}

ControlEdges(p, f) == {<<Last(p, f, d[1]), <<f, d[2], 0>>>> : d \in p[f].succ}

\* The control-flow graph of f, with the calls of every block as a chain of
\* edges after it; the edges that left the block leave the end of the chain.
Expanded(p, f) ==
    [vertices |-> Vertices(p, f),
     edges    |-> [e \in CallEdges(p, f) \cup ControlEdges(p, f) |->
                     IF e \in ControlEdges(p, f) THEN Control
                     ELSE p[f].calls[e[2][2]][e[2][3]]]]

\* Where a function is left, if it ever is.
ExitOf(p, f) == IF p[f].exit = NULL THEN NULL ELSE Last(p, f, p[f].exit)

EmptyMeta == [entryNode |-> NULL, exitNode |-> NULL, libcCallGraph |-> NoGraph]

Init ==
    /\ prog \in Programs
    /\ meta = [f \in DOMAIN prog |-> EmptyMeta]
    /\ cur = NULL /\ graph = NoGraph /\ exitNode = NULL
    /\ pc = "convert" /\ waiting = DOMAIN prog
    /\ todo = {} /\ vertex = NULL /\ left = {} /\ merged = FALSE
    /\ rep = [v \in UNION {Vertices(prog, f) : f \in DOMAIN prog} |-> v]
    /\ lost = {}

-----------------------------------------------------------------------------
(* The merging loop of ConvertBBGraphToLibcCallGraph and CombineLibcgGraph. *)

\* The next function, in a fixed order that does not matter, and once all are
\* converted the final graph.
convert_next ==
    /\ pc = "convert"
    /\ \/ /\ waiting # {}
          /\ cur' = CHOOSE f \in waiting : TRUE
          /\ waiting' = waiting \ {cur'}
          /\ graph' = Expanded(prog, cur')
          /\ exitNode' = ExitOf(prog, cur')
          /\ merged' = TRUE /\ pc' = "scan" /\ UNCHANGED todo
       \/ /\ waiting = {}
          /\ cur' = NULL /\ graph' = meta[main].libcCallGraph
          /\ exitNode' = meta[main].exitNode
          /\ todo' = graph'.vertices /\ pc' = "inline"
          /\ UNCHANGED <<waiting, merged>>
    /\ UNCHANGED <<prog, meta, vertex, left, rep, lost>>

\* Mutant: a single scan.
ScanAgain_once == merged /\ vertex = NULL

ScanAgain == merged

\* while (!noMergeFound): another scan, or the graph is done.
scan ==
    /\ pc = "scan" /\ todo = {}
    /\ IF ScanAgain
       THEN todo' = graph.vertices /\ merged' = FALSE /\ UNCHANGED <<meta, pc, vertex>>
       ELSE /\ pc' = IF cur = NULL THEN "done" ELSE "convert"
            /\ meta' = IF cur = NULL THEN meta ELSE [meta EXCEPT ![cur] =
                         [entryNode |-> <<cur, prog[cur].entry, 0>>,
                          exitNode |-> exitNode, libcCallGraph |-> graph]]
            /\ vertex' = NULL /\ UNCHANGED <<todo, merged>>
    /\ UNCHANGED <<prog, cur, graph, exitNode, waiting, left, rep, lost>>

\* The next vertex of the scan; one that was merged meanwhile has no neighbours.
visit(v) ==
    /\ pc = "scan" /\ v \in todo
    /\ todo' = todo \ {v} /\ vertex' = v
    /\ left' = NeighborsBy(graph, v, "control") /\ pc' = "control"
    /\ UNCHANGED <<prog, meta, cur, graph, exitNode, waiting, merged, rep, lost>>

\* Merging n into vertex can lose an edge: n is the vertex itself, n has a self
\* loop, or edges with different labels fall together.
Clash(n) ==
    LET image(w) == IF w = n THEN vertex ELSE w
        others   == DOMAIN graph.edges \ {<<vertex, n>>}
    IN  \/ n = vertex
        \/ <<n, n>> \in DOMAIN graph.edges
        \/ \E e, d \in others : /\ image(e[1]) = image(d[1]) /\ image(e[2]) = image(d[2])
                                /\ graph.edges[e] # graph.edges[d]

\* Mutant: the exit node does not follow the merge.
ExitAfter_stays(n) == exitNode

\* The exit node follows the merge of n into vertex.
ExitAfter(n) == IF exitNode = n THEN vertex ELSE exitNode

\* One turn of the loop over the neighbours.
combine(n) ==
    /\ pc \in {"control", "user"} /\ n \in left
    /\ left' = left \ {n} /\ merged' = TRUE
    /\ \E late \in BOOLEAN : \E missed \in Missable(graph, vertex, n, late) :
          /\ graph' = combine_vertex(graph, vertex, n, late, missed)
          /\ lost' = IF Clash(n) \/ missed # {} THEN lost \cup {cur} ELSE lost
    /\ exitNode' = ExitAfter(n)
    /\ rep' = [v \in DOMAIN rep |-> IF rep[v] = n THEN vertex ELSE rep[v]]
    /\ UNCHANGED <<prog, meta, cur, pc, waiting, todo, vertex>>

\* The control neighbours are merged; the final graph then loses the edges of
\* the calls to its own functions in the same way.
combined ==
    /\ pc \in {"control", "user"} /\ left = {}
    /\ IF pc = "control" /\ cur = NULL
       THEN left' = NeighborsBy(graph, vertex, "user") /\ pc' = "user"
       ELSE pc' = "scan" /\ UNCHANGED left
    /\ UNCHANGED <<prog, meta, cur, graph, exitNode, waiting, todo, vertex, merged, rep, lost>>

-----------------------------------------------------------------------------
(* The first loop of CombineLibcgGraph. *)

inline_visit(v) ==
    /\ pc = "inline" /\ v \in todo
    /\ todo' = todo \ {v} /\ vertex' = v
    /\ left' = NeighborsBy(graph, v, "user") /\ pc' = "call"
    /\ UNCHANGED <<prog, meta, cur, graph, exitNode, waiting, merged, rep, lost>>

\* operator[] of funcBBToMetaMap makes an entry for a name that has none.
MetaOf(f) == IF f \in DOMAIN meta THEN meta[f] ELSE EmptyMeta

\* The called function's graph is inserted, and control flow added from the
\* call to its entry, which may have been merged away, and from its exit to
\* whichever neighbour comes first.  A function the pass skipped has no graph, and
\* one that does not return no exit.
inline_call(n) ==
    /\ pc = "call" /\ n \in left
    /\ left' = left \ {n}
    /\ LET callee == MetaOf(graph.edges[<<vertex, n>>].name)
           g == add_edge(insert_graph(graph, callee.libcCallGraph),
                         vertex, callee.entryNode, Control)
           into == /\ callee.entryNode \in g.vertices
                   /\ graph'.edges[<<vertex, callee.entryNode>>] = Control
           back == /\ callee.exitNode \in g.vertices
                   /\ graph'.edges[<<callee.exitNode, n>>] = Control
       IN  \E front \in get_neighbors(g, vertex) :
              /\ graph' = add_edge(g, callee.exitNode, front, Control)
              /\ lost' = IF into /\ (callee.exitNode = NULL \/ (front = n /\ back))
                         THEN lost ELSE lost \cup {NULL}
    /\ UNCHANGED <<prog, meta, cur, exitNode, pc, waiting, todo, vertex, merged, rep>>

inline_done ==
    /\ \/ pc = "call" /\ left = {} /\ pc' = "inline" /\ UNCHANGED merged
       \/ pc = "inline" /\ todo = {} /\ pc' = "scan" /\ merged' = TRUE
    /\ UNCHANGED <<prog, meta, cur, graph, exitNode, waiting, todo, vertex, left, rep, lost>>

Next ==
    \/ convert_next \/ scan \/ combined \/ inline_done
    \/ \E v \in todo : visit(v) \/ inline_visit(v)
    \/ \E n \in left : combine(n) \/ inline_call(n)

\* The pass is one thread that runs until it is done.
Spec == Init /\ [][Next]_vars /\ WF_vars(Next)

-----------------------------------------------------------------------------
(* Properties. *)

\* Every variable keeps its type, and no edge of the graph under construction
\* names a vertex that was merged away.
TypeOK ==
    /\ prog \in Programs
    /\ cur \in Func \cup {NULL} /\ waiting \subseteq Func
    /\ pc \in {"convert", "scan", "control", "user", "inline", "call", "done"}
    /\ \A e \in DOMAIN graph.edges : {e[1], e[2]} \subseteq graph.vertices
    /\ merged \in BOOLEAN
    /\ rep \in [DOMAIN rep -> DOMAIN rep]
    /\ lost \subseteq Func \cup {NULL}

\* Graph g has the edge e of the program, between the vertices its ends were
\* merged into.
Kept(g, e, label) ==
    LET d == <<rep[e[1]], rep[e[2]]>>
    IN  d \in DOMAIN g.edges /\ g.edges[d] = label

\* Every path of function f is one of g: each call is an edge between the merged
\* vertices, and control flow leads from a vertex to one it is, or is about to
\* be, merged with.
Simulates(g, f) ==
    LET x == Expanded(prog, f)
    IN  \A e \in DOMAIN x.edges :
           \/ Kept(g, e, x.edges[e])
           \/ x.edges[e] = Control /\ rep[e[1]] = rep[e[2]]

\* ConvertBBGraphToLibcCallGraph keeps every path, as long as no merge met a clash
\* or missed an edge.
ConvertSimulates == cur # NULL /\ cur \notin lost => Simulates(graph, cur)

\* The exit node follows the merges, so that control can be returned from it; a
\* function that does not return never gets one.
ExitTracked ==
    cur # NULL /\ cur \notin lost =>
        IF prog[cur].exit = NULL THEN exitNode = NULL
        ELSE /\ exitNode \in graph.vertices
             /\ exitNode = rep[Last(prog, cur, prog[cur].exit)]

CalledFrom(p, f) ==
    {g \in Func : \E b \in p[f].blocks : \E k \in 1..Len(p[f].calls[b]) :
                     p[f].calls[b][k] = [kind |-> "user", name |-> g]}

\* The final graph can follow main and the functions main calls through every
\* path, unless a merge met a clash or missed an edge, or a call was not tied to its
\* function: each library call is an edge between the merged vertices, control flow
\* stays on one vertex, and a call of main leads to the entry of the function and
\* its exit back to what comes after the call.
FinalSimulates ==
    pc = "done" /\ lost = {} =>
        \A f \in {main} \cup (CalledFrom(prog, main) \cap DOMAIN prog) :
            LET x == Expanded(prog, f)
            IN  \A e \in DOMAIN x.edges :
                   LET callee == x.edges[e].name
                   IN  IF x.edges[e].kind \in {"libc", "other"} THEN Kept(graph, e, x.edges[e])
                       ELSE /\ rep[e[1]] = rep[e[2]]
                            /\ x.edges[e].kind = "user" /\ f = main =>
                                 /\ rep[e[1]] = rep[<<callee, prog[callee].entry, 0>>]
                                 /\ prog[callee].exit # NULL =>
                                       rep[e[2]] = rep[Last(prog, callee, prog[callee].exit)]

\* README "edges for internal function calls too, which will be trimmed in the
\* next step": in the end no edge is control flow or a call of one of the
\* program's own functions, whichever order the tables were walked in.
InternalEdgesTrimmed ==
    pc = "done" =>
        \A e \in DOMAIN graph.edges : graph.edges[e].kind \notin {"control", "user"}

\* Both merging loops end, whatever the graph and the order of its tables.
PassEnds == <>(pc = "done")

\* The functions that main, or a function it calls, calls.
Reached(p) ==
    LET R[n \in Nat] == IF n = 0 THEN {main}
                        ELSE R[n - 1] \cup (DOMAIN p \cap UNION {CalledFrom(p, f) : f \in R[n - 1]})
    IN  R[Cardinality(Func)]

\* README.md:37 "edges form library calls": each library call the program makes
\* is the label of some edge of the final graph.
EveryCallInGraph ==
    pc = "done" =>
        \A f \in Reached(prog) : \A b \in prog[f].blocks : \A k \in 1..Len(prog[f].calls[b]) :
            prog[f].calls[b][k].kind = "libc" =>
                \E e \in DOMAIN graph.edges : graph.edges[e] = prog[f].calls[b][k]

-----------------------------------------------------------------------------
(* What the proofs rest on. *)

Closed(g) == /\ g = [vertices |-> g.vertices, edges |-> g.edges]
             /\ DOMAIN g.edges \subseteq g.vertices \X g.vertices

\* Where the vertices come from, and what each step of the loops may assume.
LoopInv ==
    /\ Closed(graph)
    /\ DOMAIN rep = UNION {Vertices(prog, f) : f \in DOMAIN prog}
    /\ graph.vertices \cup todo \subseteq DOMAIN rep
    /\ left # {} => vertex \in DOMAIN rep
    /\ DOMAIN meta = DOMAIN prog /\ waiting \subseteq DOMAIN prog
    /\ \A f \in DOMAIN prog : /\ Closed(meta[f].libcCallGraph)
                              /\ meta[f].libcCallGraph.vertices \subseteq Vertices(prog, f)
    /\ \A f \in waiting : \A v \in Vertices(prog, f) : rep[v] = v
    /\ cur # NULL => /\ cur \in DOMAIN prog \ waiting
                     /\ graph.vertices \cup todo \cup left \subseteq Vertices(prog, cur)
                     /\ left # {} => vertex \in Vertices(prog, cur)
    /\ pc \in {"inline", "call", "user", "done"} => cur = NULL
    /\ cur = NULL /\ pc # "convert" => waiting = {}
    /\ pc = "convert" => todo = {}
    /\ pc \notin {"control", "user", "call"} => left = {}

\* What is left of the neighbours is still tied to the vertex by the edge it was
\* found with, although the graph has changed since.
LeftInv ==
    pc \in {"control", "user", "call"} /\ cur \notin lost =>
        \A n \in left : /\ <<vertex, n>> \in DOMAIN graph.edges
                        /\ graph.edges[<<vertex, n>>].kind = IF pc = "control" THEN "control" ELSE "user"

\* g stands for function f: every vertex was merged into one of g, and only the
\* ones that were merged away are missing.
Converted(f, g, exit) ==
    /\ \A v \in Vertices(prog, f) : rep[v] \in g.vertices
    /\ \A v \in g.vertices : rep[v] = v
    /\ exit = IF prog[f].exit = NULL THEN NULL ELSE rep[Last(prog, f, prog[f].exit)]
    /\ Simulates(g, f)

\* The kinds of edges that the current scan removes.
Internal == IF cur = NULL THEN {"control", "user"} ELSE {"control"}

Trimmed(v) == \A kind \in Internal : NeighborsBy(graph, v, kind) = {}

\* In a scan that has merged nothing, the vertices visited have no such edges.
TrimInv ==
    /\ pc \in {"scan", "control", "user"} /\ ~ merged =>
          \A v \in graph.vertices \ todo : Trimmed(v) \/ (pc # "scan" /\ v = vertex)
    /\ pc = "control" /\ ~ merged => left = NeighborsBy(graph, vertex, "control")
    /\ pc = "user" /\ ~ merged => /\ left = NeighborsBy(graph, vertex, "user")
                                  /\ NeighborsBy(graph, vertex, "control") = {}
    /\ InternalEdgesTrimmed

\* The strengthening behind TypeOK, ConvertSimulates, ExitTracked and
\* InternalEdgesTrimmed.
MergeInv ==
    /\ TypeOK /\ LoopInv /\ LeftInv /\ TrimInv
    /\ cur # NULL /\ cur \notin lost => Converted(cur, graph, exitNode)

\* Every function that was converted without a loss left its meta data, and the
\* merges in other functions do not touch it.
MetaInv ==
    cur # NULL \/ pc \in {"convert", "inline", "call"} =>
        \A f \in DOMAIN prog \ (waiting \cup lost) : f # cur \/ pc = "convert" =>
            /\ meta[f].entryNode = <<f, prog[f].entry, 0>>
            /\ Converted(f, meta[f].libcCallGraph, meta[f].exitNode)

\* The calls main makes of functions of the program.
UserCalls == {e \in DOMAIN Expanded(prog, main).edges : Expanded(prog, main).edges[e].kind = "user"}

\* The first loop of CombineLibcgGraph has dealt with call e.
Handled(e) ==
    pc \in {"inline", "call"} =>
        rep[e[1]] \notin todo /\ (pc = "call" /\ rep[e[1]] = vertex => rep[e[2]] \notin left)

\* Function f can be followed in the graph, up to what the last loop merges.
Followed(f) ==
    LET x == Expanded(prog, f)
    IN  \A e \in DOMAIN x.edges :
           \/ Kept(graph, e, x.edges[e])
           \/ x.edges[e].kind \in {"control", "user"} /\ rep[e[1]] = rep[e[2]]

Tie(v, w) == rep[v] = rep[w] \/ Kept(graph, <<v, w>>, Control)

\* Control flow leads from call e into the function, and back after the call.
CallTied(e) ==
    LET callee == Expanded(prog, main).edges[e].name
    IN  /\ callee \in DOMAIN prog /\ Followed(callee)
        /\ Tie(e[1], <<callee, prog[callee].entry, 0>>)
        /\ prog[callee].exit # NULL => Tie(Last(prog, callee, prog[callee].exit), e[2])

\* Functions that were inserted lie side by side in the graph.
InsertInv ==
    /\ Simulates(graph, main)
    /\ \A v \in graph.vertices : rep[v] = v
    /\ \A f \in DOMAIN prog : \A d \in DOMAIN meta[f].libcCallGraph.edges \cap DOMAIN graph.edges :
          graph.edges[d] = meta[f].libcCallGraph.edges[d]

\* As long as nothing was lost, main and the functions inserted can be followed.
FinalInv ==
    cur = NULL /\ pc # "convert" /\ lost = {} =>
        /\ Followed(main) /\ \A e \in UserCalls : Handled(e) => CallTied(e)
        /\ pc \in {"inline", "call"} => InsertInv

\* The strengthening behind FinalSimulates.
PassInv == MergeInv /\ MetaInv /\ FinalInv

=============================================================================
