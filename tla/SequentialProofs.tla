-------------------------- MODULE SequentialProofs --------------------------
(***************************************************************************)
(* One program after the other: under Sequential the system calls          *)
(* implement PolicyMonitor, for every set of tasks, policies and sizes and *)
(* whatever failed in the programs before.                                 *)
(***************************************************************************)
EXTENDS SandboxProofs

\* Labels of a task that has not started or has ended.
Idle == {"new", "killed", "oops", "gone"}

\* The parts of SequentialInv that speak of one task.
TaskInv(t) == ScanInv(t) /\ WalkInv(t)

\* The listing, once allocated, has the size of every policy.
CapInv == nodes # NoListing => \A u \in Full : nodes.cap = Len(Policy[u])

\* What a step has been shown to keep before SequentialInv is considered.
BaseInv == TypeOK /\ SerialInv /\ AloneInv

\* A step of t that leaves the locals of the other tasks alone, none of which
\* runs, keeps SequentialInv when it keeps the parts about t.
LEMMA SeqMove ==
    ASSUME SequentialInv, BaseInv', CapInv', NEW t \in Task, TaskInv(t)',
           pool # NULL => pool' # NULL,
           \A u \in Task \ {t} : /\ pc[u] \in Idle /\ pc'[u] = pc[u] /\ i'[u] = i[u]
                                 /\ own'[u] = own[u] /\ inits'[u] = inits[u]
    PROVE  SequentialInv'
  <1>1. ASSUME NEW u \in Task \ {t}
        PROVE  TaskInv(u)'
    <2>1. /\ pc'[u] \in Idle /\ pc'[u] = pc[u] /\ i'[u] = i[u]
          /\ own'[u] = own[u] /\ inits'[u] = inits[u]
      OBVIOUS
    <2>2. ScanInv(u) /\ WalkInv(u)
      BY DEF SequentialInv
    <2>3. ScanInv(u)'
      BY <2>1, <2>2 DEF ScanInv, Idle
    <2>4. WalkInv(u)'
      BY <2>1, <2>2 DEF WalkInv, Idle, KernelPC
    <2> QED
      BY <2>3, <2>4 DEF TaskInv
  <1> QED
    BY <1>1 DEF SequentialInv, CapInv, TaskInv, BaseInv

\* The same for a step of the program that runs, which moves to label l.
LEMMA SeqRun ==
    ASSUME SequentialInv, BaseInv', CapInv', NEW t \in Task, TaskInv(t)',
           pool # NULL => pool' # NULL,
           pc[t] \notin Idle, NEW l, pc' = [pc EXCEPT ![t] = l],
           \A u \in Task \ {t} : i'[u] = i[u] /\ own'[u] = own[u] /\ inits'[u] = inits[u]
    PROVE  SequentialInv'
  <1>1. pc \in [Task -> TaskPC] /\ AloneInv
    BY DEF SequentialInv, TypeOK
  <1>2. \A u \in Task \ {t} : pc[u] \in Idle /\ pc'[u] = pc[u]
    BY <1>1, AloneRuns DEF Idle
  <1> QED
    BY <1>2, SeqMove

\* A step of sandbox_init up to the scan: it touches neither listing nor cursor, and
\* the pool only where the call can no longer fail.
LEMMA SeqStage ==
    ASSUME SequentialInv, BaseInv', NEW t \in Task,
           pc[t] \in {"init", "alloc", "copy", "fill", "dump", "call", "memset", "memcpy", "entry"},
           NEW l \in {"alloc", "copy", "fill", "dump", "call", "memset", "memcpy", "entry",
                      "list", "reset", "user", "oops"},
           pc' = [pc EXCEPT ![t] = l],
           UNCHANGED <<nodes, current_progstate, start_node, i, own, inits>>,
           pool # NULL => pool' # NULL,
           l \in {"user", "alloc", "copy", "fill"} =>
              pc[t] \in {"init", "alloc", "copy", "fill"} /\ UNCHANGED pool,
           l = "reset" => t \notin Full
    PROVE  SequentialInv'
  <1>1. pc'[t] = l
    BY DEF SequentialInv, TypeOK
  <1>2. ScanInv(t) /\ WalkInv(t)
    BY DEF SequentialInv
  <1>3. ScanInv(t)'
    BY <1>1, <1>2 DEF ScanInv
  <1>4. ListingOf(t, Len(Policy[t])) => ListingOf(t, Len(Policy[t]))'
    BY DEF ListingOf
  <1>5. WalkInv(t)'
    BY <1>1, <1>2, <1>4 DEF WalkInv, KernelPC
  <1>6. CapInv'
    BY DEF SequentialInv, CapInv
  <1> QED
    BY <1>3, <1>5, <1>6, SeqRun DEF TaskInv, Idle

\* A program starts, or calls sandbox_init again.
LEMMA SeqExec ==
    ASSUME Sequential, SequentialInv, BaseInv', NEW t \in Task, exec(t)
    PROVE  SequentialInv'
  <1>1. /\ pc \in [Task -> TaskPC] /\ inits \in [Task -> Nat]
        /\ pc[t] \in {"new", "user"} /\ pc' = [pc EXCEPT ![t] = "init"]
        /\ inits' = [inits EXCEPT ![t] = inits[t] + 1]
        /\ UNCHANGED <<pool, nodes, current_progstate, start_node, i, own>>
    BY DEF exec, Enter, Goto, graph, cursor, frame, SequentialInv, TypeOK
  <1>2. \A u \in Task \ {t} : pc[u] \in Idle /\ pc'[u] = pc[u]
    <2>1. CASE pc[t] = "user"
      BY <1>1, <2>1, AloneRuns DEF Idle, SequentialInv
    <2>2. CASE pc[t] # "user"
      <3>1. Running = {}
        BY <2>2, AloneExec DEF exec, Sequential, SequentialInv
      <3> QED
        BY <1>1, <3>1 DEF Running, Idle
    <2> QED
      BY <2>1, <2>2
  <1>3. pc'[t] = "init" /\ ScanInv(t) /\ WalkInv(t) /\ inits'[t] = inits[t] + 1 /\ inits[t] \in Nat
    BY <1>1 DEF SequentialInv
  <1>4. ScanInv(t)'
    BY <1>1, <1>3 DEF ScanInv
  <1>5. WalkInv(t)'
    <2>1. ListingOf(t, Len(Policy[t])) => ListingOf(t, Len(Policy[t]))'
      BY <1>1 DEF ListingOf
    <2>2. inits'[t] # 0 /\ (inits'[t] = 1 => inits[t] = 0)
      BY <1>3
    <2> QED
      BY <1>1, <1>3, <2>1, <2>2 DEF WalkInv
  <1>6. CapInv'
    BY <1>1 DEF SequentialInv, CapInv
  <1>7. \A u \in Task \ {t} : inits'[u] = inits[u]
    BY <1>1
  <1> QED
    BY <1>1, <1>2, <1>4, <1>5, <1>6, <1>7, SeqMove DEF TaskInv

\* sandbox_init up to the call of initialize_graph.
LEMMA SeqInitBuffer ==
    ASSUME SequentialInv, BaseInv', NEW t \in Task,
           \/ init_free(t) \/ init_alloc(t) \/ init_copy(t) \/ copy_from_user(t) \/ init_dump(t)
    PROVE  SequentialInv'
  <1>1. UNCHANGED <<pool, nodes, current_progstate, start_node, i, own, inits>>
    BY DEF init_free, init_alloc, init_copy, copy_from_user, init_dump, graph, cursor, frame, count
  <1>2. CASE init_free(t)
    BY <1>1, <1>2, SeqStage DEF init_free, Goto
  <1>3. CASE init_alloc(t)
    BY <1>1, <1>3, SeqStage DEF init_alloc, Goto
  <1>4. CASE init_copy(t)
    BY <1>1, <1>4, SeqStage DEF init_copy, Goto
  <1>5. CASE copy_from_user(t)
    <2>1. pc[t] = "fill" /\ pc = [pc EXCEPT ![t] = "fill"]
      BY <1>5 DEF copy_from_user, SequentialInv, TypeOK
    <2>2. \E l \in {"fill", "dump", "user"} : pc' = [pc EXCEPT ![t] = l]
      BY <1>5, <2>1 DEF copy_from_user, AfterFailedCopy, GoesOn, Goto
    <2> QED
      BY <1>1, <2>1, <2>2, SeqStage
  <1>6. CASE init_dump(t)
    BY <1>1, <1>6, SeqStage DEF init_dump, Goto
  <1> QED
    BY <1>2, <1>3, <1>4, <1>5, <1>6

\* initialize_graph up to its scan, and the check of the metadata.
LEMMA SeqInitLoad ==
    ASSUME SequentialInv, BaseInv', NEW t \in Task,
           init_call(t) \/ init_memset(t) \/ init_memcpy(t) \/ verify_entry(t)
    PROVE  SequentialInv'
  <1>1. TypeOK /\ TypeOK' /\ LoadInv(t) /\ ScanInv(t) /\ pc \in [Task -> TaskPC] /\ i \in [Task -> Nat]
    BY DEF SequentialInv, SerialInv, TypeOK, BaseInv
  <1>2. UNCHANGED <<current_progstate, start_node, own, inits>>
    BY DEF init_call, init_memset, init_memcpy, verify_entry, cursor, count
  <1>3. CASE init_call(t)
    <2>1. UNCHANGED <<nodes, i>> /\ (pool # NULL => pool' # NULL)
      BY <1>3 DEF init_call, ThePool
    <2>2. pc[t] = "call" /\ \E l \in {"memset", "oops"} : pc' = [pc EXCEPT ![t] = l]
      BY <1>3 DEF init_call, Goto
    <2> QED
      BY <1>2, <2>1, <2>2, SeqStage
  <1>4. CASE init_memset(t)
    <2>1. UNCHANGED <<nodes, i>> /\ pc[t] = "memset" /\ pc = [pc EXCEPT ![t] = "memset"]
      BY <1>1, <1>4 DEF init_memset
    <2>2. \E l \in {"memset", "memcpy"} : pc' = [pc EXCEPT ![t] = l]
      BY <1>4, <2>1 DEF init_memset, GoesOn, Goto
    <2>3. pool' # NULL
      <3>1. (pc[t])' \in {"memset", "memcpy"}
        BY <1>1, <2>2
      <3> QED
        BY <1>1, <3>1 DEF TypeOK
    <2> QED
      BY <1>2, <2>1, <2>2, <2>3, SeqStage
  <1>5. CASE init_memcpy(t)
    <2>1. pc[t] = "memcpy" /\ pc = [pc EXCEPT ![t] = "memcpy"] /\ data[t] # NULL
      BY <1>1, <1>5 DEF init_memcpy, LoadInv
    <2>2. UNCHANGED <<nodes, i>> /\ \E l \in {"memcpy", "entry"} : pc' = [pc EXCEPT ![t] = l]
      BY <1>5, <2>1 DEF init_memcpy, GoesOn, Goto
    <2>3. pool' # NULL
      <3>1. (pc[t])' \in {"memcpy", "entry"}
        BY <1>1, <2>2
      <3> QED
        BY <1>1, <3>1 DEF TypeOK
    <2> QED
      BY <1>2, <2>1, <2>2, <2>3, SeqStage
  <1>6. CASE verify_entry(t)
    <2>1. pc[t] = "entry" /\ UNCHANGED <<pool, nodes>> /\ i[t] = 0
      BY <1>1, <1>6 DEF verify_entry, graph, ScanInv
    <2>2. UNCHANGED i
      BY <1>1, <1>6, <2>1 DEF verify_entry, VerifyReturns
    <2>3. t \in Full => HeaderVerdict(pool) = 1
      BY <1>1, <2>1, Policies, ImageType DEF LoadInv
    <2>4. \E l \in {"list", "reset"} : pc' = [pc EXCEPT ![t] = l] /\ (l = "reset" => t \notin Full)
      BY <1>6, <2>3 DEF verify_entry, VerifyReturns, Goto
    <2> QED
      BY <1>2, <2>1, <2>2, <2>4, SeqStage
  <1> QED
    BY <1>3, <1>4, <1>5, <1>6

\* The listing, new or left by an earlier program, has room for every node.
LEMMA SeqVerifyList ==
    ASSUME Sequential, SequentialInv, BaseInv', NEW t \in Task, verify_list(t)
    PROVE  SequentialInv'
  <1>1. /\ LoadInv(t) /\ ScanInv(t) /\ WalkInv(t) /\ pc \in [Task -> TaskPC]
        /\ at \in [Task -> -1..PoolCells]
        /\ nodes # NoListing => Listing(nodes)
    BY DEF SequentialInv, SerialInv, TypeOK
  <1>2. /\ pc[t] = "list" /\ UNCHANGED <<pool, i, own, inits>> /\ pc' = [pc EXCEPT ![t] = "loop"]
        /\ at' = [at EXCEPT ![t] = pool.nodes_table_offset]
        /\ nodes' = IF nodes = NoListing THEN NewListing(pool.num_nodes) ELSE nodes
    BY DEF verify_list, FirstNode, Goto, count
  <1>3. /\ t \in Full /\ pool = Image(Policy[t]) /\ pool.num_nodes = Len(Policy[t])
        /\ pool.nodes_table_offset = 0
        /\ i[t] = 0 /\ Len(Policy[t]) \in Nat /\ Start(Policy[t])[0] = 0
    <2>1. t \in Full /\ pool = Image(Policy[t]) /\ i[t] = 0
      BY <1>1, <1>2 DEF LoadInv, ScanInv
    <2> QED
      BY <2>1, Policies, ImageType, PolicyEdges, StartStep
  <1>4. nodes' # NoListing /\ nodes'.cap = Len(Policy[t])
    <2>1. CASE nodes = NoListing
      BY <1>2, <1>3, <2>1 DEF NewListing, NoListing
    <2>2. CASE nodes # NoListing
      BY <1>2, <1>3, <2>2 DEF SequentialInv
    <2> QED
      BY <2>1, <2>2
  <1>5. CapInv'
    BY <1>3, <1>4 DEF CapInv, Sequential
  <1>6. pc'[t] = "loop"
    BY <1>1, <1>2
  <1>7. ScanInv(t)'
    <2>1. i'[t] = 0 /\ at'[t] = 0
      BY <1>1, <1>2, <1>3
    <2>2. ListingOf(t, 0)'
      BY <1>4 DEF ListingOf
    <2> QED
      BY <1>3, <1>6, <2>1, <2>2 DEF ScanInv
  <1>8. WalkInv(t)'
    BY <1>1, <1>2, <1>6 DEF WalkInv, KernelPC
  <1> QED
    BY <1>2, <1>5, <1>7, <1>8, SeqRun DEF TaskInv, Idle

\* Every turn of the loop enters the next node of the image in the listing.
LEMMA SeqVerifyLoop ==
    ASSUME Sequential, SequentialInv, BaseInv', NEW t \in Task, verify_loop(t)
    PROVE  SequentialInv'
  <1> DEFINE n == Len(Policy[t])
             f == Start(Policy[t])
  <1>1. /\ LoadInv(t) /\ ScanInv(t) /\ WalkInv(t) /\ pc \in [Task -> TaskPC]
        /\ nodes # NoListing => Listing(nodes)
        /\ i \in [Task -> Nat] /\ at \in [Task -> -1..PoolCells]
    BY DEF SequentialInv, SerialInv, TypeOK
  <1>2. pc[t] = "loop" /\ UNCHANGED <<pool, own, inits>>
    BY DEF verify_loop, count
  <1>3. /\ t \in Full /\ pool = Image(Policy[t]) /\ pool.num_nodes = n /\ pool \in Block
        /\ n \in Nat /\ i[t] \in Nat /\ i[t] <= n /\ at[t] = f[i[t]] /\ ListingOf(t, i[t])
        /\ nodes # NoListing /\ nodes.cap = n
    <2>1. /\ t \in Full /\ pool = Image(Policy[t]) /\ i[t] <= n /\ at[t] = f[i[t]]
          /\ ListingOf(t, i[t]) /\ i[t] \in Nat
      BY <1>1, <1>2 DEF LoadInv, ScanInv
    <2>2. Image(Policy[t]).num_nodes = n /\ Image(Policy[t]) \in Block /\ n \in Nat
      BY Policies, ImageType, PolicyEdges
    <2> QED
      BY <2>1, <2>2 DEF ListingOf
  <1> HIDE DEF n, f
  <1>4. CASE i[t] >= n
    <2>1. /\ i[t] = n /\ UNCHANGED nodes /\ pc' = [pc EXCEPT ![t] = "reset"]
          /\ i' = [i EXCEPT ![t] = 0] /\ at' = [at EXCEPT ![t] = 0]
      BY <1>3, <1>4 DEF verify_loop, VerifyReturns, Goto
    <2>2. pc'[t] = "reset" /\ i'[t] = 0 /\ at'[t] = 0
      BY <1>1, <2>1
    <2>3. ListingOf(t, Len(Policy[t]))'
      BY <1>3, <2>1 DEF ListingOf, n
    <2>4. ScanInv(t)' /\ WalkInv(t)'
      BY <1>1, <1>2, <1>3, <2>2, <2>3 DEF ScanInv, WalkInv, KernelPC
    <2>5. CapInv'
      BY <2>1 DEF SequentialInv, CapInv
    <2> QED
      BY <1>1, <1>2, <2>1, <2>4, <2>5, SeqRun DEF TaskInv, Idle
  <1>5. CASE ~(i[t] >= n)
    <2>1. i[t] \in 0..(n - 1) /\ i[t] < nodes.cap /\ i[t] + 1 <= n /\ i[t] + 1 \in Nat
      BY <1>3, <1>5
    <2>2. /\ NodeOK(pool, at[t]) /\ EdgesOK(pool, at[t]) /\ NextNode(pool, at[t]) = f[i[t] + 1]
      <3>1. /\ NodeOK(pool, f[i[t]]) /\ EdgesOK(pool, f[i[t]])
            /\ NextNode(pool, f[i[t]]) = f[i[t] + 1]
        <4>1. pool.cells = Image(Policy[t]).cells /\ Fits(Policy[t])
          BY <1>3, Policies
        <4> QED
          BY <2>1, <4>1, ImageRead DEF n, f
      <3> QED
        BY <1>3, <3>1
    <2>3. /\ nodes' = [nodes EXCEPT !.slot[i[t]] = at[t]] /\ UNCHANGED pc
          /\ i' = [i EXCEPT ![t] = @ + 1] /\ at' = [at EXCEPT ![t] = NextNode(pool, at[t])]
      BY <1>3, <1>5, <2>1, <2>2 DEF verify_loop, NextTurn
    <2>4. i'[t] = i[t] + 1 /\ at'[t] = f[i[t] + 1]
      BY <1>1, <2>2, <2>3
    <2>5. nodes' # NoListing /\ nodes'.cap = n /\ \A k \in 0..i[t] : nodes'.slot[k] = f[k]
      <3>1. /\ Listing(nodes) /\ nodes.cap = n /\ \A k \in 0..(i[t] - 1) : nodes.slot[k] = f[k]
        BY <1>1, <1>3 DEF ListingOf, f
      <3>2. nodes' = [cap |-> n, slot |-> [nodes.slot EXCEPT ![i[t]] = at[t]]]
        BY <2>3, <3>1 DEF Listing
      <3>3. i[t] \in DOMAIN nodes.slot
        BY <2>1, <3>1 DEF Listing
      <3>4. nodes'.cap = n /\ nodes'.slot = [nodes.slot EXCEPT ![i[t]] = at[t]]
        BY <3>2
      <3>5. ASSUME NEW k \in 0..i[t] PROVE nodes'.slot[k] = f[k]
        <4>1. CASE k = i[t]
          BY <1>3, <3>3, <3>4, <4>1
        <4>2. CASE k # i[t]
          <5>1. k \in 0..(i[t] - 1)
            BY <1>3, <4>2
          <5>2. k \in DOMAIN nodes.slot
            BY <2>1, <3>1, <5>1 DEF Listing
          <5> QED
            BY <3>1, <3>4, <4>2, <5>1, <5>2
        <4> QED
          BY <4>1, <4>2
      <3>6. nodes' # NoListing
        BY <1>3, <3>4 DEF NoListing
      <3> QED
        BY <3>4, <3>5, <3>6
    <2>6. CapInv'
      <3>1. \A u \in Full : Len(Policy[u]) = n
        BY <1>3 DEF Sequential, n
      <3> QED
        BY <2>5, <3>1 DEF CapInv
    <2>8. WalkInv(t)'
      BY <1>1, <1>2, <1>3, <2>3 DEF WalkInv
    <2>9. ScanInv(t)'
      <3>1. (i[t])' \in Nat /\ (i[t])' <= n /\ (i[t])' - 1 = i[t] /\ (at[t])' = f[(i[t])']
        BY <1>3, <2>1, <2>4
      <3>2. \A k \in 0..((i[t])' - 1) : (nodes.slot[k])' = f[k]
        BY <2>5, <3>1
      <3>3. (pc[t])' = "loop"
        BY <1>2, <2>3
      <3> QED
        BY <2>5, <3>1, <3>2, <3>3 DEF ScanInv, ListingOf, n, f
    <2>10. SequentialInv'
      BY <1>1, <1>2, <2>3, <2>6, <2>8, <2>9, SeqMove, AloneRuns DEF TaskInv, Idle, SequentialInv
    <2> QED
      BY <2>10
  <1> QED
    BY <1>4, <1>5

\* reset_progstate puts the cursor at state 0 of the task's own policy, if any.
LEMMA SeqInitReset ==
    ASSUME SequentialInv, BaseInv', NEW t \in Task, init_reset(t)
    PROVE  SequentialInv'
  <1>1. /\ LoadInv(t) /\ ScanInv(t) /\ WalkInv(t) /\ pc \in [Task -> TaskPC]
        /\ own \in [Task -> SUBSET Nat]
        /\ nodes # NoListing => Listing(nodes) /\ pool # NULL
    BY DEF SequentialInv, SerialInv, TypeOK
  <1>2. pc[t] = "reset" /\ UNCHANGED <<pool, nodes, i, inits>>
    BY DEF init_reset, graph, frame, count
  <1>3. i[t] = 0 /\ inits[t] # 0
    BY <1>1, <1>2 DEF ScanInv, WalkInv
  <1>4. CapInv'
    BY <1>2 DEF SequentialInv, CapInv
  <1>5. CASE nodes = NoListing \/ nodes.cap = 0
    <2>1. pc' = [pc EXCEPT ![t] = "oops"] /\ UNCHANGED own
      BY <1>5 DEF init_reset, Goto
    <2>2. pc'[t] = "oops"
      BY <1>1, <2>1
    <2>3. ScanInv(t)' /\ WalkInv(t)'
      BY <1>1, <1>2, <2>1, <2>2 DEF ScanInv, WalkInv, KernelPC
    <2> QED
      BY <1>2, <1>4, <2>1, <2>3, SeqRun DEF TaskInv, Idle
  <1>6. CASE ~(nodes = NoListing \/ nodes.cap = 0)
    <2>1. /\ pc' = [pc EXCEPT ![t] = "user"] /\ current_progstate' = 0 /\ start_node' = NodeOf(0)
          /\ own' = [own EXCEPT ![t] = IF t \in Full THEN {0} ELSE {}]
      BY <1>6 DEF init_reset, Goto
    <2>2. pc'[t] = "user" /\ own'[t] = (IF t \in Full THEN {0} ELSE {})
      BY <1>1, <2>1
    <2>3. ASSUME t \in Full
          PROVE  /\ pool' = Image(Policy[t]) /\ ListingOf(t, Len(Policy[t]))'
                 /\ 0 < Len(Policy[t]) /\ Len(Policy[t]) # 0 /\ start_node' = Start(Policy[t])[0]
      <3>1. pool = Image(Policy[t]) /\ ListingOf(t, Len(Policy[t]))
        BY <1>1, <1>2, <2>3 DEF LoadInv, ScanInv
      <3>2. Listing(nodes) /\ nodes.cap = Len(Policy[t]) /\ nodes.cap # 0 /\ nodes.cap \in Nat
        BY <1>1, <1>6, <3>1 DEF ListingOf, Listing
      <3>3. 0 \in 0..(nodes.cap - 1) /\ 0 < Len(Policy[t]) /\ Len(Policy[t]) # 0
        BY <3>2
      <3>4. NodeOf(0) = Start(Policy[t])[0]
        BY <3>1, <3>2, <3>3 DEF NodeOf, Slot, ListingOf
      <3>5. ListingOf(t, Len(Policy[t]))'
        BY <1>2, <3>1 DEF ListingOf
      <3> QED
        BY <1>2, <2>1, <3>1, <3>3, <3>4, <3>5
    <2>4. WalkInv(t)'
      BY <1>1, <1>2, <1>3, <1>6, <2>1, <2>2, <2>3 DEF WalkInv, KernelPC
    <2>5. ScanInv(t)'
      BY <1>2, <1>3, <2>2 DEF ScanInv
    <2> QED
      BY <1>1, <1>2, <1>4, <2>1, <2>4, <2>5, SeqRun DEF TaskInv, Idle
  <1> QED
    BY <1>5, <1>6

\* A step that leaves the graph, the cursor, the states of the program and the
\* pending call of a program past the check alone.
LEMMA SeqUser ==
    ASSUME SequentialInv, BaseInv', NEW t \in Task,
           pc[t] \in {"user", "check"}, UNCHANGED <<pool, nodes, current_progstate, start_node, i, own, inits>>,
           NEW l \in {"user", "check", "advance", "killed", "oops", "gone"},
           pc' = [pc EXCEPT ![t] = l],
           l \in {"check", "advance"} => (arg[t])' \in Call,
           l = "advance" /\ own[t] # {} => StateTransition(pool, start_node, (arg[t])') # 0
    PROVE  SequentialInv'
  <1>1. ScanInv(t) /\ WalkInv(t) /\ pc \in [Task -> TaskPC]
    BY DEF SequentialInv, TypeOK
  <1>2. (pc[t])' = l
    BY <1>1
  <1>3. ScanInv(t)'
    BY <1>1, <1>2 DEF ScanInv
  <1>4. WalkInv(t)'
    <2>1. ListingOf(t, Len(Policy[t])) => ListingOf(t, Len(Policy[t]))'
      BY DEF ListingOf
    <2> QED
      BY <1>1, <1>2, <2>1 DEF WalkInv, KernelPC
  <1>5. CapInv'
    BY DEF SequentialInv, CapInv
  <1> QED
    BY <1>3, <1>4, <1>5, SeqRun DEF TaskInv, Idle

\* The next call, and the end of the process.
LEMMA SeqDummycall ==
    ASSUME SequentialInv, BaseInv', NEW t \in Task,
           (\E call \in Call : dummycall(t, call)) \/ exit(t)
    PROVE  SequentialInv'
  <1>1. arg \in [Task -> Call \cup {NULL}]
    BY DEF SequentialInv, TypeOK
  <1>2. CASE \E call \in Call : dummycall(t, call)
    BY <1>1, <1>2, SeqUser DEF dummycall, graph, cursor, frame, Enter, Goto
  <1>3. CASE exit(t)
    BY <1>3, SeqUser DEF exit, graph, cursor, frame, count, Goto
  <1> QED
    BY <1>2, <1>3

\* Freeing the copy buffer changes nothing a policy depends on.
LEMMA SeqCleanup ==
    ASSUME SequentialInv, BaseInv', NEW t \in Task, sandbox_cleanup(t)
    PROVE  SequentialInv'
  <1>1. UNCHANGED <<pool, nodes, current_progstate, start_node, i, at, own, pc, arg, inits>>
    BY DEF sandbox_cleanup, graph, cursor, frame, count
  <1> QED
    BY <1>1 DEF SequentialInv, BaseInv, ScanInv, WalkInv, ListingOf

\* Where the cursor stands for a program that gave its policy.
LEMMA SeqCursor ==
    ASSUME SequentialInv, NEW t \in Task, pc[t] \in {"user", "check", "advance"}, own[t] # {}
    PROVE  /\ t \in Full /\ pool \in Block /\ pool = Image(Policy[t]) /\ pool.cells = Image(Policy[t]).cells
           /\ pool.num_nodes = Len(Policy[t]) /\ Fits(Policy[t]) /\ Len(Policy[t]) \in Nat
           /\ current_progstate \in 0..(Len(Policy[t]) - 1) /\ own[t] = {current_progstate}
           /\ start_node = Start(Policy[t])[current_progstate]
           /\ start_node \in Nat /\ start_node \notin {NULL, WILD}
           /\ ListingOf(t, Len(Policy[t]))
  <1>1. WalkInv(t) /\ current_progstate \in Nat
    BY DEF SequentialInv, TypeOK
  <1>2. /\ t \in Full /\ pool = Image(Policy[t]) /\ own[t] = {current_progstate}
        /\ current_progstate < Len(Policy[t]) /\ ListingOf(t, Len(Policy[t]))
        /\ start_node = Start(Policy[t])[current_progstate]
    BY <1>1 DEF WalkInv
  <1>3. Fits(Policy[t]) /\ Policy[t] \in PolicyType /\ Len(Policy[t]) \in Nat
    BY Policies, PolicyEdges
  <1>4. pool \in Block /\ pool.num_nodes = Len(Policy[t])
    BY <1>2, <1>3, ImageType
  <1>5. current_progstate \in 0..(Len(Policy[t]) - 1) /\ current_progstate \in 0..Len(Policy[t])
    BY <1>1, <1>2, <1>3
  <1>6. start_node \in Nat
    BY <1>2, <1>3, <1>5, StartGrows
  <1>7. start_node \notin {NULL, WILD}
    BY <1>6, PoolAssumption
  <1> QED
    BY <1>2, <1>3, <1>4, <1>5, <1>6, <1>7

\* Under Sequential the answer of is_state_transition_valid is the one state the
\* policy leads to, or 0 when the policy does not allow the call.
LEMMA SeqAnswer ==
    ASSUME Sequential, SequentialInv, NEW t \in Task, pc[t] \in {"user", "check", "advance"},
           own[t] # {}, NEW call
    PROVE  LET x == StateTransition(pool, start_node, call)
           IN  /\ Monitor!After(Policy[t], own[t], call) = IF x = 0 THEN {} ELSE {x}
               /\ x # 0 => x \in 1..(Len(Policy[t]) - 1)
  <1> DEFINE x == StateTransition(pool, start_node, call)
             s == current_progstate
             A == Monitor!After(Policy[t], own[t], call)
  <1>1. /\ t \in Full /\ pool \in Block /\ pool.cells = Image(Policy[t]).cells /\ Fits(Policy[t])
        /\ s \in 0..(Len(Policy[t]) - 1) /\ own[t] = {s} /\ start_node = Start(Policy[t])[s]
        /\ Len(Policy[t]) \in Nat
    BY SeqCursor
  <1>2. s < Len(Policy[t]) /\ s + 1 \in 1..Len(Policy[t])
    BY <1>1
  <1>3. \A y : y \in A <=> Leads(Policy[t], s, call, y)
    BY <1>1, <1>2, AfterEdges
  <1>4. /\ x # 0 => Leads(Policy[t], s, call, x)
        /\ x = 0 => \A y : Leads(Policy[t], s, call, y) => Leads(Policy[t], s, call, 0)
    BY <1>1, ImageTransition
  <1>5. \A y : Leads(Policy[t], s, call, y) => y \in 1..(Len(Policy[t]) - 1)
    <2>1. \A r \in 1..Len(Policy[t]) : \A j \in 1..Len(Policy[t][r]) :
             Policy[t][r][j].next_progstate \in 1..(Len(Policy[t]) - 1)
      BY <1>1 DEF Sequential
    <2> HIDE DEF s
    <2> QED
      BY <1>2, <2>1 DEF Leads
  <1>6. ASSUME NEW y, NEW z, Leads(Policy[t], s, call, y), Leads(Policy[t], s, call, z)
        PROVE  y = z
    <2>1. PICK j \in 1..Len(Policy[t][s + 1]) : /\ Policy[t][s + 1][j].libcallid = call
                                               /\ Policy[t][s + 1][j].next_progstate = y
      BY <1>6 DEF Leads
    <2>2. PICK k \in 1..Len(Policy[t][s + 1]) : /\ Policy[t][s + 1][k].libcallid = call
                                               /\ Policy[t][s + 1][k].next_progstate = z
      BY <1>6 DEF Leads
    <2>3. Policy[t][s + 1][j] = Policy[t][s + 1][k]
      <3>1. \A r \in 1..Len(Policy[t]) : \A m, n \in 1..Len(Policy[t][r]) :
               Policy[t][r][m].libcallid = Policy[t][r][n].libcallid => Policy[t][r][m] = Policy[t][r][n]
        BY <1>1 DEF Sequential
      <3>2. Policy[t][s + 1][j].libcallid = Policy[t][s + 1][k].libcallid
        BY <2>1, <2>2
      <3> HIDE DEF s
      <3> QED
        BY <1>2, <3>1, <3>2
    <2> QED
      BY <2>1, <2>2, <2>3
  <1>7. ~ Leads(Policy[t], s, call, 0)
    BY <1>1, <1>5
  <1> HIDE DEF x, s, A
  <1>8. A = IF x = 0 THEN {} ELSE {x}
    BY <1>3, <1>4, <1>6, <1>7
  <1>9. x # 0 => x \in 1..(Len(Policy[t]) - 1)
    BY <1>4, <1>5
  <1> QED
    BY <1>8, <1>9 DEF x, A

\* The check of a call.
LEMMA SeqDummycallCheck ==
    ASSUME SequentialInv, BaseInv', NEW t \in Task, dummycall_check(t)
    PROVE  SequentialInv'
  <1>1. WalkInv(t) /\ pc[t] = "check" /\ UNCHANGED <<pool, nodes, current_progstate, start_node, i, own, inits, arg>>
    BY DEF dummycall_check, graph, cursor, frame, count, SequentialInv
  <1>2. arg[t] \in Call
    BY <1>1 DEF WalkInv
  <1>3. \E l \in {"advance", "killed", "oops"} :
           /\ pc' = [pc EXCEPT ![t] = l]
           /\ l = "advance" => StateTransition(pool, start_node, arg[t]) # 0
    BY DEF dummycall_check, Goto
  <1> QED
    BY <1>1, <1>2, <1>3, SeqUser

\* transition_to_state moves the cursor to the one state the program may be in.
LEMMA SeqDummycallAdvance ==
    ASSUME Sequential, SequentialInv, BaseInv', NEW t \in Task, dummycall_advance(t)
    PROVE  SequentialInv'
  <1>1. /\ ScanInv(t) /\ WalkInv(t) /\ pc[t] = "advance" /\ UNCHANGED <<pool, nodes, i, inits>>
        /\ pc \in [Task -> TaskPC] /\ own \in [Task -> SUBSET Nat]
        /\ nodes # NoListing => Listing(nodes)
    BY DEF dummycall_advance, graph, frame, count, SequentialInv, TypeOK
  <1>2. own' = [own EXCEPT ![t] = Monitor!After(Policy[t], own[t], arg[t])]
    BY DEF dummycall_advance
  <1>3. \A u \in Task \ {t} : i'[u] = i[u] /\ own'[u] = own[u] /\ inits'[u] = inits[u]
    BY <1>1, <1>2
  <1>4. PICK l \in {"user", "gone", "oops"} : pc' = [pc EXCEPT ![t] = l]
    BY DEF dummycall_advance, AfterError, Goto
  <1>5. (pc[t])' = l /\ (own[t])' = Monitor!After(Policy[t], own[t], arg[t])
    BY <1>1, <1>2, <1>4
  <1>6. ScanInv(t)'
    BY <1>1, <1>5 DEF ScanInv
  <1>7. CapInv'
    BY <1>1 DEF SequentialInv, CapInv
  <1>8. WalkInv(t)'
    <2>1. CASE own[t] = {}
      <3>1. Monitor!After(Policy[t], own[t], arg[t]) = {}
        BY <2>1, AfterEdges
      <3> QED
        BY <1>1, <1>5, <3>1 DEF WalkInv, KernelPC
    <2>2. CASE own[t] # {}
      <3> DEFINE x == StateTransition(pool, start_node, arg[t])
      <3>1. x # 0
        BY <1>1, <2>2 DEF WalkInv
      <3>2. Monitor!After(Policy[t], own[t], arg[t]) = {x} /\ x \in 1..(Len(Policy[t]) - 1)
        <4>1. /\ Monitor!After(Policy[t], own[t], arg[t]) = IF x = 0 THEN {} ELSE {x}
              /\ x # 0 => x \in 1..(Len(Policy[t]) - 1)
          BY <1>1, <2>2, SeqAnswer
        <4> QED
          BY <3>1, <4>1
      <3>3. /\ t \in Full /\ pool = Image(Policy[t]) /\ pool.num_nodes = Len(Policy[t])
            /\ Len(Policy[t]) \in Nat /\ current_progstate \in 0..(Len(Policy[t]) - 1)
            /\ start_node \notin {NULL, WILD} /\ ListingOf(t, Len(Policy[t]))
        BY <1>1, <2>2, SeqCursor
      <3>4. ~(current_progstate >= pool.num_nodes)
        BY <3>3
      <3>5. nodes # NoListing /\ nodes.cap = Len(Policy[t])
        BY <3>3 DEF ListingOf
      <3>6. current_progstate' = x /\ start_node' = NodeOf(x)
        BY <3>1, <3>3, <3>4, <3>5 DEF dummycall_advance
      <3> HIDE DEF x
      <3>7. NodeOf(x) = Start(Policy[t])[x] /\ x < Len(Policy[t])
        <4>1. x \in 0..(nodes.cap - 1) /\ x < Len(Policy[t])
          BY <3>2, <3>3, <3>5
        <4> QED
          BY <3>3, <3>5, <4>1 DEF NodeOf, Slot, ListingOf
      <3>8. ListingOf(t, Len(Policy[t]))'
        BY <1>1, <3>3 DEF ListingOf
      <3>9. pool # NULL /\ Len(Policy[t]) # 0 /\ inits[t] # 0
        BY <1>1, <2>2 DEF WalkInv
      <3>10. (own[t])' = {current_progstate'} /\ current_progstate' < Len(Policy[t])
             /\ start_node' = Start(Policy[t])[current_progstate']
        BY <1>5, <3>2, <3>6, <3>7
      <3> QED
        BY <1>1, <1>5, <3>3, <3>8, <3>9, <3>10 DEF WalkInv, KernelPC
    <2> QED
      BY <2>1, <2>2
  <1> QED
    BY <1>1, <1>3, <1>4, <1>6, <1>7, <1>8, SeqRun DEF TaskInv, Idle

\* Every step keeps SequentialInv.
LEMMA SeqStep ==
    ASSUME Sequential, SequentialInv, [Next]_vars
    PROVE  SequentialInv'
  <1>1. TypeOK /\ SerialInv /\ AloneInv
    BY DEF SequentialInv
  <1>2. TypeOK' /\ SerialInv'
    BY <1>1, TypeStep, SerialStep DEF Sequential
  <1>3. AloneInv'
    BY <1>1, AloneStep DEF Sequential
  <1>4. BaseInv'
    BY <1>2, <1>3 DEF BaseInv
  <1>5. CASE UNCHANGED vars
    BY <1>4, <1>5 DEF vars, graph, cursor, frame, memory, count, BaseInv,
       SequentialInv, ScanInv, WalkInv, ListingOf
  <1>6. CASE Next
    BY <1>4, <1>6, SeqExec, SeqInitBuffer, SeqInitLoad, SeqVerifyList,
       SeqVerifyLoop, SeqInitReset, SeqDummycall, SeqDummycallCheck, SeqDummycallAdvance,
       SeqCleanup DEF Next, InKernel
  <1> QED
    BY <1>5, <1>6

\* SequentialInv holds before the first program starts.
LEMMA SeqInit ==
    ASSUME Init
    PROVE  SequentialInv
  <1>1. TypeOK /\ SerialInv /\ AloneInv
    BY TypeInit, SerialInit, AloneInit
  <1>2. /\ nodes = NoListing
        /\ \A t \in Task : pc[t] = "new" /\ i[t] = 0 /\ own[t] = {} /\ inits[t] = 0
    BY DEF Init
  <1> QED
    BY <1>1, <1>2 DEF SequentialInv, ScanInv, WalkInv

\* Under Sequential the whole state of the kernel belongs to the program that runs,
\* in every reachable state.
THEOREM SequentialInductive == ASSUME Sequential PROVE Spec => []SequentialInv
  <1>1. Init => SequentialInv
    BY SeqInit
  <1>2. SequentialInv /\ [Next]_vars => SequentialInv'
    BY SeqStep
  <1> QED
    BY <1>1, <1>2, PTL DEF Spec

\* While a program that gave its policy runs, the pool holds that policy and the
\* cursor is at the node of a state the program may be in.
THEOREM CursorCorrect == ASSUME Sequential PROVE Spec => []CursorOnOwnState
  <1>1. SequentialInv => CursorOnOwnState
    BY DEF SequentialInv, WalkInv, CursorOnOwnState
  <1> QED
    BY <1>1, SequentialInductive, PTL

-----------------------------------------------------------------------------
(* The refinement. *)

\* What the monitor sees of the tasks.
Status == [t \in Task |-> StatusAt(pc[t], own[t], inits[t])]

\* What it sees of a task whose first sandbox_init has returned.
Seen(S) == IF S = {} THEN "unguarded" ELSE "running"

\* StatusAt, label by label.
LEMMA StatusEnded ==
    ASSUME NEW S, NEW n
    PROVE  /\ StatusAt("killed", S, n) = "killed"
           /\ StatusAt("oops", S, n) = "killed"
           /\ StatusAt("gone", S, n) = "gone"
  BY DEF StatusAt

LEMMA StatusNew ==
    ASSUME NEW S, NEW n, NEW l, l \notin {"killed", "oops", "gone"},
           n = 0 \/ (n = 1 /\ l \notin {"user", "check", "advance"})
    PROVE  StatusAt(l, S, n) = "new"
  BY DEF StatusAt

LEMMA StatusSeen ==
    ASSUME NEW S, NEW n, NEW l, l \notin {"killed", "oops", "gone"}, n # 0,
           n # 1 \/ l \in {"user", "check", "advance"}
    PROVE  StatusAt(l, S, n) = Seen(S)
  BY DEF StatusAt, Seen

\* A step of t changes the status of t only.
LEMMA StatusStep ==
    ASSUME NEW t \in Task,
           \A u \in Task \ {t} : pc'[u] = pc[u] /\ own'[u] = own[u] /\ inits'[u] = inits[u]
    PROVE  Status' = [Status EXCEPT ![t] = StatusAt(pc'[t], own'[t], inits'[t])]
  <1>1. \A u \in Task : StatusAt(pc'[u], own'[u], inits'[u]) =
                          IF u = t THEN StatusAt(pc'[t], own'[t], inits'[t])
                                   ELSE StatusAt(pc[u], own[u], inits[u])
    OBVIOUS
  <1>2. Status' = [u \in Task |-> StatusAt(pc'[u], own'[u], inits'[u])]
    BY DEF Status
  <1> QED
    BY <1>1, <1>2 DEF Status

\* The same when only the label of the task changes.
LEMMA StatusStay ==
    ASSUME TypeOK, NEW t \in Task, NEW l, pc' = [pc EXCEPT ![t] = l], own' = own, inits' = inits
    PROVE  /\ Status' = [Status EXCEPT ![t] = StatusAt(l, own[t], inits[t])]
           /\ Status[t] = StatusAt(pc[t], own[t], inits[t])
           /\ Status = [Status EXCEPT ![t] = Status[t]]
  <1>1. /\ pc'[t] = l /\ own'[t] = own[t] /\ inits'[t] = inits[t]
        /\ \A u \in Task \ {t} : pc'[u] = pc[u] /\ own'[u] = own[u] /\ inits'[u] = inits[u]
    BY DEF TypeOK
  <1>2. Status' = [Status EXCEPT ![t] = StatusAt(l, own[t], inits[t])]
    BY <1>1, StatusStep
  <1> QED
    BY <1>2 DEF Status

\* The monitor's actions, in terms of the status of the tasks.
LEMMA MonitorSteps ==
    ASSUME NEW t \in Task
    PROVE  /\ \A o \in {"running", "unguarded", "killed"} :
                 /\ Status[t] = "new" \/ (o = "running" /\ Status[t] \in {"unguarded", "running"})
                 /\ Status' = [Status EXCEPT ![t] = o]
                 /\ own' = [own EXCEPT ![t] = IF o = "running" THEN {0} ELSE {}]
                 => Monitor!MNext
           /\ \A call \in Call :
                 /\ Status[t] = "running" /\ Monitor!After(Policy[t], own[t], call) # {}
                 /\ own' = [own EXCEPT ![t] = Monitor!After(Policy[t], own[t], call)]
                 /\ Status' = Status
                 => Monitor!MNext
           /\ \A call \in Call :
                 /\ Status[t] = "running" /\ Monitor!After(Policy[t], own[t], call) = {}
                 /\ Status' = [Status EXCEPT ![t] = "killed"] /\ own' = own
                 => Monitor!MNext
           /\ /\ Status[t] = "running" /\ Status' = [Status EXCEPT ![t] = "gone"] /\ own' = own
              => Monitor!MNext
           /\ \A o \in {"gone", "killed"} :
                 /\ Status[t] = "unguarded" /\ Status' = [Status EXCEPT ![t] = o] /\ own' = own
                 => Monitor!MNext
  BY DEF Status, Monitor!MNext, Monitor!Start, Monitor!Accept, Monitor!Kill, Monitor!Leave

\* A program starts or calls sandbox_init again: the monitor sees nothing yet.
LEMMA RefinesExec ==
    ASSUME SequentialInv, NEW t \in Task, exec(t)
    PROVE  Status' = Status /\ own' = own
  <1>1. /\ TypeOK /\ WalkInv(t) /\ pc[t] \in {"new", "user"} /\ pc' = [pc EXCEPT ![t] = "init"]
        /\ own' = own /\ inits' = [inits EXCEPT ![t] = inits[t] + 1]
    BY DEF SequentialInv, exec, Enter, Goto
  <1>2. /\ pc'[t] = "init" /\ own'[t] = own[t] /\ inits'[t] = inits[t] + 1 /\ inits[t] \in Nat
        /\ \A u \in Task \ {t} : pc'[u] = pc[u] /\ own'[u] = own[u] /\ inits'[u] = inits[u]
    BY <1>1 DEF TypeOK
  <1>3. Status' = [Status EXCEPT ![t] = StatusAt("init", own[t], inits[t] + 1)]
    BY <1>2, StatusStep
  <1>4. StatusAt("init", own[t], inits[t] + 1) = StatusAt(pc[t], own[t], inits[t])
    <2>1. CASE inits[t] = 0
      <3>1. inits[t] + 1 = 1 /\ pc[t] = "new"
        BY <1>1, <2>1 DEF WalkInv
      <3>2. StatusAt("init", own[t], 1) = "new" /\ StatusAt("new", own[t], 0) = "new"
        BY StatusEnded, StatusNew, StatusSeen DEF TaskPC, KernelPC
      <3> QED
        BY <2>1, <3>1, <3>2
    <2>2. CASE inits[t] # 0
      <3> DEFINE n == inits[t] + 1
      <3>1. n \notin {0, 1} /\ pc[t] = "user"
        BY <1>1, <1>2, <2>2 DEF WalkInv
      <3>2. StatusAt("user", own[t], inits[t]) = Seen(own[t])
        BY <2>2, StatusEnded, StatusNew, StatusSeen DEF TaskPC
      <3>3. StatusAt("init", own[t], n) = Seen(own[t])
        <4> HIDE DEF n
        <4> QED
          BY <3>1, StatusEnded, StatusNew, StatusSeen DEF TaskPC, KernelPC
      <3> QED
        BY <3>1, <3>2, <3>3
    <2> QED
      BY <2>1, <2>2
  <1>5. Status' = Status
    BY <1>3, <1>4 DEF Status
  <1> QED
    BY <1>1, <1>5

\* A task inside sandbox_init that stays there, dies, or returns as it was.
LEMMA RefinesInit ==
    ASSUME SequentialInv, NEW t \in Task,
           pc[t] \in KernelPC \ {"check", "advance"},
           NEW l \in TaskPC \ {"advance", "check", "killed", "gone"},
           pc' = [pc EXCEPT ![t] = l], own' = own, inits' = inits,
           own[t] # {} => l # "oops"
    PROVE  Monitor!MNext \/ (Status' = Status /\ own' = own)
  <1>1. TypeOK /\ WalkInv(t) /\ own \in [Task -> SUBSET Nat] /\ pc[t] \in TaskPC
    BY DEF SequentialInv, TypeOK
  <1>2. /\ Status' = [Status EXCEPT ![t] = StatusAt(l, own[t], inits[t])]
        /\ Status[t] = StatusAt(pc[t], own[t], inits[t]) /\ Status = [Status EXCEPT ![t] = Status[t]]
    BY <1>1, StatusStay
  <1>3. inits[t] # 0 /\ (inits[t] = 1 => own[t] = {})
    BY <1>1 DEF WalkInv, KernelPC
  <1>4. pc[t] \in TaskPC \ {"user", "check", "advance", "killed", "oops", "gone"}
    BY DEF KernelPC, TaskPC
  <1>5. CASE inits[t] = 1
    <2>1. own[t] = {} /\ own' = [own EXCEPT ![t] = {}] /\ Status[t] = "new"
      BY <1>1, <1>2, <1>3, <1>4, <1>5, StatusEnded, StatusNew, StatusSeen
    <2>2. CASE l = "user"
      <3>1. StatusAt(l, own[t], inits[t]) = "unguarded"
        BY <1>5, <2>1, <2>2, StatusEnded, StatusNew, StatusSeen DEF Seen
      <3> QED
        BY <1>2, <2>1, <3>1, MonitorSteps
    <2>3. CASE l = "oops"
      <3>1. StatusAt(l, own[t], inits[t]) = "killed"
        BY <2>3, StatusEnded, StatusNew, StatusSeen
      <3> QED
        BY <1>2, <2>1, <3>1, MonitorSteps
    <2>4. CASE l \notin {"user", "oops"}
      <3>1. StatusAt(l, own[t], inits[t]) = "new"
        BY <1>5, <2>4, StatusEnded, StatusNew, StatusSeen
      <3> QED
        BY <1>2, <2>1, <3>1
    <2> QED
      BY <2>2, <2>3, <2>4
  <1>6. CASE inits[t] # 1
    <2>1. Status[t] = Seen(own[t])
      BY <1>2, <1>3, <1>4, <1>6, StatusEnded, StatusNew, StatusSeen
    <2>2. CASE l = "oops"
      <3>1. StatusAt(l, own[t], inits[t]) = "killed" /\ Status[t] = "unguarded"
        BY <2>1, <2>2, StatusEnded, StatusNew, StatusSeen DEF Seen
      <3> QED
        BY <1>2, <3>1, MonitorSteps
    <2>3. CASE l # "oops"
      <3>1. StatusAt(l, own[t], inits[t]) = Seen(own[t])
        BY <1>3, <1>6, <2>3, StatusEnded, StatusNew, StatusSeen
      <3> QED
        BY <1>2, <2>1, <3>1
    <2> QED
      BY <2>2, <2>3
  <1> QED
    BY <1>5, <1>6

\* sandbox_init up to reset_progstate.
LEMMA RefinesLoading ==
    ASSUME SequentialInv, NEW t \in Task,
           \/ init_free(t) \/ init_alloc(t) \/ init_copy(t) \/ copy_from_user(t) \/ init_dump(t)
           \/ init_call(t) \/ init_memset(t) \/ init_memcpy(t)
           \/ verify_entry(t) \/ verify_list(t) \/ verify_loop(t)
    PROVE  Monitor!MNext \/ (Status' = Status /\ own' = own)
  <1>1. /\ pc[t] \in KernelPC \ {"check", "advance"}
        /\ own' = own /\ inits' = inits /\ pc \in [Task -> TaskPC]
    BY DEF SequentialInv, TypeOK, KernelPC, init_free, init_alloc, init_copy, copy_from_user,
           init_dump, init_call, init_memset, init_memcpy, verify_entry, verify_list,
           verify_loop, count
  <1>2. LoadInv(t) /\ ScanInv(t) /\ WalkInv(t) /\ pc = [pc EXCEPT ![t] = pc[t]]
    BY <1>1 DEF SequentialInv, SerialInv
  <1>3. \E l \in TaskPC \ {"advance", "check", "killed", "gone"} :
           pc' = [pc EXCEPT ![t] = l] /\ (own[t] # {} => l # "oops")
    <2>1. CASE init_free(t) \/ init_alloc(t)
      BY <2>1 DEF init_free, init_alloc, Goto, TaskPC, KernelPC
    <2>2. CASE init_copy(t) \/ init_dump(t)
      <3>1. kernel_buffer # NULL
        BY <1>2, <2>2 DEF init_copy, init_dump, LoadInv
      <3> QED
        BY <2>2, <3>1 DEF init_copy, init_dump, Goto, TaskPC, KernelPC
    <2>3. CASE copy_from_user(t)
      <3>1. pc' = pc \/ \E l \in {"dump", "user"} : pc' = [pc EXCEPT ![t] = l]
        BY <2>3 DEF copy_from_user, AfterFailedCopy, GoesOn, Goto
      <3>2. pc[t] = "fill"
        BY <2>3 DEF copy_from_user
      <3> QED
        BY <1>2, <3>1, <3>2 DEF TaskPC, KernelPC
    <2>4. CASE init_call(t)
      <3>1. own[t] # {} => pool # NULL
        BY <1>2 DEF WalkInv
      <3> QED
        BY <2>4, <3>1 DEF init_call, Goto, TaskPC, KernelPC
    <2>5. CASE init_memset(t)
      <3>1. pc[t] = "memset" /\ (pc' = pc \/ pc' = [pc EXCEPT ![t] = "memcpy"])
        BY <2>5 DEF init_memset, GoesOn, Goto
      <3> QED
        BY <1>2, <3>1 DEF TaskPC, KernelPC
    <2>6. CASE init_memcpy(t)
      <3>1. pc[t] = "memcpy" /\ (pc' = pc \/ \E l \in {"reset", "entry"} : pc' = [pc EXCEPT ![t] = l])
        BY <2>6 DEF init_memcpy, GoesOn, Goto
      <3> QED
        BY <1>2, <3>1 DEF TaskPC, KernelPC
    <2>7. CASE verify_entry(t) \/ verify_list(t)
      BY <2>7 DEF verify_entry, verify_list, VerifyReturns, Goto, TaskPC, KernelPC
    <2>8. CASE verify_loop(t)
      <3>1. pc[t] = "loop" /\ nodes # NoListing
        BY <1>2, <2>8 DEF verify_loop, ScanInv, ListingOf
      <3>2. pc' = pc \/ pc' = [pc EXCEPT ![t] = "reset"]
        BY <2>8, <3>1 DEF verify_loop, VerifyReturns, Goto
      <3> QED
        BY <1>2, <3>1, <3>2 DEF TaskPC, KernelPC
    <2> QED
      BY <2>1, <2>2, <2>3, <2>4, <2>5, <2>6, <2>7, <2>8
  <1> QED
    BY <1>1, <1>3, RefinesInit

\* The end of sandbox_init: the program runs under its policy, if it gave one.
LEMMA RefinesReset ==
    ASSUME SequentialInv, NEW t \in Task, init_reset(t)
    PROVE  Monitor!MNext \/ (Status' = Status /\ own' = own)
  <1>1. TypeOK /\ pc[t] = "reset" /\ inits' = inits /\ ScanInv(t) /\ WalkInv(t)
    BY DEF SequentialInv, init_reset, count
  <1>2. CASE nodes = NoListing \/ nodes.cap = 0
    <2>1. pc' = [pc EXCEPT ![t] = "oops"] /\ own' = own
      BY <1>2 DEF init_reset, Goto
    <2>2. own[t] = {}
      BY <1>1, <1>2 DEF ScanInv, WalkInv, ListingOf
    <2> QED
      BY <1>1, <2>1, <2>2, RefinesInit DEF TaskPC, KernelPC
  <1>3. CASE ~(nodes = NoListing \/ nodes.cap = 0)
    <2> DEFINE S == IF t \in Full THEN {0} ELSE {}
    <2>1. pc' = [pc EXCEPT ![t] = "user"] /\ own' = [own EXCEPT ![t] = S]
      BY <1>3 DEF init_reset, Goto
    <2>2. inits' = [inits EXCEPT ![t] = inits[t]] /\ inits[t] # 0
      BY <1>1 DEF TypeOK, WalkInv
    <2>3. Status' = [Status EXCEPT ![t] = StatusAt("user", S, inits[t])]
      <3> HIDE DEF S
      <3>1. /\ pc'[t] = "user" /\ own'[t] = S /\ inits'[t] = inits[t]
            /\ \A u \in Task \ {t} : pc'[u] = pc[u] /\ own'[u] = own[u] /\ inits'[u] = inits[u]
        BY <1>1, <2>1 DEF TypeOK
      <3> QED
        BY <3>1, StatusStep
    <2>4. StatusAt("user", S, inits[t]) = Seen(S)
      <3> HIDE DEF S
      <3> QED
        BY <2>2, StatusEnded, StatusNew, StatusSeen DEF TaskPC
    <2>5. Status[t] = IF inits[t] = 1 THEN "new" ELSE Seen(own[t])
      BY <1>1, <2>2, StatusEnded, StatusNew, StatusSeen DEF Status, TaskPC, KernelPC
    <2>6. CASE t \in Full
      <3>1. S = {0} /\ Seen({0}) = "running" /\ Status[t] \in {"new", "unguarded", "running"}
        BY <2>5, <2>6 DEF Seen
      <3> QED
        BY <2>1, <2>3, <2>4, <3>1, MonitorSteps
    <2>7. CASE t \notin Full
      <3>1. S = {} /\ Seen({}) = "unguarded" /\ own[t] = {}
        BY <1>1, <2>7 DEF Seen, WalkInv
      <3>2. CASE inits[t] = 1
        BY <2>1, <2>3, <2>4, <2>5, <3>1, <3>2, MonitorSteps
      <3>3. CASE inits[t] # 1
        <4>1. own' = own
          BY <1>1, <2>1, <3>1 DEF TypeOK
        <4>2. Status' = [Status EXCEPT ![t] = Status[t]]
          BY <2>3, <2>4, <2>5, <3>1, <3>3
        <4>3. Status' = Status
          BY <4>2 DEF Status
        <4> QED
          BY <4>1, <4>3
      <3> QED
        BY <3>2, <3>3
    <2> QED
      BY <2>6, <2>7
  <1> QED
    BY <1>2, <1>3

\* A step of a program outside sandbox_init, from label l to label m.
LEMMA StatusOutside ==
    ASSUME SequentialInv, NEW t \in Task, pc[t] \in {"user", "check", "advance"},
           NEW m, pc' = [pc EXCEPT ![t] = m], own' = own, inits' = inits
    PROVE  /\ Status[t] = IF own[t] = {} THEN "unguarded" ELSE "running"
           /\ m \in {"user", "check", "advance"} => Status' = Status
           /\ m \in {"killed", "oops"} => Status' = [Status EXCEPT ![t] = "killed"]
           /\ m = "gone" => Status' = [Status EXCEPT ![t] = "gone"]
  <1>0. TypeOK /\ inits[t] # 0
    BY DEF SequentialInv, WalkInv
  <1>1. /\ Status' = [Status EXCEPT ![t] = StatusAt(m, own[t], inits[t])]
        /\ Status[t] = StatusAt(pc[t], own[t], inits[t]) /\ Status = [Status EXCEPT ![t] = Status[t]]
    BY <1>0, StatusStay
  <1>2. \A l \in {"user", "check", "advance"} : StatusAt(l, own[t], inits[t]) = Seen(own[t])
    BY <1>0, StatusEnded, StatusNew, StatusSeen DEF TaskPC, KernelPC
  <1>3. Status[t] = Seen(own[t])
    BY <1>1, <1>2
  <1>4. ASSUME m \in {"user", "check", "advance"} PROVE Status' = Status
    <2>1. StatusAt(m, own[t], inits[t]) = Status[t]
      BY <1>2, <1>3, <1>4
    <2> QED
      BY <1>1, <2>1
  <1>5. m \in {"killed", "oops"} => Status' = [Status EXCEPT ![t] = "killed"]
    <2>1. m \in {"killed", "oops"} => StatusAt(m, own[t], inits[t]) = "killed"
      BY StatusEnded
    <2> QED
      BY <1>1, <2>1
  <1>6. m = "gone" => Status' = [Status EXCEPT ![t] = "gone"]
    <2>1. m = "gone" => StatusAt(m, own[t], inits[t]) = "gone"
      BY StatusEnded
    <2> QED
      BY <1>1, <2>1
  <1> QED
    BY <1>3, <1>4, <1>5, <1>6 DEF Seen

\* The call, sandbox_cleanup and the end of the process.
LEMMA RefinesUser ==
    ASSUME SequentialInv, NEW t \in Task,
           (\E call \in Call : dummycall(t, call)) \/ sandbox_cleanup(t) \/ exit(t)
    PROVE  Monitor!MNext \/ (Status' = Status /\ own' = own)
  <1>1. TypeOK /\ pc[t] = "user" /\ inits' = inits
    BY DEF SequentialInv, dummycall, sandbox_cleanup, exit, count
  <1>2. CASE \E call \in Call : dummycall(t, call)
    <2>1. pc' = [pc EXCEPT ![t] = "check"] /\ own' = own
      BY <1>2 DEF dummycall, Enter, Goto
    <2> QED
      BY <1>1, <2>1, StatusOutside
  <1>3. CASE sandbox_cleanup(t)
    BY <1>1, <1>3 DEF sandbox_cleanup, Status
  <1>4. CASE exit(t)
    <2>1. pc' = [pc EXCEPT ![t] = "gone"] /\ own' = own
      BY <1>4 DEF exit, Goto
    <2>2. Status' = [Status EXCEPT ![t] = "gone"] /\ Status[t] \in {"unguarded", "running"}
      BY <1>1, <2>1, StatusOutside
    <2> QED
      BY <2>1, <2>2, MonitorSteps
  <1> QED
    BY <1>2, <1>3, <1>4

\* A program that gave its policy is killed for a call the policy does not allow,
\* and for nothing else.
LEMMA RefinesCheck ==
    ASSUME Sequential, SequentialInv, NEW t \in Task, dummycall_check(t)
    PROVE  Monitor!MNext \/ (Status' = Status /\ own' = own)
  <1>1. TypeOK /\ pc[t] = "check" /\ own' = own /\ inits' = inits /\ arg[t] \in Call
    BY DEF SequentialInv, dummycall_check, WalkInv, count
  <1>2. PICK m \in {"advance", "killed", "oops"} : pc' = [pc EXCEPT ![t] = m]
    BY DEF dummycall_check, Goto
  <1>3. /\ Status[t] = IF own[t] = {} THEN "unguarded" ELSE "running"
        /\ m = "advance" => Status' = Status
        /\ m \in {"killed", "oops"} => Status' = [Status EXCEPT ![t] = "killed"]
    BY <1>1, <1>2, StatusOutside
  <1>4. CASE m = "advance"
    BY <1>1, <1>3, <1>4
  <1>5. CASE m # "advance" /\ own[t] = {}
    <2>1. Status[t] = "unguarded" /\ Status' = [Status EXCEPT ![t] = "killed"]
      BY <1>3, <1>5
    <2> QED
      BY <1>1, <2>1, MonitorSteps
  <1>6. CASE m # "advance" /\ own[t] # {}
    <2>1. Status[t] = "running" /\ Status' = [Status EXCEPT ![t] = "killed"]
      BY <1>3, <1>6
    <2>2. (pc[t])' = m
      BY <1>1, <1>2 DEF TypeOK
    <2>3. StateTransition(pool, start_node, arg[t]) = 0
      <3>1. start_node \notin {NULL, WILD}
        BY <1>1, <1>6, SeqCursor
      <3>2. StateTransition(pool, start_node, arg[t]) # 0 => pc' = [pc EXCEPT ![t] = "advance"]
        BY <3>1 DEF dummycall_check, Goto
      <3> QED
        BY <1>1, <1>6, <2>2, <3>2 DEF TypeOK
    <2>4. Monitor!After(Policy[t], own[t], arg[t]) = {}
      BY <1>1, <1>6, <2>3, SeqAnswer
    <2> QED
      BY <1>1, <2>1, <2>4, MonitorSteps
  <1> QED
    BY <1>4, <1>5, <1>6

\* A call that was accepted takes the program to the states its policy allows.
LEMMA RefinesAdvance ==
    ASSUME Sequential, SequentialInv, SequentialInv', NEW t \in Task, dummycall_advance(t)
    PROVE  Monitor!MNext \/ (Status' = Status /\ own' = own)
  <1> DEFINE A == Monitor!After(Policy[t], own[t], arg[t])
  <1>1. /\ TypeOK /\ pc[t] = "advance" /\ own' = [own EXCEPT ![t] = A] /\ WalkInv(t) /\ arg[t] \in Call
        /\ inits' = inits
    BY DEF SequentialInv, dummycall_advance, WalkInv, count
  <1>2. CASE own[t] = {}
    <2>1. own' = own
      <3>1. A = {}
        BY <1>2, AfterEdges
      <3> HIDE DEF A
      <3> QED
        BY <1>1, <1>2, <3>1 DEF TypeOK
    <2>2. PICK m \in {"user", "gone", "oops"} : pc' = [pc EXCEPT ![t] = m]
      BY DEF dummycall_advance, AfterError, Goto
    <2>3. /\ Status[t] = "unguarded"
          /\ m = "user" => Status' = Status
          /\ m = "oops" => Status' = [Status EXCEPT ![t] = "killed"]
          /\ m = "gone" => Status' = [Status EXCEPT ![t] = "gone"]
      BY <1>1, <1>2, <2>1, <2>2, StatusOutside
    <2> QED
      BY <2>1, <2>2, <2>3, MonitorSteps
  <1>3. CASE own[t] # {}
    <2>1. StateTransition(pool, start_node, arg[t]) # 0
      BY <1>1, <1>3 DEF WalkInv
    <2>2. A # {}
      BY <1>1, <1>3, <2>1, SeqAnswer
    <2>3. /\ ~(current_progstate >= pool.num_nodes) /\ start_node \notin {NULL, WILD}
          /\ nodes # NoListing
      <3>1. /\ pool.num_nodes = Len(Policy[t]) /\ Len(Policy[t]) \in Nat
            /\ current_progstate \in 0..(Len(Policy[t]) - 1)
            /\ start_node \notin {NULL, WILD} /\ ListingOf(t, Len(Policy[t]))
        BY <1>1, <1>3, SeqCursor
      <3> QED
        BY <3>1 DEF ListingOf
    <2>4. pc' = [pc EXCEPT ![t] = "user"]
      BY <2>1, <2>3 DEF dummycall_advance, Goto
    <2> HIDE DEF A
    <2>5. inits' = [inits EXCEPT ![t] = inits[t]] /\ inits[t] # 0
      BY <1>1 DEF TypeOK, WalkInv
    <2>6. Status' = [Status EXCEPT ![t] = StatusAt("user", A, inits[t])]
      <3>1. /\ pc'[t] = "user" /\ own'[t] = A /\ inits'[t] = inits[t]
            /\ \A u \in Task \ {t} : pc'[u] = pc[u] /\ own'[u] = own[u] /\ inits'[u] = inits[u]
        BY <1>1, <2>4 DEF TypeOK
      <3> QED
        BY <3>1, StatusStep
    <2>7. StatusAt("user", A, inits[t]) = "running" /\ Status[t] = "running"
      BY <1>1, <1>3, <2>2, <2>5, StatusEnded, StatusNew, StatusSeen DEF Status, Seen, TaskPC, KernelPC
    <2>8. Status' = Status
      BY <2>6, <2>7 DEF Status
    <2> QED
      BY <1>1, <2>2, <2>7, <2>8, MonitorSteps DEF A
  <1> QED
    BY <1>2, <1>3

\* Every step of the system calls is a step of the monitor or invisible to it.
LEMMA RefinesStep ==
    ASSUME Sequential, SequentialInv, [Next]_vars
    PROVE  Monitor!MNext \/ (Status' = Status /\ own' = own)
  <1>1. SequentialInv'
    BY SeqStep
  <1>2. CASE UNCHANGED vars
    BY <1>2 DEF vars, count, Status
  <1>3. CASE Next
    BY <1>1, <1>3, RefinesExec, RefinesLoading, RefinesReset, RefinesUser, RefinesCheck, RefinesAdvance
       DEF Next, InKernel
  <1> QED
    BY <1>2, <1>3

\* One program at a time, policies of one size with deterministic labels and no
\* edge back to state 0: the system calls implement the per-process monitor,
\* whatever failed before, for any number of programs and any policies that fit.
THEOREM RefinesMonitor == ASSUME Sequential PROVE Spec => ImplementsMonitor
  <1>1. Init => Monitor!MInit
    BY StatusEnded, StatusNew, StatusSeen DEF Init, Monitor!MInit, TaskPC, KernelPC
  <1>2. SequentialInv /\ [Next]_vars => [Monitor!MNext]_(Monitor!mvars)
    BY RefinesStep DEF Monitor!mvars, Status
  <1> QED
    BY <1>1, <1>2, SequentialInductive, PTL DEF Spec, ImplementsMonitor, Monitor!MSpec

=============================================================================
