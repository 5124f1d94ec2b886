----------------------------- MODULE Instrument -----------------------------
(***************************************************************************)
(* What the tool chain does to a program, and what the program then does.  *)
(* LibcListGen lists the functions of the C library; the pass reads the    *)
(* list, records the calls of every basic block for the graph, injects a   *)
(* sandbox_dummycall before each listed call, a sandbox_init at the start  *)
(* and a sandbox_cleanup near the end of main; the program runs.           *)
(***************************************************************************)
EXTENDS Integers, Sequences, SequencesExt

CONSTANTS
    Symbols,      \* the symbol table of the library; entry 0, which is reserved, left out
    OldTables,    \* of the libraries the output file may be the listing of before
    Modules,      \* the programs: function -> its blocks in the order of layout
    MainLike,     \* names that begin with "main"
    Skipped,      \* names that begin with "syscall" or "llvm."
    Pointees,     \* the functions a call through a pointer may reach
    MaxDepth,     \* bound: nested calls of the running program
    NULL

Symbol == [name : STRING, func : BOOLEAN]

\* A block: its instructions, ending in a return, a branch or unreachable, and
\* the blocks the branch may lead to, never the entry block.  An indirect call is
\* one through a pointer, for which getCalledFunction is null.
Instruction == [op : {"call"}, arg : STRING] \cup [op : {"indirect", "other", "ret"}, arg : {0}]

Block(B, blocks) ==
    /\ B.code \in Seq(Instruction) /\ B.code # <<>>
    /\ \A k \in 1..Len(B.code) : B.code[k].op = "ret" => B.succ = {} /\ k = Len(B.code)
    /\ B.succ \subseteq 2..Len(blocks) /\ B.code[Len(B.code)].op \notin {"call", "indirect"}

ASSUME InstrumentAssumption ==
    /\ MaxDepth \in Nat
    /\ \A T \in {Symbols} \cup OldTables : T \in Seq(Symbol)
    /\ "main" \in MainLike /\ MainLike \cap Skipped = {}
    /\ \A m \in Modules : /\ "main" \in DOMAIN m
                          /\ \A f \in DOMAIN m : /\ Len(m[f]) \in Nat \ {0}
                                                 /\ \A b \in 1..Len(m[f]) : Block(m[f][b], m[f])

VARIABLES
    listing,            \* the file of LibcListGen: index -> name, line by line, or NULL
    stringMap, loaded,  \* fileToMapReader
    code,               \* the module as it was compiled
    inserted,           \* the system calls the pass places before each instruction
    bbToLibcMap,        \* the calls recorded for the graph, by their place
    waiting,            \* functions runOnModule has still to visit
    phase,              \* "dump", "read", "inject", "init", "cleanup", "run", "over"
    stack,              \* of the running program, innermost frame last
    announced,          \* calls announced by sandbox_dummycall and not made yet
    inited, cleaned     \* whether sandbox_init, sandbox_cleanup was called

reader  == <<stringMap, loaded>>
pass    == <<inserted, bbToLibcMap, waiting>>
process == <<stack, announced, inited, cleaned>>
vars    == <<listing, reader, code, pass, phase, process>>

\* One line per function of the symbol table, in the order of the table: its
\* index and its name.
Lines(T) == [i \in {i \in 1..Len(T) : T[i].func} |-> T[i].name]

\* A file of which only the symbols up to n were written.
Cut(lines, n) == [i \in {i \in DOMAIN lines : i <= n} |-> lines[i]]

Listings(T) == {Cut(Lines(T), n) : n \in 0..Len(T)}

Init ==
    /\ listing \in {NULL} \cup UNION {Listings(T) : T \in OldTables}
    /\ stringMap = <<>> /\ loaded = FALSE
    /\ code \in Modules
    /\ inserted = [f \in DOMAIN code |->
                    [b \in 1..Len(code[f]) |-> [k \in 1..Len(code[f][b].code) |-> <<>>]]]
    /\ bbToLibcMap = [f \in DOMAIN code |-> [b \in 1..Len(code[f]) |-> <<>>]]
    /\ waiting = DOMAIN code \ Skipped
    /\ phase = "dump"
    /\ stack = <<>> /\ announced = <<>> /\ inited = FALSE /\ cleaned = FALSE

-----------------------------------------------------------------------------
(* LibcListGen and FileToMapReader. *)

\* Every failure before the output is opened leaves the file as it was; output
\* is flushed line by line and not checked; the exit code is 0 in any case.
extractFunctionNames ==
    /\ phase = "dump"
    /\ listing' \in {listing} \cup Listings(Symbols)
    /\ phase' = "read"
    /\ UNCHANGED <<reader, code, pass, process>>

\* Mutant: the last digit of the index is cut off with the colon.
ValueOf_short(i) == i \div 10

\* std::stoi of the index before the colon, which was printed from an int.
ValueOf(i) == i

\* A name that occurs again, as versioned symbols do, gets its last index.
MapOf(lines) ==
    [n \in {lines[i] : i \in DOMAIN lines} |->
        ValueOf(CHOOSE i \in DOMAIN lines :
                    lines[i] = n /\ \A j \in DOMAIN lines : lines[j] = n => j <= i)]

\* run() does not look at the result of readFileToMap.
readFileToMap ==
    /\ phase = "read"
    /\ IF listing = NULL THEN UNCHANGED reader
       ELSE stringMap' = MapOf(listing) /\ loaded' = TRUE
    /\ phase' = "inject"
    /\ UNCHANGED <<listing, code, pass, process>>

isStringInMap(n) == loaded /\ n \in DOMAIN stringMap

-----------------------------------------------------------------------------
(* The pass. *)

\* What stands at place j of instruction k of a block: one of the system calls
\* before it, or the instruction itself.
At(B, before, k, j) == IF j <= Len(before[k]) THEN before[k][j] ELSE B.code[k]

Places(B, before) == UNION {{k} \X (1..(Len(before[k]) + 1)) : k \in 1..Len(B.code)}

\* The function an instruction calls; the injected system calls go through the
\* library's syscall.
Callee(I) == IF I.op = "call" THEN I.arg ELSE "syscall"

Kind(n) == IF isStringInMap(n) THEN "libc" ELSE IF n \in DOMAIN code THEN "user" ELSE "other"

\* The calls whose callee is known; a call through a pointer is passed over.
getLibraryCalls(B, before) ==
    [p \in {p \in Places(B, before) : At(B, before, p[1], p[2]).op \notin {"indirect", "other", "ret"}} |->
        LET n == Callee(At(B, before, p[1], p[2])) IN [kind |-> Kind(n), name |-> n]]

\* A call the pass announces: not one through a pointer.
ListedCall(f, I) == f \notin Skipped /\ I.op = "call" /\ isStringInMap(I.arg)

\* injectDummySyscall
Announce(I) == [op |-> "dummycall", arg |-> stringMap[I.arg]]

\* Mutant: the call is announced after it was made.
Injected_after(f, b) ==
    [k \in 1..Len(code[f][b].code) |->
        IF k > 1 /\ ListedCall(f, code[f][b].code[k - 1]) THEN <<Announce(code[f][b].code[k - 1])>>
        ELSE <<>>]

\* The announcement goes before the call.
Injected(f, b) ==
    [k \in 1..Len(code[f][b].code) |->
        IF ListedCall(f, code[f][b].code[k]) THEN <<Announce(code[f][b].code[k])>> ELSE <<>>]

\* Mutant: the calls are recorded from the block that was injected.
Recorded_late(f, b) == getLibraryCalls(code[f][b], Injected(f, b))

\* What is recorded for the graph, before the block is changed.
Recorded(f, b) == getLibraryCalls(code[f][b], inserted[f][b])

\* One turn of the loop over the functions, whose order does not matter.
runOnModule ==
    /\ phase = "inject"
    /\ LET f == CHOOSE f \in waiting : TRUE
       IN  /\ bbToLibcMap' = [bbToLibcMap EXCEPT ![f] = [b \in 1..Len(code[f]) |-> Recorded(f, b)]]
           /\ inserted' = [inserted EXCEPT ![f] = [b \in 1..Len(code[f]) |-> Injected(f, b)]]
           /\ waiting' = waiting \ {f}
    /\ phase' = IF waiting' = {} THEN "init" ELSE "inject"
    /\ UNCHANGED <<listing, reader, code, process>>

SysCall(s) == [op |-> s, arg |-> 0]

\* The system calls placed in every function whose name begins with "main".
InMains(Placed(_)) == [f \in DOMAIN code |-> IF f \in MainLike THEN Placed(f) ELSE inserted[f]]

\* Mutant: the last block, not the entry block.
InitBlock_back(f) == Len(code[f])

\* getEntryBlock
InitBlock(f) == 1

\* sandbox_init before the first instruction, and what was placed before that.
SectionAddressHandler ==
    /\ phase = "init"
    /\ inserted' = InMains(LAMBDA f : [inserted[f] EXCEPT ![InitBlock(f)][1] = InsertAt(@, 1, SysCall("init"))])
    /\ phase' = "cleanup"
    /\ UNCHANGED <<listing, reader, code, bbToLibcMap, waiting, process>>

OnlyReturn(f, b) == code[f][b].code[1].op = "ret" /\ inserted[f][b][1] = <<>>

\* Mutant: the break leaves both loops, so that the first return is taken.
LastBlock_first_return(f) == CHOOSE b \in 1..Len(code[f]) : ~ OnlyReturn(f, b)

\* The block of lastInst: the last one in the layout with something before its
\* return.
LastBlock(f) ==
    CHOOSE b \in 1..Len(code[f]) :
        ~ OnlyReturn(f, b) /\ \A c \in (b + 1)..Len(code[f]) : OnlyReturn(f, c)

\* lastInst, the last of its instructions that is no return, and its place.
LastInst(B, before) ==
    LET n == Len(B.code)
        k == IF B.code[n].op = "ret" /\ before[n] = <<>> THEN n - 1 ELSE n
    IN  <<k, IF B.code[k].op = "ret" THEN Len(before[k]) ELSE Len(before[k]) + 1>>

\* sandbox_cleanup before lastInst.
MemoryCleanupHandler ==
    /\ phase = "cleanup"
    /\ inserted' = InMains(LAMBDA f :
                      LET b    == LastBlock(f)
                          last == LastInst(code[f][b], inserted[f][b])
                      IN  [inserted[f] EXCEPT ![b][last[1]] = InsertAt(@, last[2], SysCall("cleanup"))])
    /\ phase' = "run" /\ stack' = << <<"main", 1, 1, 1>> >>
    /\ UNCHANGED <<listing, reader, code, bbToLibcMap, waiting, announced, inited, cleaned>>

-----------------------------------------------------------------------------
(* The instrumented program runs. *)

Running == phase = "run" /\ stack # <<>>
Frame == stack[Len(stack)]
Before(s) == inserted[s[1]][s[2]][s[3]]
Code(s) == code[s[1]][s[2]].code[s[3]]
Current == At(code[Frame[1]][Frame[2]], inserted[Frame[1]][Frame[2]], Frame[3], Frame[4])

After(s) == IF s[4] <= Len(Before(s)) THEN <<s[1], s[2], s[3], s[4] + 1>> ELSE <<s[1], s[2], s[3] + 1, 1>>
Resume == [stack EXCEPT ![Len(stack)] = After(@)]

\* The functions an instruction may call.
Targets(I) == CASE I.op = "call"     -> {I.arg}
                [] I.op = "indirect" -> Pointees
                [] OTHER             -> {}

Unannounced(n) == IF isStringInMap(n) /\ announced # <<>> THEN Tail(announced) ELSE announced

\* A function with a body is entered.
enter ==
    /\ Running /\ Len(stack) < MaxDepth
    /\ \E f \in Targets(Current) \cap DOMAIN code :
          /\ announced' = Unannounced(f)
          /\ stack' = Append(Resume, <<f, 1, 1, 1>>)
    /\ UNCHANGED <<listing, reader, code, pass, phase, inited, cleaned>>

\* Any other function returns, or ends the process as exit does.
external_call ==
    /\ Running
    /\ \E f \in Targets(Current) \ DOMAIN code : announced' = Unannounced(f)
    /\ stack' = Resume
    /\ phase' \in {"run", "over"}
    /\ UNCHANGED <<listing, reader, code, pass, inited, cleaned>>

system_call ==
    /\ Running /\ Current.op \in {"dummycall", "init", "cleanup"}
    /\ announced' = IF Current.op = "dummycall" THEN Append(announced, Current.arg) ELSE announced
    /\ inited' = (inited \/ Current.op = "init")
    /\ cleaned' = (cleaned \/ Current.op = "cleanup")
    /\ stack' = Resume
    /\ UNCHANGED <<listing, reader, code, pass, phase>>

\* An instruction of no interest, a branch at the end of the block, a return.
local ==
    /\ Running /\ Current.op \in {"other", "ret"}
    /\ LET B == code[Frame[1]][Frame[2]]
       IN  \/ /\ Frame[3] < Len(B.code)
              /\ stack' = Resume
           \/ /\ Frame[3] = Len(B.code)
              /\ \E b \in B.succ : stack' = [stack EXCEPT ![Len(stack)] = <<Frame[1], b, 1, 1>>]
           \/ /\ Current.op = "ret"
              /\ stack' = Front(stack)
    /\ UNCHANGED <<listing, reader, code, pass, phase, announced, inited, cleaned>>

Next == \/ extractFunctionNames \/ readFileToMap
        \/ runOnModule \/ SectionAddressHandler \/ MemoryCleanupHandler
        \/ enter \/ external_call \/ system_call \/ local

Spec == Init /\ [][Next]_vars

-----------------------------------------------------------------------------
(* Properties. *)

\* On every path of the program, loops, branches and calls of other functions
\* included, what is announced is an index of the listing, and the function listed
\* there is called next: at most the sandbox_cleanup that was inserted afterwards
\* lies between the two. A listed function is called unannounced only through a
\* pointer or by a function the pass skips.
AnnouncedBeforeCall ==
    Running =>
        /\ announced = <<>> =>
              \A n \in Targets(Current) : isStringInMap(n) => Current.op = "indirect" \/ Frame[1] \in Skipped
        /\ announced # <<>> =>
              \/ Current.op = "cleanup"
              \/ \E i \in DOMAIN listing : announced = <<i>> /\ Targets(Current) = {listing[i]}

\* The graph and the program are made from one reading of the block: the library
\* calls recorded for a block are the ones it announces, each at its place and so
\* in the same order. The calls the pass inserts itself, made through the listed
\* function syscall, are in neither.
RecordedMatchesAnnounced ==
    \A f \in DOMAIN code \ (Skipped \cup waiting) : \A b \in 1..Len(code[f]) :
        \A k \in 1..Len(code[f][b].code) :
            LET calls  == bbToLibcMap[f][b]
                before == inserted[f][b][k]
                libc   == {p \in DOMAIN calls : p[1] = k /\ calls[p].kind = "libc"}
                dummys == {j \in 1..Len(before) : before[j].op = "dummycall"}
            IN  \/ libc = {} /\ dummys = {}
                \/ \E p \in libc, j \in dummys : /\ libc = {p} /\ dummys = {j}
                                                 /\ stringMap[calls[p].name] = before[j].arg

\* Nothing is announced to the kernel before it was given the graph.
InitBeforeAnnounce == announced # <<>> => inited

\* The shape of main that MemoryCleanupHandler is written for: one return, at
\* the end of the last block and after something that is no call of one of the
\* program's own functions; no second function whose name begins with "main", and
\* no call of main.
UsualMain ==
    LET blocks == code["main"]
        end    == blocks[Len(blocks)].code
    IN  /\ DOMAIN code \cap MainLike = {"main"}
        /\ \A b \in 1..Len(blocks) : blocks[b].code[Len(blocks[b].code)].op = "ret" <=> b = Len(blocks)
        /\ Len(end) > 1
        /\ Targets(end[Len(end) - 1]) \cap DOMAIN code = {}
        /\ \A f \in DOMAIN code : \A b \in 1..Len(code[f]) : \A k \in 1..Len(code[f][b].code) :
              "main" \notin Targets(code[f][b].code[k])

\* With such a main the state of the kernel is released exactly when it is no
\* longer needed: a program that returns has called sandbox_cleanup, and none
\* that called it announces anything more.
CleanupLast ==
    UsualMain => /\ phase = "run" /\ stack = <<>> => cleaned
                 /\ cleaned /\ Running => Current.op # "dummycall"

-----------------------------------------------------------------------------
(* What the proofs rest on. *)

\* The listing is one LibcListGen wrote, and the map was made from it.
ReaderInv ==
    /\ listing = NULL \/ \E T \in {Symbols} \cup OldTables : listing \in Listings(T)
    /\ stringMap \in [DOMAIN stringMap -> Nat]
    /\ \A n \in DOMAIN stringMap : stringMap[n] \in DOMAIN listing /\ listing[stringMap[n]] = n
    /\ phase \in {"dump", "read"} => waiting = DOMAIN code \ Skipped /\ stringMap = <<>>

SystemCall == [op : {"dummycall"}, arg : Nat] \cup [op : {"init", "cleanup"}, arg : {0}]

NoneIn(before, op) == \A i \in 1..Len(before) : before[i].op # op

\* I is announced once, and nothing but a cleanup comes after.
Announcing(before, I) ==
    \E d \in 1..Len(before) : /\ before[d] = Announce(I)
                              /\ \A i \in 1..Len(before) : /\ i # d => before[i].op # "dummycall"
                                                           /\ i > d => before[i].op = "cleanup"

PlacedAt(f, I, before) ==
    /\ before \in Seq(SystemCall)
    /\ IF f \notin waiting /\ ListedCall(f, I) THEN Announcing(before, I) ELSE NoneIn(before, "dummycall")
    /\ phase \in {"dump", "read", "inject", "init"} => NoneIn(before, "init")
    /\ phase \in {"dump", "read", "inject", "init", "cleanup"} => NoneIn(before, "cleanup")

PlacedIn(f, placed) ==
    /\ placed = [b \in 1..Len(code[f]) |-> placed[b]]
    /\ \A b \in 1..Len(code[f]) :
          /\ placed[b] = [k \in 1..Len(code[f][b].code) |-> placed[b][k]]
          /\ \A k \in 1..Len(code[f][b].code) : PlacedAt(f, code[f][b].code[k], placed[b][k])

\* Every listed call of a function that was visited is announced, no other call
\* is, and the two handlers leave the announcements where they are.
PlacedInv ==
    /\ code \in Modules
    /\ inserted = [f \in DOMAIN code |-> inserted[f]]
    /\ \A f \in DOMAIN code : PlacedIn(f, inserted[f])

\* A function starts with sandbox_init when nothing is announced before it.
InitFirst(before) ==
    \E p \in 1..Len(before) : /\ before[p].op = "init"
                              /\ \A i \in 1..p : before[i].op # "dummycall"

InitInv ==
    /\ phase \in {"cleanup", "run", "over"} =>
          \A f \in DOMAIN code \cap MainLike : InitFirst(inserted[f][1][1])
    /\ phase = "cleanup" =>
          \A f \in DOMAIN code : \A b \in 1..Len(code[f]) : \A k \in 1..Len(code[f][b].code) :
             b # 1 \/ k # 1 => NoneIn(inserted[f][b][k], "init")

\* The last block of main, and its last instruction before the return.
End == Len(code["main"])
Tip == Len(code["main"][End].code) - 1

\* The last of the system calls, and no other, is a sandbox_cleanup.
CleanedAfter(before) == before # <<>> /\ \A i \in 1..Len(before) : before[i].op = "cleanup" <=> i = Len(before)

\* In a usual main sandbox_cleanup is right before that instruction, and nowhere
\* else.
CleanupInv ==
    UsualMain /\ phase \in {"run", "over"} =>
        /\ CleanedAfter(inserted["main"][End][Tip]) /\ inserted["main"][End][Tip + 1] = <<>>
        /\ \A f \in DOMAIN code : \A b \in 1..Len(code[f]) : \A k \in 1..Len(code[f][b].code) :
              <<f, b, k>> # <<"main", End, Tip>> => NoneIn(inserted[f][b][k], "cleanup")

CallsIn(B) ==
    [p \in {k \in 1..Len(B.code) : B.code[k].op = "call"} \X {1} |->
        [kind |-> Kind(B.code[p[1]].arg), name |-> B.code[p[1]].arg]]

\* Recorded are the calls of the block as it was compiled.
RecordInv ==
    /\ bbToLibcMap = [f \in DOMAIN code |-> bbToLibcMap[f]]
    /\ \A f \in DOMAIN code \ (Skipped \cup waiting) : \A b \in 1..Len(code[f]) :
          bbToLibcMap[f][b] = CallsIn(code[f][b])

FrameOK(s) ==
    /\ s = <<s[1], s[2], s[3], s[4]>>
    /\ s[1] \in DOMAIN code /\ s[2] \in 1..Len(code[s[1]])
    /\ s[3] \in 1..Len(code[s[1]][s[2]].code) /\ s[4] \in 1..(Len(Before(s)) + 1)

\* Somewhere before the place of s its instruction was announced.
Pending(s) == \E d \in 1..(s[4] - 1) : Before(s)[d].op = "dummycall"

\* Frames are at places of the program, callers between two instructions, and
\* what is announced is what the frame on top has still to call.
RunInv ==
    /\ phase \in {"dump", "read", "inject", "init", "cleanup"} =>
          stack = <<>> /\ announced = <<>> /\ ~ inited /\ ~ cleaned
    /\ phase \notin {"dump", "read"} => (phase = "inject" <=> waiting # {})
    /\ phase = "run" =>
          /\ stack \in Seq((DOMAIN code) \X Nat \X Nat \X Nat)
          /\ \A i \in 1..Len(stack) : FrameOK(stack[i]) /\ (i < Len(stack) => stack[i][4] = 1)
          /\ announced = IF stack # <<>> /\ Pending(Frame)
                         THEN <<stringMap[Code(Frame).arg]>> ELSE <<>>

\* Until sandbox_init the program is before the first instruction of main.
StartInv ==
    /\ ~ inited => announced = <<>>
    /\ phase = "run" /\ ~ inited =>
          /\ Len(stack) = 1 /\ stack[1][1] = "main" /\ stack[1][2] = 1 /\ stack[1][3] = 1
          /\ \A i \in 1..(stack[1][4] - 1) : Before(stack[1])[i].op # "init"

\* A usual main is past its sandbox_cleanup.
Past(s) == s[2] = End /\ (s[3] = Tip + 1 \/ (s[3] = Tip /\ s[4] > Len(Before(s))))

EndInv ==
    UsualMain /\ phase = "run" =>
        /\ \A i \in 1..Len(stack) : stack[i][1] = "main" <=> i = 1
        /\ stack = <<>> => cleaned
        /\ stack # <<>> => (cleaned <=> Past(stack[1]))
        /\ cleaned => Len(stack) <= 1

\* The strengthening behind the properties.
InstrumentInv ==
    /\ ReaderInv /\ PlacedInv /\ InitInv /\ CleanupInv /\ RecordInv
    /\ RunInv /\ StartInv /\ EndInv

=============================================================================
